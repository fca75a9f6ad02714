------------------------------ MODULE RayMath ------------------------------
(***************************************************************************)
(* The functions of raymath.h on matrices, quaternions and rotations.  A   *)
(* float is a count of 1/Unit; a product or quotient that is no such count *)
(* is an error of the instance, so that every result is exact and rounding *)
(* is left out.  A matrix is the function i |-> m_i.  An angle is its cosf *)
(* and sinf, Full of the same for the half angle.                          *)
(***************************************************************************)
EXTENDS Integers, Sequences, TLC

CONSTANT Unit   \* the float 1.0f

ASSUME UnitAssumption == Unit \in Nat \ {0}

a \otimes b == IF (a * b) % Unit = 0 THEN (a * b) \div Unit
               ELSE Assert(FALSE, <<"inexact product", a, b>>)

Ratio(a, b) == LET n == IF b > 0 THEN a * Unit ELSE -a * Unit
                   d == IF b > 0 THEN b ELSE -b
               IN  IF n % d = 0 THEN n \div d
                   ELSE Assert(FALSE, <<"inexact quotient", a, b>>)

Root(n)  == CHOOSE r \in 0..2 * Unit : r * r = n
sqrtf(a) == Root(a * Unit)

Full(h) == [cos |-> h.cos \otimes h.cos - h.sin \otimes h.sin,
            sin |-> 2 * (h.cos \otimes h.sin)]
NotBack(a) == a    \* mistake: the angle itself
Back(a) == [a EXCEPT !.sin = -a.sin]    \* the angle -a

Vector(x, y, z) == [x |-> x, y |-> y, z |-> z]
Quaternion(x, y, z, w) == [x |-> x, y |-> y, z |-> z, w |-> w]

Minus(u, v) == Vector(u.x - v.x, u.y - v.y, u.z - v.z)
Dot(u, v)   == u.x \otimes v.x + u.y \otimes v.y + u.z \otimes v.z
Length(v)   == sqrtf(Dot(v, v))

Vector3Normalize(v) ==
  LET length == IF Length(v) = 0 THEN Unit ELSE Length(v)
  IN  Vector(Ratio(v.x, length), Ratio(v.y, length), Ratio(v.z, length))

Vector3CrossProduct(u, v) ==
  Vector(u.y \otimes v.z - u.z \otimes v.y, u.z \otimes v.x - u.x \otimes v.z,
         u.x \otimes v.y - u.y \otimes v.x)

----------------------------------------------------------------------------
(* An initializer {e1, ..., e16} fills the rows: m0, m4, m8, m12, m1, ...  *)
Rows(e) == [i \in 0..15 |-> e[4 * (i % 4) + i \div 4 + 1]]

(* The initializer that lists what would be m0, m1, m2, ..., m15 of m.     *)
Listed(m) == Rows([k \in 1..16 |-> m[k - 1]])

(* Mistake: m15 is left at 0.                                              *)
TurningOpen(r1, r2, r3) ==
  Rows(r1 \o <<0>> \o r2 \o <<0>> \o r3 \o <<0, 0, 0, 0, 0>>)

(* A matrix of which only the first three rows and columns differ from     *)
(* the identity.                                                           *)
Turning(r1, r2, r3) ==
  Rows(r1 \o <<0>> \o r2 \o <<0>> \o r3 \o <<0, 0, 0, 0, Unit>>)

(* (Its parameter lets TLC evaluate it for more than one Unit.)            *)
MatrixIdentity(one) == Turning(<<one, 0, 0>>, <<0, one, 0>>, <<0, 0, one>>)

MatrixTranslate(x, y, z) ==
  [MatrixIdentity(Unit) EXCEPT ![12] = x, ![13] = y, ![14] = z]

MatrixMultiply(left, right) ==
  [i \in 0..15 |->
     LET r == 4 * (i \div 4)
         c == i % 4
     IN  left[r] \otimes right[c] + left[r + 1] \otimes right[c + 4]
           + left[r + 2] \otimes right[c + 8] + left[r + 3] \otimes right[c + 12]]

(* Row and column of the code's a00 ... a33 are i \div 4 and i % 4.  The   *)
(* sub-determinants b00 ... b11 of columns j and k, of rows 0 and 1 or of  *)
(* rows 2 and 3.                                                           *)
Minor(m, row, j, k) == m[4 * row + j] \otimes m[4 * row + 4 + k]
                         - m[4 * row + k] \otimes m[4 * row + 4 + j]

MatrixDeterminant(m) ==
  LET P(i, j, k, l) == (m[i] \otimes m[j]) \otimes (m[k] \otimes m[l])
  IN  P(12, 9, 6, 3) - P(8, 13, 6, 3) - P(12, 5, 10, 3) + P(4, 13, 10, 3)
      + P(8, 5, 14, 3) - P(4, 9, 14, 3) - P(12, 9, 2, 7) + P(8, 13, 2, 7)
      + P(12, 1, 10, 7) - P(0, 13, 10, 7) - P(8, 1, 14, 7) + P(0, 9, 14, 7)
      + P(12, 5, 2, 11) - P(4, 13, 2, 11) - P(12, 1, 6, 11) + P(0, 13, 6, 11)
      + P(4, 1, 14, 11) - P(0, 5, 14, 11) - P(8, 5, 2, 15) + P(4, 9, 2, 15)
      + P(8, 1, 6, 15) - P(0, 9, 6, 15) - P(4, 1, 10, 15) + P(0, 5, 10, 15)

MatrixInvert(m) ==
  LET b == [i \in 0..11 |->
              LET row == IF i < 6 THEN 0 ELSE 2
                  js  == <<0, 0, 0, 1, 1, 2>>
                  ks  == <<1, 2, 3, 2, 3, 3>>
              IN  Minor(m, row, js[(i % 6) + 1], ks[(i % 6) + 1])]
      det == b[0] \otimes b[11] - b[1] \otimes b[10] + b[2] \otimes b[9]
               + b[3] \otimes b[8] - b[4] \otimes b[7] + b[5] \otimes b[6]
      S(i, p, j, q, k, r) == Ratio(m[i] \otimes b[p] - m[j] \otimes b[q]
                                     + m[k] \otimes b[r], det)
      N(i, p, j, q, k, r) == -S(i, p, j, q, k, r)
      e == << S(5, 11, 6, 10, 7, 9),  N(1, 11, 2, 10, 3, 9),
              S(13, 5, 14, 4, 15, 3), N(9, 5, 10, 4, 11, 3),
              N(4, 11, 6, 8, 7, 7),   S(0, 11, 2, 8, 3, 7),
              N(12, 5, 14, 2, 15, 1), S(8, 5, 10, 2, 11, 1),
              S(4, 10, 5, 8, 7, 6),   N(0, 10, 1, 8, 3, 6),
              S(12, 4, 13, 2, 15, 0), N(8, 4, 9, 2, 11, 0),
              N(4, 9, 5, 7, 6, 6),    S(0, 9, 1, 7, 2, 6),
              N(12, 3, 13, 1, 14, 0), S(8, 3, 9, 1, 10, 0) >>
  IN  [i \in 0..15 |-> e[i + 1]]

QuaternionTransform(q, m) ==
  LET Entry(i) == m[i] \otimes q.x + m[i + 4] \otimes q.y
                    + m[i + 8] \otimes q.z + m[i + 12] \otimes q.w
  IN  Quaternion(Entry(0), Entry(1), Entry(2), Entry(3))

Vector3Transform(v, m) ==
  LET Entry(i) == m[i] \otimes v.x + m[i + 4] \otimes v.y + m[i + 8] \otimes v.z
                    + m[i + 12]
  IN  Vector(Entry(0), Entry(1), Entry(2))

(* Mistake: the inverse assigned member by member.                         *)
UnprojectOnce(source, projection, view) ==
  LET inverse == MatrixInvert(Listed(MatrixMultiply(view, projection)))
      q == QuaternionTransform(Quaternion(source.x, source.y, source.z, Unit),
                               inverse)
  IN  Vector(Ratio(q.x, q.w), Ratio(q.y, q.w), Ratio(q.z, q.w))

(* The product and its inverse are both written out in the order m0, m1,   *)
(* ... into initializers.                                                  *)
Vector3Unproject(source, projection, view) ==
  LET matViewProj    == Listed(MatrixMultiply(view, projection))
      matViewProjInv == Listed(MatrixInvert(matViewProj))
      q == QuaternionTransform(Quaternion(source.x, source.y, source.z, Unit),
                               matViewProjInv)
  IN  Vector(Ratio(q.x, q.w), Ratio(q.y, q.w), Ratio(q.z, q.w))

----------------------------------------------------------------------------
MatrixFrustum(left, right, bottom, top, near, far) ==
  LET rl == right - left
      tb == top - bottom
      fn == far - near
  IN  Rows(<< Ratio(2 * near, rl), 0, Ratio(right + left, rl), 0,
              0, Ratio(2 * near, tb), Ratio(top + bottom, tb), 0,
              0, 0, -Ratio(far + near, fn), -Ratio(2 * (far \otimes near), fn),
              0, 0, -Unit, 0 >>)

MatrixOrtho(left, right, bottom, top, near, far) ==
  LET rl == right - left
      tb == top - bottom
      fn == far - near
  IN  Rows(<< Ratio(2 * Unit, rl), 0, 0, -Ratio(left + right, rl),
              0, Ratio(2 * Unit, tb), 0, -Ratio(top + bottom, tb),
              0, 0, -Ratio(2 * Unit, fn), -Ratio(far + near, fn),
              0, 0, 0, Unit >>)

(* Mistake: the operands of the first cross product exchanged.             *)
LookAtMirrored(eye, target, up) ==
  LET vz == Vector3Normalize(Minus(eye, target))
      vx == Vector3Normalize(Vector3CrossProduct(vz, up))
      vy == Vector3CrossProduct(vz, vx)
  IN  Rows(<< vx.x, vx.y, vx.z, -Dot(vx, eye),
              vy.x, vy.y, vy.z, -Dot(vy, eye),
              vz.x, vz.y, vz.z, -Dot(vz, eye), 0, 0, 0, Unit >>)

MatrixLookAt(eye, target, up) ==
  LET vz == Vector3Normalize(Minus(eye, target))
      vx == Vector3Normalize(Vector3CrossProduct(up, vz))
      vy == Vector3CrossProduct(vz, vx)
  IN  Rows(<< vx.x, vx.y, vx.z, -Dot(vx, eye),
              vy.x, vy.y, vy.z, -Dot(vy, eye),
              vz.x, vz.y, vz.z, -Dot(vz, eye), 0, 0, 0, Unit >>)

----------------------------------------------------------------------------
MatrixRotateX(a) ==
  [MatrixIdentity(Unit) EXCEPT ![5] = a.cos, ![6] = a.sin,
                                 ![9] = -a.sin, ![10] = a.cos]
MatrixRotateY(a) ==
  [MatrixIdentity(Unit) EXCEPT ![0] = a.cos, ![2] = -a.sin,
                                 ![8] = a.sin, ![10] = a.cos]
MatrixRotateZ(a) ==
  [MatrixIdentity(Unit) EXCEPT ![0] = a.cos, ![1] = a.sin,
                                 ![4] = -a.sin, ![5] = a.cos]

MatrixRotateXYZ(angle) ==
  LET x == Back(angle.x)
      y == Back(angle.y)
      z == Back(angle.z)
  IN  Turning(<< z.cos \otimes y.cos, z.sin \otimes y.cos, -y.sin >>,
              << z.cos \otimes y.sin \otimes x.sin - z.sin \otimes x.cos,
                 z.sin \otimes y.sin \otimes x.sin + z.cos \otimes x.cos,
                 y.cos \otimes x.sin >>,
              << z.cos \otimes y.sin \otimes x.cos + z.sin \otimes x.sin,
                 z.sin \otimes y.sin \otimes x.cos - z.cos \otimes x.sin,
                 y.cos \otimes x.cos >>)

MatrixRotateZYX(angle) ==
  LET x == angle.x
      y == angle.y
      z == angle.z
  IN  Turning(<< z.cos \otimes y.cos,
                 z.cos \otimes y.sin \otimes x.sin - x.cos \otimes z.sin,
                 z.sin \otimes x.sin + z.cos \otimes x.cos \otimes y.sin >>,
              << y.cos \otimes z.sin,
                 z.cos \otimes x.cos + z.sin \otimes y.sin \otimes x.sin,
                 x.cos \otimes z.sin \otimes y.sin - z.cos \otimes x.sin >>,
              << -y.sin, y.cos \otimes x.sin, y.cos \otimes x.cos >>)

(* Mistake: rows for columns.                                              *)
RotateRows(axis, a) ==
  LET n == Vector3Normalize(axis)
      t == Unit - a.cos
      D(i)       == i \otimes i \otimes t + a.cos
      E(i, j, k) == i \otimes j \otimes t - k \otimes a.sin
  IN  Turning(<< D(n.x), E(n.x, n.y, -n.z), E(n.x, n.z, n.y) >>,
              << E(n.y, n.x, n.z), D(n.y), E(n.y, n.z, -n.x) >>,
              << E(n.z, n.x, -n.y), E(n.z, n.y, n.x), D(n.z) >>)

(* An axis of length 0 is left as it is.                                   *)
MatrixRotate(axis, a) ==
  LET n == Vector3Normalize(axis)
      t == Unit - a.cos
      D(i)       == i \otimes i \otimes t + a.cos
      E(i, j, k) == i \otimes j \otimes t + k \otimes a.sin
  IN  Turning(<< D(n.x), E(n.x, n.y, -n.z), E(n.x, n.z, n.y) >>,
              << E(n.y, n.x, n.z), D(n.y), E(n.y, n.z, -n.x) >>,
              << E(n.z, n.x, -n.y), E(n.z, n.y, n.x), D(n.z) >>)

(* Euler-Rodrigues: v + 2a(w x v) + 2(w x (w x v)).                        *)
Vector3RotateByAxisAngle(v, axis, half) ==
  LET n == Vector3Normalize(axis)
      w == Vector(n.x \otimes half.sin, n.y \otimes half.sin, n.z \otimes half.sin)
      wv  == Vector3CrossProduct(w, v)
      wwv == Vector3CrossProduct(w, wv)
      R(c, u, uu) == c + u \otimes (2 * half.cos) + 2 * uu
  IN  Vector(R(v.x, wv.x, wwv.x), R(v.y, wv.y, wwv.y), R(v.z, wv.z, wwv.z))

----------------------------------------------------------------------------
NormSquared(q) == q.x \otimes q.x + q.y \otimes q.y + q.z \otimes q.z
                    + q.w \otimes q.w

Scaled(q, length) == Quaternion(Ratio(q.x, length), Ratio(q.y, length),
                                Ratio(q.z, length), Ratio(q.w, length))

QuaternionNormalize(q) ==
  LET length == sqrtf(NormSquared(q))
  IN  Scaled(q, IF length = 0 THEN Unit ELSE length)

QuaternionInvert(q) ==
  LET n == NormSquared(q)
  IN  IF n = 0 THEN q ELSE Scaled(Quaternion(-q.x, -q.y, -q.z, q.w), n)

(* Mistake: the factors exchanged.                                        *)
MultiplySwapped(a, b) ==
  Quaternion(
    a.x \otimes b.w + a.w \otimes b.x - a.y \otimes b.z + a.z \otimes b.y,
    a.y \otimes b.w + a.w \otimes b.y - a.z \otimes b.x + a.x \otimes b.z,
    a.z \otimes b.w + a.w \otimes b.z - a.x \otimes b.y + a.y \otimes b.x,
    a.w \otimes b.w - a.x \otimes b.x - a.y \otimes b.y - a.z \otimes b.z)

QuaternionMultiply(a, b) ==
  Quaternion(
    a.x \otimes b.w + a.w \otimes b.x + a.y \otimes b.z - a.z \otimes b.y,
    a.y \otimes b.w + a.w \otimes b.y + a.z \otimes b.x - a.x \otimes b.z,
    a.z \otimes b.w + a.w \otimes b.z + a.x \otimes b.y - a.y \otimes b.x,
    a.w \otimes b.w - a.x \otimes b.x - a.y \otimes b.y - a.z \otimes b.z)

Vector3RotateByQuaternion(v, q) ==
  LET xx == q.x \otimes q.x
      yy == q.y \otimes q.y
      zz == q.z \otimes q.z
      ww == q.w \otimes q.w
      xy == 2 * (q.x \otimes q.y)
      xz == 2 * (q.x \otimes q.z)
      yz == 2 * (q.y \otimes q.z)
      wx == 2 * (q.w \otimes q.x)
      wy == 2 * (q.w \otimes q.y)
      wz == 2 * (q.w \otimes q.z)
  IN  Vector(v.x \otimes (xx + ww - yy - zz) + v.y \otimes (xy - wz)
               + v.z \otimes (xz + wy),
             v.x \otimes (wz + xy) + v.y \otimes (ww - xx + yy - zz)
               + v.z \otimes (yz - wx),
             v.x \otimes (xz - wy) + v.y \otimes (wx + yz)
               + v.z \otimes (ww - xx - yy + zz))

QuaternionToMatrix(q) ==
  LET D(i, j)       == Unit - 2 * (i \otimes i + j \otimes j)
      E(i, j, k, l) == 2 * (i \otimes j + k \otimes l)
  IN  Turning(<< D(q.y, q.z), E(q.x, q.y, -q.w, q.z), E(q.x, q.z, q.w, q.y) >>,
              << E(q.x, q.y, q.w, q.z), D(q.x, q.z), E(q.y, q.z, -q.w, q.x) >>,
              << E(q.x, q.z, -q.w, q.y), E(q.y, q.z, q.w, q.x), D(q.x, q.y) >>)

(* 4w^2 - 1, 4x^2 - 1, ... from the diagonal: the first of the largest is  *)
(* taken and divides the other three.                                      *)
QuaternionFromMatrix(m) ==
  LET four == << m[0] + m[5] + m[10], m[0] - m[5] - m[10],
                 m[5] - m[0] - m[10], m[10] - m[0] - m[5] >>
      biggest == CHOOSE i \in 1..4 :
                   /\ \A j \in 1..4 : four[j] <= four[i]
                   /\ \A j \in 1..(i - 1) : four[j] < four[i]
      twice == sqrtf(four[biggest] + Unit)
      Other(d) == Ratio(d, 2 * twice)
      val == twice \div 2
  IN  CASE biggest = 1 -> Quaternion(Other(m[6] - m[9]), Other(m[8] - m[2]),
                                     Other(m[1] - m[4]), val)
        [] biggest = 2 -> Quaternion(val, Other(m[1] + m[4]),
                                     Other(m[8] + m[2]), Other(m[6] - m[9]))
        [] biggest = 3 -> Quaternion(Other(m[1] + m[4]), val,
                                     Other(m[6] + m[9]), Other(m[8] - m[2]))
        [] biggest = 4 -> Quaternion(Other(m[8] + m[2]), Other(m[6] + m[9]),
                                     val, Other(m[1] - m[4]))

QuaternionFromAxisAngle(axis, half) ==
  IF Length(axis) = 0 THEN Quaternion(0, 0, 0, Unit)
  ELSE LET n == Vector3Normalize(axis)
       IN  QuaternionNormalize(
             Quaternion(n.x \otimes half.sin, n.y \otimes half.sin,
                        n.z \otimes half.sin, half.cos))

QuaternionFromVector3ToVector3(from, to) ==
  LET cross == Vector3CrossProduct(from, to)
  IN  QuaternionNormalize(
        Quaternion(cross.x, cross.y, cross.z, Unit + Dot(from, to)))

(* x, y, z are half of pitch, yaw and roll.                                *)
QuaternionFromEuler(x, y, z) ==
  LET P(a, b, c) == a \otimes b \otimes c
  IN  Quaternion(P(x.sin, y.cos, z.cos) - P(x.cos, y.sin, z.sin),
                 P(x.cos, y.sin, z.cos) + P(x.sin, y.cos, z.sin),
                 P(x.cos, y.cos, z.sin) - P(x.sin, y.sin, z.cos),
                 P(x.cos, y.cos, z.cos) + P(x.sin, y.sin, z.sin))

(* atan2f(0, 0) is 0.                                                      *)
atan2f(s, c) ==
  LET r == Root(s * s + c * c)
  IN  IF r = 0 THEN [cos |-> Unit, sin |-> 0]
      ELSE [cos |-> Ratio(c, r), sin |-> Ratio(s, r)]

(* The argument of asinf is y0 of the code; the two clamps of y0 are for   *)
(* rounding and change nothing here.                                       *)
asinf(s) == [cos |-> Root(Unit * Unit - s * s), sin |-> s]

(* Mistake: y0 is a sum, as x0 and z0 are.                                 *)
ToEulerSummed(q) ==
  LET S(i, j, k, l) == 2 * (i \otimes j + k \otimes l)
      C(i, j)       == Unit - 2 * (i \otimes i + j \otimes j)
  IN  [x |-> atan2f(S(q.w, q.x, q.y, q.z), C(q.x, q.y)),
       y |-> asinf(S(q.w, q.y, q.z, q.x)),
       z |-> atan2f(S(q.w, q.z, q.x, q.y), C(q.y, q.z))]

QuaternionToEuler(q) ==
  LET S(i, j, k, l) == 2 * (i \otimes j + k \otimes l)
      C(i, j)       == Unit - 2 * (i \otimes i + j \otimes j)
  IN  [x |-> atan2f(S(q.w, q.x, q.y, q.z), C(q.x, q.y)),
       y |-> asinf(S(q.w, q.y, -q.z, q.x)),
       z |-> atan2f(S(q.w, q.z, q.x, q.y), C(q.y, q.z))]
=============================================================================
