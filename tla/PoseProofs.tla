----------------------------- MODULE PoseProofs -----------------------------
(***************************************************************************)
(* The body of Pose, for every Unit that is a multiple of 16 and every     *)
(* offset: what the functions of raymath.h keep true of its quaternion and *)
(* its matrix.                                                             *)
(*                                                                         *)
(* The quaternion is counts of Half and the matrix whole numbers.  The     *)
(* lemmas compute the functions on counts, where no product or quotient is *)
(* inexact; what is left is algebra of integers.                           *)
(***************************************************************************)
EXTENDS Pose, TLAPS
-----------------------------------------------------------------------------
(* Counts of Unit, Half and Unit \div 4, and the exact products and        *)
(* quotients of them.                                                      *)

(* A multiple leaves no remainder.                                         *)
LEMMA Multiple ==
  ASSUME NEW n \in Int, NEW d \in Nat \ {0}
  PROVE  (n * d) % d = 0 /\ (n * d) \div d = n
OBVIOUS

(* A product of two floats that is a float.                                *)
LEMMA Product ==
  ASSUME NEW x \in Int, NEW y \in Int, NEW z \in Int, x * y = z * Unit
  PROVE  x \otimes y = z
BY Multiple, UnitAssumption DEF \otimes

(* A quotient of two floats that is a float.                               *)
LEMMA Quotient ==
  ASSUME NEW x \in Int, NEW y \in Int, NEW z \in Int, y # 0, x * Unit = z * y
  PROVE  Ratio(x, y) = z
<1>1. CASE y > 0
  <2>1. (x * Unit) % y = 0 /\ (x * Unit) \div y = z
    BY <1>1, Multiple
  <2> QED
    BY <1>1, <2>1 DEF Ratio
<1>2. CASE y < 0
  <2>1. -y \in Nat \ {0} /\ -x * Unit = z * (-y) /\ ~(y > 0)
    BY <1>2, UnitAssumption
  <2>2. (-x * Unit) % (-y) = 0 /\ (-x * Unit) \div (-y) = z
    BY <2>1, Multiple
  <2> QED
    BY <2>1, <2>2 DEF Ratio
<1> QED
  BY <1>1, <1>2

(* The root of a square.                                                   *)
LEMMA RootIs ==
  ASSUME NEW r \in 0..2 * Unit
  PROVE  Root(r * r) = r
<1>1. \A s \in 0..2 * Unit : s * s = r * r => s = r
  BY UnitAssumption
<1> QED
  BY <1>1 DEF Root

(* Counts of 1.0f, of 0.5f and of 0.25f.                                   *)
Wholes(i)   == i * Unit
Halves(i)   == i * Half
Quarters(i) == i * (Unit \div 4)

(* The parts of Unit the proofs need.                                      *)
LEMMA Parts ==
  /\ Unit \in Int /\ Unit > 0 /\ Half \in Int /\ Unit \div 4 \in Int
  /\ Half * 2 = Unit /\ (Unit \div 4) * 4 = Unit /\ (Unit \div 4) * 2 = Half
BY UnitAssumption, PoseAssumption DEF Half

(* Times a whole number.                                                   *)
LEMMA WholeTimes ==
  /\ \A i, y \in Int : Wholes(i) \otimes y = i * y /\ y \otimes Wholes(i) = i * y
  /\ \A i \in Int : Wholes(i) \in Int
<1> SUFFICES ASSUME NEW i \in Int, NEW y \in Int
             PROVE  /\ Wholes(i) \in Int
                    /\ Wholes(i) \otimes y = i * y /\ y \otimes Wholes(i) = i * y
  OBVIOUS
<1>1. Wholes(i) \in Int /\ Wholes(i) * y = (i * y) * Unit /\ y * Wholes(i) = (i * y) * Unit
  BY Parts DEF Wholes
<1> QED
  BY <1>1, Product

(* The product of halves is in quarters.                                   *)
LEMMA HalfTimes ==
  /\ \A i, j \in Int : Halves(i) \otimes Halves(j) = Quarters(i * j)
  /\ \A i \in Int : Halves(i) \in Int /\ Quarters(i) \in Int
<1> SUFFICES ASSUME NEW i \in Int, NEW j \in Int
             PROVE  /\ Halves(i) \in Int /\ Quarters(i) \in Int
                    /\ Halves(i) \otimes Halves(j) = Quarters(i * j)
  OBVIOUS
<1>1. /\ Halves(i) \in Int /\ Quarters(i) \in Int /\ Halves(j) \in Int /\ Quarters(i * j) \in Int
  BY Parts DEF Halves, Quarters
<1>2. Halves(i) * Halves(j) = Quarters(i * j) * Unit
  <2> DEFINE u == Unit \div 4
  <2>1. u \in Int /\ Half = u * 2 /\ Unit = u * 4
    BY Parts
  <2> HIDE DEF u
  <2>2. (i * (u * 2)) * (j * (u * 2)) = ((i * j) * u) * (u * 4)
    BY <2>1
  <2> QED
    BY ONLY <2>1, <2>2 DEF Halves, Quarters, u
<1> QED
  BY <1>1, <1>2, Product
-----------------------------------------------------------------------------
(* An attitude is four counts n of Half, of norm 4; the matrix of a motion *)
(* is whole numbers. Turns(n, M): M turns as the attitude of n does.       *)

(* The counts of Half of an attitude, one of the 24 Hurwitz units.         *)
Norm(n) == n.x * n.x + n.y * n.y + n.z * n.z + n.w * n.w
Counts == {n \in Quaternions(-2..2) : Norm(n) = 4}
Attitude(n) == Quaternion(Halves(n.x), Halves(n.y), Halves(n.z), Halves(n.w))

(* The matrices of whole numbers, and as matrices of floats.               *)
Matrices == [0..15 -> Int]
InWholes(M) == [i \in 0..15 |-> Wholes(M[i])]

(* The matrix of QuaternionToMatrix, with any place.                       *)
Turns(n, M) ==
  /\ 4 * M[0]  = n.w * n.w + n.x * n.x - n.y * n.y - n.z * n.z
  /\ 4 * M[5]  = n.w * n.w - n.x * n.x + n.y * n.y - n.z * n.z
  /\ 4 * M[10] = n.w * n.w - n.x * n.x - n.y * n.y + n.z * n.z
  /\ 4 * M[1] = 2 * (n.x * n.y + n.w * n.z) /\ 4 * M[4] = 2 * (n.x * n.y - n.w * n.z)
  /\ 4 * M[6] = 2 * (n.y * n.z + n.w * n.x) /\ 4 * M[9] = 2 * (n.y * n.z - n.w * n.x)
  /\ 4 * M[8] = 2 * (n.x * n.z + n.w * n.y) /\ 4 * M[2] = 2 * (n.x * n.z - n.w * n.y)
  /\ M[3] = 0 /\ M[7] = 0 /\ M[11] = 0 /\ M[15] = 1

(* The counts are integers of norm 4.                                      *)
LEMMA CountTypes ==
  ASSUME NEW n \in Counts
  PROVE  /\ n.x \in Int /\ n.y \in Int /\ n.z \in Int /\ n.w \in Int
         /\ n.x * n.x + n.y * n.y + n.z * n.z + n.w * n.w = 4
         /\ n = Quaternion(n.x, n.y, n.z, n.w)
BY DEF Counts, Quaternions, Norm, Quaternion

(* Four integers of norm 4 are counts.                                     *)
LEMMA CountMade ==
  ASSUME NEW x \in Int, NEW y \in Int, NEW z \in Int, NEW w \in Int,
         x * x + y * y + z * z + w * w = 4
  PROVE  Quaternion(x, y, z, w) \in Counts
<1>1. \A i \in Int : i * i <= 4 => i \in -2..2
  OBVIOUS
<1>2. x * x <= 4 /\ y * y <= 4 /\ z * z <= 4 /\ w * w <= 4
  OBVIOUS
<1>3. x \in -2..2 /\ y \in -2..2 /\ z \in -2..2 /\ w \in -2..2
  BY <1>1, <1>2
<1> QED
  BY <1>3 DEF Counts, Quaternions, Norm, Quaternion

(* The four counts are all odd or all even.                                *)
LEMMA SameParity ==
  ASSUME NEW n \in Counts
  PROVE  \E a, b, c \in Int : n.x = n.w + 2 * a /\ n.y = n.w + 2 * b /\ n.z = n.w + 2 * c
<1>1. n.x \in -2..2 /\ n.y \in -2..2 /\ n.z \in -2..2 /\ n.w \in -2..2
  BY DEF Counts, Quaternions
<1>2. n.x * n.x + n.y * n.y + n.z * n.z + n.w * n.w = 4
  BY CountTypes
<1>3. (n.x - n.w) % 2 = 0 /\ (n.y - n.w) % 2 = 0 /\ (n.z - n.w) % 2 = 0
  BY ONLY <1>1, <1>2
<1>4. \A i, j \in Int : (i - j) % 2 = 0 => \E a \in Int : i = j + 2 * a
  <2> SUFFICES ASSUME NEW i \in Int, NEW j \in Int, (i - j) % 2 = 0
               PROVE  \E a \in Int : i = j + 2 * a
    OBVIOUS
  <2>1. (i - j) \div 2 \in Int /\ i = j + 2 * ((i - j) \div 2)
    OBVIOUS
  <2> QED
    BY <2>1
<1>5. n.x \in Int /\ n.y \in Int /\ n.z \in Int /\ n.w \in Int
  BY CountTypes
<1>6. PICK a \in Int : n.x = n.w + 2 * a
  BY <1>3, <1>4, <1>5
<1>7. PICK b \in Int : n.y = n.w + 2 * b
  BY <1>3, <1>4, <1>5
<1>8. PICK c \in Int : n.z = n.w + 2 * c
  BY <1>3, <1>4, <1>5
<1> QED
  BY <1>6, <1>7, <1>8

(* QuaternionToMatrix gives an attitude a matrix of whole numbers.         *)
LEMMA AttitudeTurns ==
  ASSUME NEW n \in Counts
  PROVE  \E M \in Matrices : /\ Turns(n, M) /\ M[12] = 0 /\ M[13] = 0 /\ M[14] = 0
                             /\ QuaternionToMatrix(Attitude(n)) = InWholes(M)
<1> DEFINE x == n.x
           y == n.y
           z == n.z
           w == n.w
<1>1. x \in Int /\ y \in Int /\ z \in Int /\ w \in Int /\ x * x + y * y + z * z + w * w = 4
  BY CountTypes
<1>2. PICK a, b, c \in Int : x = w + 2 * a /\ y = w + 2 * b /\ z = w + 2 * c
  BY SameParity
<1> DEFINE e0 == (w * w + x * x - y * y - z * z) \div 4
           e5 == (w * w - x * x + y * y - z * z) \div 4
           e10 == (w * w - x * x - y * y + z * z) \div 4
           e1 == (x * y + w * z) \div 2
           e4 == (x * y - w * z) \div 2
           e6 == (y * z + w * x) \div 2
           e9 == (y * z - w * x) \div 2
           e8 == (x * z + w * y) \div 2
           e2 == (x * z - w * y) \div 2
           e == <<e0, e1, e2, 0, e4, e5, e6, 0, e8, e9, e10, 0, 0, 0, 0, 1>>
           M == [i \in 0..15 |-> e[i + 1]]
<1> HIDE DEF x, y, z, w
<1>3. /\ 2 * e1 = x * y + w * z /\ 2 * e4 = x * y - w * z
      /\ 2 * e6 = y * z + w * x /\ 2 * e9 = y * z - w * x
      /\ 2 * e8 = x * z + w * y /\ 2 * e2 = x * z - w * y
  <2> USE <1>1
  <2>1. \A i \in Int : (2 * i) \div 2 = i
    OBVIOUS
  <2>2. x * y + w * z = 2 * (w * w + a * w + b * w + 2 * a * b + c * w)
    BY <1>2
  <2>3. x * y - w * z = 2 * (a * w + b * w + 2 * a * b - c * w)
    BY <1>2
  <2>4. y * z + w * x = 2 * (w * w + b * w + c * w + 2 * b * c + a * w)
    BY <1>2
  <2>5. y * z - w * x = 2 * (b * w + c * w + 2 * b * c - a * w)
    BY <1>2
  <2>6. x * z + w * y = 2 * (w * w + a * w + c * w + 2 * a * c + b * w)
    BY <1>2
  <2>7. x * z - w * y = 2 * (a * w + c * w + 2 * a * c - b * w)
    BY <1>2
  <2> QED
    BY <1>2, <2>1, <2>2, <2>3, <2>4, <2>5, <2>6, <2>7
<1>4. /\ 4 * e0 = w * w + x * x - y * y - z * z
      /\ 4 * e5 = w * w - x * x + y * y - z * z
      /\ 4 * e10 = w * w - x * x - y * y + z * z
  <2> USE <1>1
  <2>1. \A i \in Int : (4 * i) \div 4 = i
    OBVIOUS
  <2>2. w * w + x * x - y * y - z * z = 4 * (a * w + a * a - b * w - b * b - c * w - c * c)
    BY <1>2
  <2>3. w * w - x * x + y * y - z * z = 4 * (b * w + b * b - a * w - a * a - c * w - c * c)
    BY <1>2
  <2>4. w * w - x * x - y * y + z * z = 4 * (c * w + c * c - a * w - a * a - b * w - b * b)
    BY <1>2
  <2> QED
    BY <1>2, <2>1, <2>2, <2>3, <2>4
<1>5. /\ e0 \in Int /\ e1 \in Int /\ e2 \in Int /\ e4 \in Int /\ e5 \in Int
      /\ e6 \in Int /\ e8 \in Int /\ e9 \in Int /\ e10 \in Int
  BY <1>1
<1> HIDE DEF e0, e1, e2, e4, e5, e6, e8, e9, e10
<1>6. /\ M \in Matrices
      /\ M[0] = e0 /\ M[1] = e1 /\ M[2] = e2 /\ M[3] = 0
      /\ M[4] = e4 /\ M[5] = e5 /\ M[6] = e6 /\ M[7] = 0
      /\ M[8] = e8 /\ M[9] = e9 /\ M[10] = e10 /\ M[11] = 0
      /\ M[12] = 0 /\ M[13] = 0 /\ M[14] = 0 /\ M[15] = 1
  BY <1>5 DEF Matrices
<1> HIDE DEF e, M
<1>7. /\ 4 * e1 = 2 * (x * y + w * z) /\ 4 * e4 = 2 * (x * y - w * z)
       /\ 4 * e6 = 2 * (y * z + w * x) /\ 4 * e9 = 2 * (y * z - w * x)
       /\ 4 * e8 = 2 * (x * z + w * y) /\ 4 * e2 = 2 * (x * z - w * y)
  BY <1>1, <1>3, <1>5
<1>8. Turns(n, M)
  BY <1>7, <1>4, <1>6 DEF Turns, x, y, z, w
<1>9. QuaternionToMatrix(Attitude(n)) = InWholes(M)
  <2> DEFINE D(i, j) == Unit - 2 * (i \otimes i + j \otimes j)
             E(i, j, k, l) == 2 * (i \otimes j + k \otimes l)
             hx == Halves(x)
             hy == Halves(y)
             hz == Halves(z)
             hw == Halves(w)
             m0 == Turning(<< D(hy, hz), E(hx, hy, -hw, hz), E(hx, hz, hw, hy) >>,
              << E(hx, hy, hw, hz), D(hx, hz), E(hy, hz, -hw, hx) >>,
              << E(hx, hz, -hw, hy), E(hy, hz, hw, hx), D(hx, hy) >>)
  <2>1. QuaternionToMatrix(Attitude(n)) = m0
    BY DEF QuaternionToMatrix, Attitude, Quaternion, x, y, z, w
  <2>2. -hw = Halves(-w)
    BY <1>1, Parts DEF Halves
  <2>3. \A i, j \in Int : 2 * (w * w + x * x + y * y + z * z - 2 * (i * i + j * j)) =
             2 * (4 - 2 * (i * i + j * j))
    BY <1>1
  <2>4. \A i, j, k \in Int : 4 * k = 4 - 2 * (i * i + j * j) =>
             D(Halves(i), Halves(j)) = Wholes(k)
    <3> SUFFICES ASSUME NEW i \in Int, NEW j \in Int, NEW k \in Int,
                        4 * k = 4 - 2 * (i * i + j * j)
                 PROVE  D(Halves(i), Halves(j)) = Wholes(k)
      OBVIOUS
    <3>1. D(Halves(i), Halves(j)) = Unit - 2 * (Quarters(i * i) + Quarters(j * j))
      BY HalfTimes
    <3> QED
      BY <3>1, Parts DEF Quarters, Wholes
  <2>5. \A i, j, k, l, s \in Int : 2 * s = i * j + k * l =>
             E(Halves(i), Halves(j), Halves(k), Halves(l)) = Wholes(s)
    <3> SUFFICES ASSUME NEW i \in Int, NEW j \in Int, NEW k \in Int, NEW l \in Int,
                        NEW s \in Int, 2 * s = i * j + k * l
                 PROVE  E(Halves(i), Halves(j), Halves(k), Halves(l)) = Wholes(s)
      OBVIOUS
    <3>1. E(Halves(i), Halves(j), Halves(k), Halves(l)) = 2 * (Quarters(i * j) + Quarters(k * l))
      BY HalfTimes
    <3> QED
      BY <3>1, Parts DEF Quarters, Wholes
  <2>6. D(hy, hz) = Wholes(e0) /\ D(hx, hz) = Wholes(e5) /\ D(hx, hy) = Wholes(e10)
    <3>1. /\ 4 * e0 = 4 - 2 * (y * y + z * z) /\ 4 * e5 = 4 - 2 * (x * x + z * z)
          /\ 4 * e10 = 4 - 2 * (x * x + y * y)
      BY <1>1, <1>4, <1>5
    <3> HIDE DEF D
    <3> QED
      BY <1>1, <1>5, <3>1, <2>4
  <2>7. /\ E(hx, hy, -hw, hz) = Wholes(e4) /\ E(hx, hz, hw, hy) = Wholes(e8)
        /\ E(hx, hy, hw, hz) = Wholes(e1) /\ E(hy, hz, -hw, hx) = Wholes(e9)
        /\ E(hx, hz, -hw, hy) = Wholes(e2) /\ E(hy, hz, hw, hx) = Wholes(e6)
    <3>1. /\ 2 * e4 = x * y + (-w) * z /\ 2 * e9 = y * z + (-w) * x
          /\ 2 * e2 = x * z + (-w) * y
      BY <1>1, <1>3, <1>5
    <3>2. -w \in Int
      BY <1>1
    <3> HIDE DEF E
    <3> QED
      BY <1>1, <1>3, <1>5, <3>1, <3>2, <2>2, <2>5
  <2> HIDE DEF D, E, hx, hy, hz, hw
  <2>8. /\ m0 = [i \in 0..15 |-> m0[i]]
        /\ m0[0] = D(hy, hz) /\ m0[4] = E(hx, hy, -hw, hz) /\ m0[8] = E(hx, hz, hw, hy)
        /\ m0[1] = E(hx, hy, hw, hz) /\ m0[5] = D(hx, hz) /\ m0[9] = E(hy, hz, -hw, hx)
        /\ m0[2] = E(hx, hz, -hw, hy) /\ m0[6] = E(hy, hz, hw, hx) /\ m0[10] = D(hx, hy)
        /\ m0[3] = 0 /\ m0[7] = 0 /\ m0[11] = 0
        /\ m0[12] = 0 /\ m0[13] = 0 /\ m0[14] = 0 /\ m0[15] = Unit
    BY DEF Turning, Rows
  <2> HIDE DEF m0
  <2>9. Wholes(0) = 0 /\ Wholes(1) = Unit
    BY Parts DEF Wholes
  <2>10. \A i \in 0..15 : m0[i] = Wholes(M[i])
    BY <1>6, <2>6, <2>7, <2>8, <2>9
  <2> QED
    BY <2>1, <2>8, <2>10 DEF InWholes
<1> QED
  BY <1>6, <1>8, <1>9
-----------------------------------------------------------------------------
(* What such a matrix is: its rows are orthonormal and each is the cross   *)
(* product of the other two. Products of matrices and of quaternions are   *)
(* products of whole numbers.                                              *)

(* A rotation and a place: the axes of the body are orthonormal, by rows   *)
(* and by columns, and right-handed.                                       *)
Rotates(M) ==
  /\ M[5] * M[10] - M[6] * M[9] = M[0] /\ M[6] * M[8] - M[4] * M[10] = M[1]
  /\ M[4] * M[9] - M[5] * M[8] = M[2]
  /\ M[2] * M[9] - M[1] * M[10] = M[4] /\ M[0] * M[10] - M[2] * M[8] = M[5]
  /\ M[1] * M[8] - M[0] * M[9] = M[6]
  /\ M[1] * M[6] - M[2] * M[5] = M[8] /\ M[2] * M[4] - M[0] * M[6] = M[9]
  /\ M[0] * M[5] - M[1] * M[4] = M[10]
  /\ M[0] * M[0] + M[1] * M[1] + M[2] * M[2] = 1
  /\ M[4] * M[4] + M[5] * M[5] + M[6] * M[6] = 1
  /\ M[8] * M[8] + M[9] * M[9] + M[10] * M[10] = 1
  /\ M[0] * M[4] + M[1] * M[5] + M[2] * M[6] = 0
  /\ M[0] * M[8] + M[1] * M[9] + M[2] * M[10] = 0
  /\ M[4] * M[8] + M[5] * M[9] + M[6] * M[10] = 0
  /\ M[0] * M[0] + M[4] * M[4] + M[8] * M[8] = 1
  /\ M[1] * M[1] + M[5] * M[5] + M[9] * M[9] = 1
  /\ M[2] * M[2] + M[6] * M[6] + M[10] * M[10] = 1
  /\ M[0] * M[1] + M[4] * M[5] + M[8] * M[9] = 0
  /\ M[0] * M[2] + M[4] * M[6] + M[8] * M[10] = 0
  /\ M[1] * M[2] + M[5] * M[6] + M[9] * M[10] = 0
  /\ M[3] = 0 /\ M[7] = 0 /\ M[11] = 0 /\ M[15] = 1

(* The matrix of an attitude is a rotation.                                *)
LEMMA TurnsRotates ==
  ASSUME NEW n \in Counts, NEW M \in Matrices, Turns(n, M)
  PROVE  Rotates(M)
<1> DEFINE x == n.x
           y == n.y
           z == n.z
           w == n.w
           h0 == w * w + x * x - y * y - z * z
           h5 == w * w - x * x + y * y - z * z
           h10 == w * w - x * x - y * y + z * z
           h1 == 2 * (x * y + w * z)
           h4 == 2 * (x * y - w * z)
           h6 == 2 * (y * z + w * x)
           h9 == 2 * (y * z - w * x)
           h8 == 2 * (x * z + w * y)
           h2 == 2 * (x * z - w * y)
           N == x * x + y * y + z * z + w * w
<1>1. x \in Int /\ y \in Int /\ z \in Int /\ w \in Int /\ N = 4
  BY CountTypes
<1>2. \A i \in 0..15 : M[i] \in Int
  BY DEF Matrices
<1> HIDE DEF x, y, z, w
<1> DEFINE u0 == M[0]
           u1 == M[1]
           u2 == M[2]
           u4 == M[4]
           u5 == M[5]
           u6 == M[6]
           u8 == M[8]
           u9 == M[9]
           u10 == M[10]
<1>3. /\ u0 \in Int /\ u1 \in Int /\ u2 \in Int /\ u4 \in Int /\ u5 \in Int
      /\ u6 \in Int /\ u8 \in Int /\ u9 \in Int /\ u10 \in Int
  BY <1>2
<1> HIDE DEF u0, u1, u2, u4, u5, u6, u8, u9, u10
<1>4. /\ 4 * u0 = h0 /\ 4 * u1 = h1 /\ 4 * u2 = h2 /\ 4 * u4 = h4 /\ 4 * u5 = h5
      /\ 4 * u6 = h6 /\ 4 * u8 = h8 /\ 4 * u9 = h9 /\ 4 * u10 = h10
  BY <1>1, <1>3 DEF Turns, x, y, z, w, u0, u1, u2, u4, u5, u6, u8, u9, u10
<1>5. /\ h5 * h10 - h6 * h9 = N * h0 /\ h6 * h8 - h4 * h10 = N * h1 /\ h4 * h9 - h5 * h8 = N * h2
      /\ h2 * h9 - h1 * h10 = N * h4 /\ h0 * h10 - h2 * h8 = N * h5 /\ h1 * h8 - h0 * h9 = N * h6
      /\ h1 * h6 - h2 * h5 = N * h8 /\ h2 * h4 - h0 * h6 = N * h9 /\ h0 * h5 - h1 * h4 = N * h10
  BY <1>1
<1>6. /\ h0 * h0 + h1 * h1 + h2 * h2 = N * N /\ h4 * h4 + h5 * h5 + h6 * h6 = N * N
      /\ h8 * h8 + h9 * h9 + h10 * h10 = N * N
      /\ h0 * h4 + h1 * h5 + h2 * h6 = 0 /\ h0 * h8 + h1 * h9 + h2 * h10 = 0
      /\ h4 * h8 + h5 * h9 + h6 * h10 = 0
      /\ h0 * h0 + h4 * h4 + h8 * h8 = N * N /\ h1 * h1 + h5 * h5 + h9 * h9 = N * N
      /\ h2 * h2 + h6 * h6 + h10 * h10 = N * N
      /\ h0 * h1 + h4 * h5 + h8 * h9 = 0 /\ h0 * h2 + h4 * h6 + h8 * h10 = 0
      /\ h1 * h2 + h5 * h6 + h9 * h10 = 0
  BY <1>1
<1>7. /\ h0 \in Int /\ h1 \in Int /\ h2 \in Int /\ h4 \in Int /\ h5 \in Int
      /\ h6 \in Int /\ h8 \in Int /\ h9 \in Int /\ h10 \in Int
  BY <1>1
<1> HIDE DEF h0, h1, h2, h4, h5, h6, h8, h9, h10, N
<1>8. /\ (4 * u5) * (4 * u10) - (4 * u6) * (4 * u9) = 4 * (4 * u0)
      /\ (4 * u6) * (4 * u8) - (4 * u4) * (4 * u10) = 4 * (4 * u1)
      /\ (4 * u4) * (4 * u9) - (4 * u5) * (4 * u8) = 4 * (4 * u2)
      /\ (4 * u2) * (4 * u9) - (4 * u1) * (4 * u10) = 4 * (4 * u4)
      /\ (4 * u0) * (4 * u10) - (4 * u2) * (4 * u8) = 4 * (4 * u5)
      /\ (4 * u1) * (4 * u8) - (4 * u0) * (4 * u9) = 4 * (4 * u6)
      /\ (4 * u1) * (4 * u6) - (4 * u2) * (4 * u5) = 4 * (4 * u8)
      /\ (4 * u2) * (4 * u4) - (4 * u0) * (4 * u6) = 4 * (4 * u9)
      /\ (4 * u0) * (4 * u5) - (4 * u1) * (4 * u4) = 4 * (4 * u10)
  BY <1>1, <1>4, <1>5
<1>9. /\ (4 * u0) * (4 * u0) + (4 * u1) * (4 * u1) + (4 * u2) * (4 * u2) = 16
      /\ (4 * u4) * (4 * u4) + (4 * u5) * (4 * u5) + (4 * u6) * (4 * u6) = 16
      /\ (4 * u8) * (4 * u8) + (4 * u9) * (4 * u9) + (4 * u10) * (4 * u10) = 16
      /\ (4 * u0) * (4 * u4) + (4 * u1) * (4 * u5) + (4 * u2) * (4 * u6) = 0
      /\ (4 * u0) * (4 * u8) + (4 * u1) * (4 * u9) + (4 * u2) * (4 * u10) = 0
      /\ (4 * u4) * (4 * u8) + (4 * u5) * (4 * u9) + (4 * u6) * (4 * u10) = 0
      /\ (4 * u0) * (4 * u0) + (4 * u4) * (4 * u4) + (4 * u8) * (4 * u8) = 16
      /\ (4 * u1) * (4 * u1) + (4 * u5) * (4 * u5) + (4 * u9) * (4 * u9) = 16
      /\ (4 * u2) * (4 * u2) + (4 * u6) * (4 * u6) + (4 * u10) * (4 * u10) = 16
      /\ (4 * u0) * (4 * u1) + (4 * u4) * (4 * u5) + (4 * u8) * (4 * u9) = 0
      /\ (4 * u0) * (4 * u2) + (4 * u4) * (4 * u6) + (4 * u8) * (4 * u10) = 0
      /\ (4 * u1) * (4 * u2) + (4 * u5) * (4 * u6) + (4 * u9) * (4 * u10) = 0
  BY <1>1, <1>4, <1>6
<1>10. /\ u5 * u10 - u6 * u9 = u0
      /\ u6 * u8 - u4 * u10 = u1
      /\ u4 * u9 - u5 * u8 = u2
      /\ u2 * u9 - u1 * u10 = u4
      /\ u0 * u10 - u2 * u8 = u5
      /\ u1 * u8 - u0 * u9 = u6
      /\ u1 * u6 - u2 * u5 = u8
      /\ u2 * u4 - u0 * u6 = u9
      /\ u0 * u5 - u1 * u4 = u10
  BY <1>3, <1>8
<1>11. /\ u0 * u0 + u1 * u1 + u2 * u2 = 1
      /\ u4 * u4 + u5 * u5 + u6 * u6 = 1
      /\ u8 * u8 + u9 * u9 + u10 * u10 = 1
      /\ u0 * u4 + u1 * u5 + u2 * u6 = 0
      /\ u0 * u8 + u1 * u9 + u2 * u10 = 0
      /\ u4 * u8 + u5 * u9 + u6 * u10 = 0
      /\ u0 * u0 + u4 * u4 + u8 * u8 = 1
      /\ u1 * u1 + u5 * u5 + u9 * u9 = 1
      /\ u2 * u2 + u6 * u6 + u10 * u10 = 1
      /\ u0 * u1 + u4 * u5 + u8 * u9 = 0
      /\ u0 * u2 + u4 * u6 + u8 * u10 = 0
      /\ u1 * u2 + u5 * u6 + u9 * u10 = 0
  BY <1>3, <1>9
<1> QED
  BY <1>10, <1>11 DEF Rotates, Turns, u0, u1, u2, u4, u5, u6, u8, u9, u10

(* MatrixMultiply on whole numbers.                                        *)
Composed(A, B) ==
  [i \in 0..15 |-> LET r == 4 * (i \div 4)
                       c == i % 4
                   IN  A[r] * B[c] + A[r + 1] * B[c + 4] + A[r + 2] * B[c + 8]
                         + A[r + 3] * B[c + 12]]

(* MatrixMultiply multiplies the whole numbers.                            *)
LEMMA MultiplyWholes ==
  ASSUME NEW A \in Matrices, NEW B \in Matrices
  PROVE  /\ Composed(A, B) \in Matrices
         /\ MatrixMultiply(InWholes(A), InWholes(B)) = InWholes(Composed(A, B))
<1>1. \A i \in 0..15 : /\ A[i] \in Int /\ B[i] \in Int
                       /\ 4 * (i \div 4) \in 0..12 /\ i % 4 \in 0..3
  BY DEF Matrices
<1>2. Composed(A, B) \in Matrices
  BY <1>1 DEF Composed, Matrices
<1> DEFINE r(i) == 4 * (i \div 4)
           c(i) == i % 4
<1>3. \A i \in 0..15 :
        MatrixMultiply(InWholes(A), InWholes(B))[i]
          = Wholes(A[r(i)]) \otimes Wholes(B[c(i)]) + Wholes(A[r(i) + 1]) \otimes Wholes(B[c(i) + 4])
              + Wholes(A[r(i) + 2]) \otimes Wholes(B[c(i) + 8])
              + Wholes(A[r(i) + 3]) \otimes Wholes(B[c(i) + 12])
  <2> SUFFICES ASSUME NEW i \in 0..15
               PROVE  MatrixMultiply(InWholes(A), InWholes(B))[i]
          = Wholes(A[r(i)]) \otimes Wholes(B[c(i)]) + Wholes(A[r(i) + 1]) \otimes Wholes(B[c(i) + 4])
              + Wholes(A[r(i) + 2]) \otimes Wholes(B[c(i) + 8])
              + Wholes(A[r(i) + 3]) \otimes Wholes(B[c(i) + 12])
    OBVIOUS
  <2>1. /\ r(i) \in 0..15 /\ r(i) + 1 \in 0..15 /\ r(i) + 2 \in 0..15 /\ r(i) + 3 \in 0..15
        /\ c(i) \in 0..15 /\ c(i) + 4 \in 0..15 /\ c(i) + 8 \in 0..15 /\ c(i) + 12 \in 0..15
    BY <1>1
  <2>2. MatrixMultiply(InWholes(A), InWholes(B))[i]
          = InWholes(A)[r(i)] \otimes InWholes(B)[c(i)] + InWholes(A)[r(i) + 1] \otimes InWholes(B)[c(i) + 4]
              + InWholes(A)[r(i) + 2] \otimes InWholes(B)[c(i) + 8]
              + InWholes(A)[r(i) + 3] \otimes InWholes(B)[c(i) + 12]
    BY DEF MatrixMultiply
  <2> HIDE DEF r, c
  <2> QED
    BY <2>1, <2>2 DEF InWholes
<1>4. \A i \in 0..15 :
        /\ A[r(i)] \in Int /\ A[r(i) + 1] \in Int /\ A[r(i) + 2] \in Int /\ A[r(i) + 3] \in Int
        /\ B[c(i)] \in Int /\ B[c(i) + 4] \in Int /\ B[c(i) + 8] \in Int /\ B[c(i) + 12] \in Int
        /\ Composed(A, B)[i] = A[r(i)] * B[c(i)] + A[r(i) + 1] * B[c(i) + 4]
                                + A[r(i) + 2] * B[c(i) + 8] + A[r(i) + 3] * B[c(i) + 12]
  <2> SUFFICES ASSUME NEW i \in 0..15
               PROVE  /\ A[r(i)] \in Int /\ A[r(i) + 1] \in Int
                      /\ A[r(i) + 2] \in Int /\ A[r(i) + 3] \in Int
                      /\ B[c(i)] \in Int /\ B[c(i) + 4] \in Int
                      /\ B[c(i) + 8] \in Int /\ B[c(i) + 12] \in Int
                      /\ Composed(A, B)[i] = A[r(i)] * B[c(i)] + A[r(i) + 1] * B[c(i) + 4]
                                              + A[r(i) + 2] * B[c(i) + 8] + A[r(i) + 3] * B[c(i) + 12]
    OBVIOUS
  <2>1. /\ r(i) \in 0..15 /\ r(i) + 1 \in 0..15 /\ r(i) + 2 \in 0..15 /\ r(i) + 3 \in 0..15
        /\ c(i) \in 0..15 /\ c(i) + 4 \in 0..15 /\ c(i) + 8 \in 0..15 /\ c(i) + 12 \in 0..15
    BY <1>1
  <2>2. Composed(A, B)[i] = A[r(i)] * B[c(i)] + A[r(i) + 1] * B[c(i) + 4]
                                + A[r(i) + 2] * B[c(i) + 8] + A[r(i) + 3] * B[c(i) + 12]
    BY DEF Composed
  <2> HIDE DEF r, c
  <2> QED
    BY <1>1, <2>1, <2>2
<1> HIDE DEF r, c
<1>5. \A i \in 0..15 : MatrixMultiply(InWholes(A), InWholes(B))[i] = Wholes(Composed(A, B)[i])
  <2> SUFFICES ASSUME NEW i \in 0..15
               PROVE  MatrixMultiply(InWholes(A), InWholes(B))[i] = Wholes(Composed(A, B)[i])
    OBVIOUS
  <2>1. /\ A[r(i)] \in Int /\ A[r(i) + 1] \in Int /\ A[r(i) + 2] \in Int /\ A[r(i) + 3] \in Int
        /\ B[c(i)] \in Int /\ B[c(i) + 4] \in Int /\ B[c(i) + 8] \in Int /\ B[c(i) + 12] \in Int
    BY <1>4
  <2>2. Composed(A, B)[i] = A[r(i)] * B[c(i)] + A[r(i) + 1] * B[c(i) + 4]
                              + A[r(i) + 2] * B[c(i) + 8] + A[r(i) + 3] * B[c(i) + 12]
    BY <1>4
  <2> DEFINE x == A[r(i)]
             y == A[r(i) + 1]
             z == A[r(i) + 2]
             w == A[r(i) + 3]
             e == B[c(i)]
             f == B[c(i) + 4]
             g == B[c(i) + 8]
             h == B[c(i) + 12]
  <2>3. MatrixMultiply(InWholes(A), InWholes(B))[i]
          = Wholes(x) \otimes Wholes(e) + Wholes(y) \otimes Wholes(f)
              + Wholes(z) \otimes Wholes(g) + Wholes(w) \otimes Wholes(h)
    BY <1>3
  <2>4. Composed(A, B)[i] = x * e + y * f + z * g + w * h
    BY <2>2
  <2>5. /\ x \in Int /\ y \in Int /\ z \in Int /\ w \in Int
        /\ e \in Int /\ f \in Int /\ g \in Int /\ h \in Int
    BY <2>1
  <2> HIDE DEF x, y, z, w, e, f, g, h
  <2>6. /\ Wholes(x) \otimes Wholes(e) = x * Wholes(e) /\ Wholes(y) \otimes Wholes(f) = y * Wholes(f)
        /\ Wholes(z) \otimes Wholes(g) = z * Wholes(g) /\ Wholes(w) \otimes Wholes(h) = w * Wholes(h)
    BY <2>5, WholeTimes
  <2>7. x * Wholes(e) + y * Wholes(f) + z * Wholes(g) + w * Wholes(h)
          = Wholes(x * e + y * f + z * g + w * h)
    BY <2>5, Parts DEF Wholes
  <2> QED
    BY <2>3, <2>4, <2>6, <2>7
<1> QED
  BY <1>2, <1>5 DEF MatrixMultiply, InWholes

(* Twice the counts of a product of quaternions.                           *)
TwiceTimes(n, k) ==
  [x |-> n.x * k.w + n.w * k.x + n.y * k.z - n.z * k.y,
   y |-> n.y * k.w + n.w * k.y + n.z * k.x - n.x * k.z,
   z |-> n.z * k.w + n.w * k.z + n.x * k.y - n.y * k.x,
   w |-> n.w * k.w - n.x * k.x - n.y * k.y - n.z * k.z]

(* The product of two Hurwitz units is one.                                *)
LEMMA TimesCounts ==
  ASSUME NEW n \in Counts, NEW k \in Counts
  PROVE  \E p \in Counts : /\ 2 * p.x = TwiceTimes(n, k).x /\ 2 * p.y = TwiceTimes(n, k).y
                           /\ 2 * p.z = TwiceTimes(n, k).z /\ 2 * p.w = TwiceTimes(n, k).w
                           /\ QuaternionMultiply(Attitude(n), Attitude(k)) = Attitude(p)
<1> DEFINE x == n.x
           y == n.y
           z == n.z
           w == n.w
           e == k.x
           f == k.y
           g == k.z
           h == k.w
           X == x * h + w * e + y * g - z * f
           Y == y * h + w * f + z * e - x * g
           Z == z * h + w * g + x * f - y * e
           W == w * h - x * e - y * f - z * g
<1>1. x * x + y * y + z * z + w * w = 4 /\ e * e + f * f + g * g + h * h = 4
  BY CountTypes
<1>2. /\ x \in Int /\ y \in Int /\ z \in Int /\ w \in Int
      /\ e \in Int /\ f \in Int /\ g \in Int /\ h \in Int
  BY CountTypes
<1>3. PICK a, b, c \in Int : x = w + 2 * a /\ y = w + 2 * b /\ z = w + 2 * c
  BY SameParity
<1>4. PICK i, j, l \in Int : e = h + 2 * i /\ f = h + 2 * j /\ g = h + 2 * l
  BY SameParity
<1>5. TwiceTimes(n, k) = [x |-> X, y |-> Y, z |-> Z, w |-> W]
  BY DEF TwiceTimes
<1> HIDE DEF x, y, z, w, e, f, g, h
<1>6. X * X + Y * Y + Z * Z + W * W = (x * x + y * y + z * z + w * w) * (e * e + f * f + g * g + h * h)
  BY <1>2
<1>7. PICK o \in Int : X = 2 * o
  <2> DEFINE j0 == w * h + a * h + w * i + w * l + b * h + 2 * b * l - w * j - c * h - 2 * c * j
  <2>1. j0 \in Int /\ X = 2 * j0
    BY <1>2, <1>3, <1>4
  <2> QED BY <2>1
<1>8. PICK p \in Int : Y = 2 * p
  <2> DEFINE j0 == w * h + b * h + w * j + w * i + c * h + 2 * c * i - w * l - a * h - 2 * a * l
  <2>1. j0 \in Int /\ Y = 2 * j0
    BY <1>2, <1>3, <1>4
  <2> QED BY <2>1
<1>9. PICK r \in Int : Z = 2 * r
  <2> DEFINE j0 == w * h + c * h + w * l + w * j + a * h + 2 * a * j - w * i - b * h - 2 * b * i
  <2>1. j0 \in Int /\ Z = 2 * j0
    BY <1>2, <1>3, <1>4
  <2> QED BY <2>1
<1>10. PICK s \in Int : W = 2 * s
  <2> DEFINE j0 == -(w * h) - w * i - a * h - 2 * a * i - w * j - b * h - 2 * b * j - w * l - c * h - 2 * c * l
  <2>1. j0 \in Int /\ W = 2 * j0
    BY <1>2, <1>3, <1>4
  <2> QED BY <2>1
<1> HIDE DEF X, Y, Z, W
<1>11. Quaternion(o, p, r, s) \in Counts
  <2>1. (2 * o) * (2 * o) + (2 * p) * (2 * p) + (2 * r) * (2 * r) + (2 * s) * (2 * s) = 16
    BY <1>1, <1>6, <1>7, <1>8, <1>9, <1>10
  <2>2. o * o + p * p + r * r + s * s = 4
    BY <2>1
  <2> QED
    BY <2>2, CountMade
<1>12. QuaternionMultiply(Attitude(n), Attitude(k)) = Quaternion(Halves(o), Halves(p), Halves(r), Halves(s))
  <2>1. QuaternionMultiply(Attitude(n), Attitude(k)) =
          Quaternion(
            Quarters(x * h) + Quarters(w * e) + Quarters(y * g) - Quarters(z * f),
            Quarters(y * h) + Quarters(w * f) + Quarters(z * e) - Quarters(x * g),
            Quarters(z * h) + Quarters(w * g) + Quarters(x * f) - Quarters(y * e),
            Quarters(w * h) - Quarters(x * e) - Quarters(y * f) - Quarters(z * g))
    BY <1>2, HalfTimes DEF QuaternionMultiply, Attitude, Quaternion, x, y, z, w, e, f,
         g, h
  <2>2. /\ X = x * h + w * e + y * g - z * f /\ Y = y * h + w * f + z * e - x * g
        /\ Z = z * h + w * g + x * f - y * e /\ W = w * h - x * e - y * f - z * g
    BY DEF X, Y, Z, W
  <2>3. /\ Quarters(x * h) + Quarters(w * e) + Quarters(y * g) - Quarters(z * f) = Quarters(X)
        /\ Quarters(y * h) + Quarters(w * f) + Quarters(z * e) - Quarters(x * g) = Quarters(Y)
        /\ Quarters(z * h) + Quarters(w * g) + Quarters(x * f) - Quarters(y * e) = Quarters(Z)
        /\ Quarters(w * h) - Quarters(x * e) - Quarters(y * f) - Quarters(z * g) = Quarters(W)
    BY <1>2, <2>2, Parts DEF Quarters
  <2>4. \A v \in Int : Quarters(2 * v) = Halves(v)
    BY Parts DEF Quarters, Halves
  <2> QED
    BY <1>7, <1>8, <1>9, <1>10, <2>1, <2>3, <2>4
<1> QED
  <2> DEFINE t == Quaternion(o, p, r, s)
  <2>1. t.x = o /\ t.y = p /\ t.z = r /\ t.w = s
    BY DEF Quaternion
  <2>2. Attitude(t) = Quaternion(Halves(o), Halves(p), Halves(r), Halves(s))
    BY <2>1 DEF Attitude
  <2> HIDE DEF t
  <2> QED
    BY <1>5, <1>7, <1>8, <1>9, <1>10, <1>11, <1>12, <2>1, <2>2 DEF t, X, Y, Z, W
-----------------------------------------------------------------------------
(* The matrix of a product of quaternions is the product of their          *)
(* matrices.                                                               *)

(* The entries of a product.                                               *)
LEMMA ComposedEntries ==
  ASSUME NEW A \in Matrices, NEW B \in Matrices
  PROVE  /\ Composed(A, B)[0] = A[0] * B[0] + A[1] * B[4] + A[2] * B[8] + A[3] * B[12]
         /\ Composed(A, B)[1] = A[0] * B[1] + A[1] * B[5] + A[2] * B[9] + A[3] * B[13]
         /\ Composed(A, B)[2] = A[0] * B[2] + A[1] * B[6] + A[2] * B[10] + A[3] * B[14]
         /\ Composed(A, B)[3] = A[0] * B[3] + A[1] * B[7] + A[2] * B[11] + A[3] * B[15]
         /\ Composed(A, B)[4] = A[4] * B[0] + A[5] * B[4] + A[6] * B[8] + A[7] * B[12]
         /\ Composed(A, B)[5] = A[4] * B[1] + A[5] * B[5] + A[6] * B[9] + A[7] * B[13]
         /\ Composed(A, B)[6] = A[4] * B[2] + A[5] * B[6] + A[6] * B[10] + A[7] * B[14]
         /\ Composed(A, B)[7] = A[4] * B[3] + A[5] * B[7] + A[6] * B[11] + A[7] * B[15]
         /\ Composed(A, B)[8] = A[8] * B[0] + A[9] * B[4] + A[10] * B[8] + A[11] * B[12]
         /\ Composed(A, B)[9] = A[8] * B[1] + A[9] * B[5] + A[10] * B[9] + A[11] * B[13]
         /\ Composed(A, B)[10] = A[8] * B[2] + A[9] * B[6] + A[10] * B[10] + A[11] * B[14]
         /\ Composed(A, B)[11] = A[8] * B[3] + A[9] * B[7] + A[10] * B[11] + A[11] * B[15]
         /\ Composed(A, B)[12] = A[12] * B[0] + A[13] * B[4] + A[14] * B[8] + A[15] * B[12]
         /\ Composed(A, B)[13] = A[12] * B[1] + A[13] * B[5] + A[14] * B[9] + A[15] * B[13]
         /\ Composed(A, B)[14] = A[12] * B[2] + A[13] * B[6] + A[14] * B[10] + A[15] * B[14]
         /\ Composed(A, B)[15] = A[12] * B[3] + A[13] * B[7] + A[14] * B[11] + A[15] * B[15]
BY DEF Composed

(* The entries are integers.                                               *)
LEMMA MatrixTypes ==
  ASSUME NEW A \in Matrices
  PROVE  /\ A[0] \in Int /\ A[1] \in Int /\ A[2] \in Int /\ A[3] \in Int
         /\ A[4] \in Int /\ A[5] \in Int /\ A[6] \in Int /\ A[7] \in Int
         /\ A[8] \in Int /\ A[9] \in Int /\ A[10] \in Int /\ A[11] \in Int
         /\ A[12] \in Int /\ A[13] \in Int /\ A[14] \in Int /\ A[15] \in Int
BY DEF Matrices

(* The matrix of a product is the product of the matrices.                 *)
LEMMA TurnsComposed ==
  ASSUME NEW n \in Counts, NEW k \in Counts, NEW p \in Counts,
         NEW M \in Matrices, NEW K \in Matrices, Turns(n, M), Turns(k, K),
         2 * p.x = TwiceTimes(k, n).x, 2 * p.y = TwiceTimes(k, n).y,
         2 * p.z = TwiceTimes(k, n).z, 2 * p.w = TwiceTimes(k, n).w
  PROVE  Turns(p, Composed(M, K))
<1> DEFINE x == n.x
           y == n.y
           z == n.z
           w == n.w
           e == k.x
           f == k.y
           g == k.z
           h == k.w
           a == p.x
           b == p.y
           c == p.z
           d == p.w
           L == Composed(M, K)
           u0 == M[0]
           u1 == M[1]
           u2 == M[2]
           u4 == M[4]
           u5 == M[5]
           u6 == M[6]
           u8 == M[8]
           u9 == M[9]
           u10 == M[10]
           v0 == K[0]
           v1 == K[1]
           v2 == K[2]
           v4 == K[4]
           v5 == K[5]
           v6 == K[6]
           v8 == K[8]
           v9 == K[9]
           v10 == K[10]
<1>1. /\ x \in Int /\ y \in Int /\ z \in Int /\ w \in Int
      /\ e \in Int /\ f \in Int /\ g \in Int /\ h \in Int
      /\ a \in Int /\ b \in Int /\ c \in Int /\ d \in Int
      /\ u0 \in Int /\ u1 \in Int /\ u2 \in Int /\ u4 \in Int /\ u5 \in Int
      /\ u6 \in Int /\ u8 \in Int /\ u9 \in Int /\ u10 \in Int
      /\ v0 \in Int /\ v1 \in Int /\ v2 \in Int /\ v4 \in Int /\ v5 \in Int
      /\ v6 \in Int /\ v8 \in Int /\ v9 \in Int /\ v10 \in Int
  BY CountTypes, MatrixTypes
<1>2. /\ 2 * a = e * w + h * x + f * z - g * y /\ 2 * b = f * w + h * y + g * x - e * z
      /\ 2 * c = g * w + h * z + e * y - f * x /\ 2 * d = h * w - e * x - f * y - g * z
  BY DEF TwiceTimes
<1>3. M[3] = 0 /\ M[7] = 0 /\ M[11] = 0 /\ M[15] = 1 /\ K[3] = 0 /\ K[7] = 0 /\ K[11] = 0 /\ K[15] = 1
  BY DEF Turns
<1>4. M[12] \in Int /\ M[13] \in Int /\ M[14] \in Int /\ K[12] \in Int /\ K[13] \in Int /\ K[14] \in Int
  BY MatrixTypes
<1>5. /\ L[0] = u0 * v0 + u1 * v4 + u2 * v8 + M[3] * K[12]
      /\ L[1] = u0 * v1 + u1 * v5 + u2 * v9 + M[3] * K[13]
      /\ L[2] = u0 * v2 + u1 * v6 + u2 * v10 + M[3] * K[14]
      /\ L[4] = u4 * v0 + u5 * v4 + u6 * v8 + M[7] * K[12]
      /\ L[5] = u4 * v1 + u5 * v5 + u6 * v9 + M[7] * K[13]
      /\ L[6] = u4 * v2 + u5 * v6 + u6 * v10 + M[7] * K[14]
      /\ L[8] = u8 * v0 + u9 * v4 + u10 * v8 + M[11] * K[12]
      /\ L[9] = u8 * v1 + u9 * v5 + u10 * v9 + M[11] * K[13]
      /\ L[10] = u8 * v2 + u9 * v6 + u10 * v10 + M[11] * K[14]
      /\ L[3] = u0 * K[3] + u1 * K[7] + u2 * K[11] + M[3] * K[15]
      /\ L[7] = u4 * K[3] + u5 * K[7] + u6 * K[11] + M[7] * K[15]
      /\ L[11] = u8 * K[3] + u9 * K[7] + u10 * K[11] + M[11] * K[15]
      /\ L[15] = M[12] * K[3] + M[13] * K[7] + M[14] * K[11] + M[15] * K[15]
  BY ComposedEntries
<1>6. /\ 4 * u0 = w * w + x * x - y * y - z * z /\ 4 * v0 = h * h + e * e - f * f - g * g
      /\ 4 * u1 = 2 * (x * y + w * z) /\ 4 * v1 = 2 * (e * f + h * g)
      /\ 4 * u2 = 2 * (x * z - w * y) /\ 4 * v2 = 2 * (e * g - h * f)
      /\ 4 * u4 = 2 * (x * y - w * z) /\ 4 * v4 = 2 * (e * f - h * g)
      /\ 4 * u5 = w * w - x * x + y * y - z * z /\ 4 * v5 = h * h - e * e + f * f - g * g
      /\ 4 * u6 = 2 * (y * z + w * x) /\ 4 * v6 = 2 * (f * g + h * e)
      /\ 4 * u8 = 2 * (x * z + w * y) /\ 4 * v8 = 2 * (e * g + h * f)
      /\ 4 * u9 = 2 * (y * z - w * x) /\ 4 * v9 = 2 * (f * g - h * e)
      /\ 4 * u10 = w * w - x * x - y * y + z * z /\ 4 * v10 = h * h - e * e - f * f + g * g
  BY DEF Turns
<1> HIDE DEF x, y, z, w, e, f, g, h, a, b, c, d, L, u0, u1, u2, u4, u5, u6, u8, u9,
             u10, v0, v1, v2, v4, v5, v6, v8, v9, v10
<1>7. /\ L[0] = u0 * v0 + u1 * v4 + u2 * v8
      /\ L[1] = u0 * v1 + u1 * v5 + u2 * v9
      /\ L[2] = u0 * v2 + u1 * v6 + u2 * v10
      /\ L[4] = u4 * v0 + u5 * v4 + u6 * v8
      /\ L[5] = u4 * v1 + u5 * v5 + u6 * v9
      /\ L[6] = u4 * v2 + u5 * v6 + u6 * v10
      /\ L[8] = u8 * v0 + u9 * v4 + u10 * v8
      /\ L[9] = u8 * v1 + u9 * v5 + u10 * v9
      /\ L[10] = u8 * v2 + u9 * v6 + u10 * v10
  BY <1>1, <1>3, <1>4, <1>5
<1>8. L[3] = 0 /\ L[7] = 0 /\ L[11] = 0 /\ L[15] = 1
  BY <1>1, <1>3, <1>4, <1>5
<1> DEFINE X == e * w + h * x + f * z - g * y
           Y == f * w + h * y + g * x - e * z
           Z == g * w + h * z + e * y - f * x
           W == h * w - e * x - f * y - g * z
<1>9. /\ W * W + X * X - Y * Y - Z * Z
           = (w * w + x * x - y * y - z * z) * (h * h + e * e - f * f - g * g)
             + (2 * (x * y + w * z)) * (2 * (e * f - h * g))
             + (2 * (x * z - w * y)) * (2 * (e * g + h * f))
      /\ 2 * (X * Y + W * Z)
           = (w * w + x * x - y * y - z * z) * (2 * (e * f + h * g))
             + (2 * (x * y + w * z)) * (h * h - e * e + f * f - g * g)
             + (2 * (x * z - w * y)) * (2 * (f * g - h * e))
      /\ 2 * (X * Z - W * Y)
           = (w * w + x * x - y * y - z * z) * (2 * (e * g - h * f))
             + (2 * (x * y + w * z)) * (2 * (f * g + h * e))
             + (2 * (x * z - w * y)) * (h * h - e * e - f * f + g * g)
      /\ 2 * (X * Y - W * Z)
           = (2 * (x * y - w * z)) * (h * h + e * e - f * f - g * g)
             + (w * w - x * x + y * y - z * z) * (2 * (e * f - h * g))
             + (2 * (y * z + w * x)) * (2 * (e * g + h * f))
      /\ W * W - X * X + Y * Y - Z * Z
           = (2 * (x * y - w * z)) * (2 * (e * f + h * g))
             + (w * w - x * x + y * y - z * z) * (h * h - e * e + f * f - g * g)
             + (2 * (y * z + w * x)) * (2 * (f * g - h * e))
      /\ 2 * (Y * Z + W * X)
           = (2 * (x * y - w * z)) * (2 * (e * g - h * f))
             + (w * w - x * x + y * y - z * z) * (2 * (f * g + h * e))
             + (2 * (y * z + w * x)) * (h * h - e * e - f * f + g * g)
      /\ 2 * (X * Z + W * Y)
           = (2 * (x * z + w * y)) * (h * h + e * e - f * f - g * g)
             + (2 * (y * z - w * x)) * (2 * (e * f - h * g))
             + (w * w - x * x - y * y + z * z) * (2 * (e * g + h * f))
      /\ 2 * (Y * Z - W * X)
           = (2 * (x * z + w * y)) * (2 * (e * f + h * g))
             + (2 * (y * z - w * x)) * (h * h - e * e + f * f - g * g)
             + (w * w - x * x - y * y + z * z) * (2 * (f * g - h * e))
      /\ W * W - X * X - Y * Y + Z * Z
           = (2 * (x * z + w * y)) * (2 * (e * g - h * f))
             + (2 * (y * z - w * x)) * (2 * (f * g + h * e))
             + (w * w - x * x - y * y + z * z) * (h * h - e * e - f * f + g * g)
  BY <1>1
<1> HIDE DEF X, Y, Z, W
<1>10. /\ (2 * d) * (2 * d) + (2 * a) * (2 * a) - (2 * b) * (2 * b) - (2 * c) * (2 * c)
              = (4 * u0) * (4 * v0) + (4 * u1) * (4 * v4) + (4 * u2) * (4 * v8)
      /\ 2 * ((2 * a) * (2 * b) + (2 * d) * (2 * c))
             = (4 * u0) * (4 * v1) + (4 * u1) * (4 * v5) + (4 * u2) * (4 * v9)
      /\ 2 * ((2 * a) * (2 * c) - (2 * d) * (2 * b))
             = (4 * u0) * (4 * v2) + (4 * u1) * (4 * v6) + (4 * u2) * (4 * v10)
      /\ 2 * ((2 * a) * (2 * b) - (2 * d) * (2 * c))
             = (4 * u4) * (4 * v0) + (4 * u5) * (4 * v4) + (4 * u6) * (4 * v8)
      /\ (2 * d) * (2 * d) - (2 * a) * (2 * a) + (2 * b) * (2 * b) - (2 * c) * (2 * c)
             = (4 * u4) * (4 * v1) + (4 * u5) * (4 * v5) + (4 * u6) * (4 * v9)
      /\ 2 * ((2 * b) * (2 * c) + (2 * d) * (2 * a))
             = (4 * u4) * (4 * v2) + (4 * u5) * (4 * v6) + (4 * u6) * (4 * v10)
      /\ 2 * ((2 * a) * (2 * c) + (2 * d) * (2 * b))
             = (4 * u8) * (4 * v0) + (4 * u9) * (4 * v4) + (4 * u10) * (4 * v8)
      /\ 2 * ((2 * b) * (2 * c) - (2 * d) * (2 * a))
             = (4 * u8) * (4 * v1) + (4 * u9) * (4 * v5) + (4 * u10) * (4 * v9)
      /\ (2 * d) * (2 * d) - (2 * a) * (2 * a) - (2 * b) * (2 * b) + (2 * c) * (2 * c)
             = (4 * u8) * (4 * v2) + (4 * u9) * (4 * v6) + (4 * u10) * (4 * v10)
  BY <1>2, <1>6, <1>9 DEF X, Y, Z, W
<1>11. /\ 4 * (u0 * v0 + u1 * v4 + u2 * v8) = d * d + a * a - b * b - c * c
      /\ 4 * (u0 * v1 + u1 * v5 + u2 * v9) = 2 * (a * b + d * c)
      /\ 4 * (u0 * v2 + u1 * v6 + u2 * v10) = 2 * (a * c - d * b)
      /\ 4 * (u4 * v0 + u5 * v4 + u6 * v8) = 2 * (a * b - d * c)
      /\ 4 * (u4 * v1 + u5 * v5 + u6 * v9) = d * d - a * a + b * b - c * c
      /\ 4 * (u4 * v2 + u5 * v6 + u6 * v10) = 2 * (b * c + d * a)
      /\ 4 * (u8 * v0 + u9 * v4 + u10 * v8) = 2 * (a * c + d * b)
      /\ 4 * (u8 * v1 + u9 * v5 + u10 * v9) = 2 * (b * c - d * a)
      /\ 4 * (u8 * v2 + u9 * v6 + u10 * v10) = d * d - a * a - b * b + c * c
  BY <1>1, <1>10
<1>12. /\ 4 * L[0] = d * d + a * a - b * b - c * c
      /\ 4 * L[1] = 2 * (a * b + d * c)
      /\ 4 * L[2] = 2 * (a * c - d * b)
      /\ 4 * L[4] = 2 * (a * b - d * c)
      /\ 4 * L[5] = d * d - a * a + b * b - c * c
      /\ 4 * L[6] = 2 * (b * c + d * a)
      /\ 4 * L[8] = 2 * (a * c + d * b)
      /\ 4 * L[9] = 2 * (b * c - d * a)
      /\ 4 * L[10] = d * d - a * a - b * b + c * c
  BY <1>7, <1>11
<1> QED
  BY <1>8, <1>12 DEF Turns, L, a, b, c, d
-----------------------------------------------------------------------------
(* MatrixInvert on a matrix whose row 0 is any numbers and whose other     *)
(* rows are wholes.                                                        *)

(* Times a whole number, either way round.                                 *)
LEMMA ByWhole ==
  \A i, j \in Int : i \otimes Wholes(j) = i * j /\ Wholes(j) \otimes i = j * i
<1> SUFFICES ASSUME NEW i \in Int, NEW j \in Int
             PROVE  i \otimes Wholes(j) = i * j /\ Wholes(j) \otimes i = j * i
  OBVIOUS
<1>1. i \otimes Wholes(j) = j * i /\ Wholes(j) \otimes i = j * i
  BY WholeTimes
<1>2. j * i = i * j
  OBVIOUS
<1> QED
  BY <1>1, <1>2

(* The product of whole numbers is whole.                                  *)
LEMMA WholeByWhole ==
  \A i, j \in Int : Wholes(i) \otimes Wholes(j) = Wholes(i * j)
<1> SUFFICES ASSUME NEW i \in Int, NEW j \in Int
             PROVE  Wholes(i) \otimes Wholes(j) = Wholes(i * j)
  OBVIOUS
<1>1. Wholes(i) \otimes Wholes(j) = i * Wholes(j)
  BY WholeTimes
<1>2. i * Wholes(j) = Wholes(i * j)
  BY Parts DEF Wholes
<1> QED
  BY <1>1, <1>2

(* Sums of whole numbers are whole.                                        *)
LEMMA WholeSums ==
  \A i, j \in Int : /\ Wholes(i) + Wholes(j) = Wholes(i + j)
                    /\ Wholes(i) - Wholes(j) = Wholes(i - j)
                    /\ -Wholes(i) = Wholes(-i)
BY Parts DEF Wholes

(* The sixteen cofactors of MatrixInvert over its determinant, the sum of  *)
(* the products of twelve minors.                                          *)
Inverted(inverse, I) ==
  LET b0 == I[0] * I[5] - I[1] * I[4]
      b1 == I[0] * I[6] - I[2] * I[4]
      b2 == I[0] * I[7] - I[3] * I[4]
      b3 == I[1] * I[6] - I[2] * I[5]
      b4 == I[1] * I[7] - I[3] * I[5]
      b5 == I[2] * I[7] - I[3] * I[6]
      b6 == I[8] * I[13] - I[9] * I[12]
      b7 == I[8] * I[14] - I[10] * I[12]
      b8 == I[8] * I[15] - I[11] * I[12]
      b9 == I[9] * I[14] - I[10] * I[13]
      b10 == I[9] * I[15] - I[11] * I[13]
      b11 == I[10] * I[15] - I[11] * I[14]
      D == b0 * b11 - b1 * b10 + b2 * b9 + b3 * b8 - b4 * b7 + b5 * b6
  IN  /\ inverse = [i \in 0..15 |-> inverse[i]]
      /\ inverse[0] = Ratio(Wholes(I[5] * b11 - I[6] * b10 + I[7] * b9), D)
      /\ inverse[1] = -Ratio(I[1] * b11 - I[2] * b10 + I[3] * b9, D)
      /\ inverse[2] = Ratio(I[13] * b5 - I[14] * b4 + I[15] * b3, D)
      /\ inverse[3] = -Ratio(I[9] * b5 - I[10] * b4 + I[11] * b3, D)
      /\ inverse[4] = -Ratio(Wholes(I[4] * b11 - I[6] * b8 + I[7] * b7), D)
      /\ inverse[5] = Ratio(I[0] * b11 - I[2] * b8 + I[3] * b7, D)
      /\ inverse[6] = -Ratio(I[12] * b5 - I[14] * b2 + I[15] * b1, D)
      /\ inverse[7] = Ratio(I[8] * b5 - I[10] * b2 + I[11] * b1, D)
      /\ inverse[8] = Ratio(Wholes(I[4] * b10 - I[5] * b8 + I[7] * b6), D)
      /\ inverse[9] = -Ratio(I[0] * b10 - I[1] * b8 + I[3] * b6, D)
      /\ inverse[10] = Ratio(I[12] * b4 - I[13] * b2 + I[15] * b0, D)
      /\ inverse[11] = -Ratio(I[8] * b4 - I[9] * b2 + I[11] * b0, D)
      /\ inverse[12] = -Ratio(Wholes(I[4] * b9 - I[5] * b7 + I[6] * b6), D)
      /\ inverse[13] = Ratio(I[0] * b9 - I[1] * b7 + I[2] * b6, D)
      /\ inverse[14] = -Ratio(I[12] * b3 - I[13] * b1 + I[14] * b0, D)
      /\ inverse[15] = Ratio(I[8] * b3 - I[9] * b1 + I[10] * b0, D)

(* The entries of MatrixInvert: row 0 of the matrix is any numbers, the    *)
(* other rows are wholes.                                                  *)
LEMMA InvertEntries ==
  ASSUME NEW A, NEW I \in Matrices, A = [i \in 0..15 |-> IF i < 4 THEN I[i] ELSE Wholes(I[i])]
  PROVE  Inverted(MatrixInvert(A), I)
<1> DEFINE i0 == I[0]
           i1 == I[1]
           i2 == I[2]
           i3 == I[3]
           i4 == I[4]
           i5 == I[5]
           i6 == I[6]
           i7 == I[7]
           i8 == I[8]
           i9 == I[9]
           i10 == I[10]
           i11 == I[11]
           i12 == I[12]
           i13 == I[13]
           i14 == I[14]
           i15 == I[15]
           b0 == i0 * i5 - i1 * i4
           b1 == i0 * i6 - i2 * i4
           b2 == i0 * i7 - i3 * i4
           b3 == i1 * i6 - i2 * i5
           b4 == i1 * i7 - i3 * i5
           b5 == i2 * i7 - i3 * i6
           b6 == i8 * i13 - i9 * i12
           b7 == i8 * i14 - i10 * i12
           b8 == i8 * i15 - i11 * i12
           b9 == i9 * i14 - i10 * i13
           b10 == i9 * i15 - i11 * i13
           b11 == i10 * i15 - i11 * i14
           D == b0 * b11 - b1 * b10 + b2 * b9 + b3 * b8 - b4 * b7 + b5 * b6
<1>1. /\ i0 \in Int
      /\ i1 \in Int
      /\ i2 \in Int
      /\ i3 \in Int
      /\ i4 \in Int
      /\ i5 \in Int
      /\ i6 \in Int
      /\ i7 \in Int
      /\ i8 \in Int
      /\ i9 \in Int
      /\ i10 \in Int
      /\ i11 \in Int
      /\ i12 \in Int
      /\ i13 \in Int
      /\ i14 \in Int
      /\ i15 \in Int
  BY DEF Matrices
<1>2. /\ A[0] = i0
      /\ A[1] = i1
      /\ A[2] = i2
      /\ A[3] = i3
      /\ A[4] = Wholes(i4)
      /\ A[5] = Wholes(i5)
      /\ A[6] = Wholes(i6)
      /\ A[7] = Wholes(i7)
      /\ A[8] = Wholes(i8)
      /\ A[9] = Wholes(i9)
      /\ A[10] = Wholes(i10)
      /\ A[11] = Wholes(i11)
      /\ A[12] = Wholes(i12)
      /\ A[13] = Wholes(i13)
      /\ A[14] = Wholes(i14)
      /\ A[15] = Wholes(i15)
  OBVIOUS
<1> HIDE DEF i0, i1, i2, i3, i4, i5, i6, i7, i8, i9, i10, i11, i12, i13, i14, i15
<1>3. /\ b0 \in Int
      /\ b1 \in Int
      /\ b2 \in Int
      /\ b3 \in Int
      /\ b4 \in Int
      /\ b5 \in Int
      /\ b6 \in Int
      /\ b7 \in Int
      /\ b8 \in Int
      /\ b9 \in Int
      /\ b10 \in Int
      /\ b11 \in Int
  BY <1>1
<1>4. /\ Minor(A, 0, 0, 1) = b0
      /\ Minor(A, 0, 0, 2) = b1
      /\ Minor(A, 0, 0, 3) = b2
      /\ Minor(A, 0, 1, 2) = b3
      /\ Minor(A, 0, 1, 3) = b4
      /\ Minor(A, 0, 2, 3) = b5
  <2>1. /\ Minor(A, 0, 0, 1) = i0 \otimes Wholes(i5) - i1 \otimes Wholes(i4)
        /\ Minor(A, 0, 0, 2) = i0 \otimes Wholes(i6) - i2 \otimes Wholes(i4)
        /\ Minor(A, 0, 0, 3) = i0 \otimes Wholes(i7) - i3 \otimes Wholes(i4)
        /\ Minor(A, 0, 1, 2) = i1 \otimes Wholes(i6) - i2 \otimes Wholes(i5)
        /\ Minor(A, 0, 1, 3) = i1 \otimes Wholes(i7) - i3 \otimes Wholes(i5)
        /\ Minor(A, 0, 2, 3) = i2 \otimes Wholes(i7) - i3 \otimes Wholes(i6)
    BY <1>2 DEF Minor
  <2>2. /\ i0 \otimes Wholes(i5) = i0 * i5 /\ i1 \otimes Wholes(i4) = i1 * i4
        /\ i0 \otimes Wholes(i6) = i0 * i6 /\ i2 \otimes Wholes(i4) = i2 * i4
        /\ i0 \otimes Wholes(i7) = i0 * i7 /\ i3 \otimes Wholes(i4) = i3 * i4
        /\ i1 \otimes Wholes(i6) = i1 * i6 /\ i2 \otimes Wholes(i5) = i2 * i5
        /\ i1 \otimes Wholes(i7) = i1 * i7 /\ i3 \otimes Wholes(i5) = i3 * i5
        /\ i2 \otimes Wholes(i7) = i2 * i7 /\ i3 \otimes Wholes(i6) = i3 * i6
    BY ONLY <1>1, ByWhole, ZenonT(60)
  <2> QED
    BY ONLY <2>1, <2>2
<1>5. /\ Minor(A, 2, 0, 1) = Wholes(b6)
      /\ Minor(A, 2, 0, 2) = Wholes(b7)
      /\ Minor(A, 2, 0, 3) = Wholes(b8)
      /\ Minor(A, 2, 1, 2) = Wholes(b9)
      /\ Minor(A, 2, 1, 3) = Wholes(b10)
      /\ Minor(A, 2, 2, 3) = Wholes(b11)
  <2>1. /\ Minor(A, 2, 0, 1) = Wholes(i8) \otimes Wholes(i13) - Wholes(i9) \otimes Wholes(i12)
        /\ Minor(A, 2, 0, 2) = Wholes(i8) \otimes Wholes(i14) - Wholes(i10) \otimes Wholes(i12)
        /\ Minor(A, 2, 0, 3) = Wholes(i8) \otimes Wholes(i15) - Wholes(i11) \otimes Wholes(i12)
        /\ Minor(A, 2, 1, 2) = Wholes(i9) \otimes Wholes(i14) - Wholes(i10) \otimes Wholes(i13)
        /\ Minor(A, 2, 1, 3) = Wholes(i9) \otimes Wholes(i15) - Wholes(i11) \otimes Wholes(i13)
        /\ Minor(A, 2, 2, 3) = Wholes(i10) \otimes Wholes(i15) - Wholes(i11) \otimes Wholes(i14)
    BY <1>2 DEF Minor
  <2>2. /\ i8 * i13 \in Int /\ i9 * i12 \in Int
        /\ i8 * i14 \in Int /\ i10 * i12 \in Int
        /\ i8 * i15 \in Int /\ i11 * i12 \in Int
        /\ i9 * i14 \in Int /\ i10 * i13 \in Int
        /\ i9 * i15 \in Int /\ i11 * i13 \in Int
        /\ i10 * i15 \in Int /\ i11 * i14 \in Int
    BY <1>1
  <2>3. /\ Minor(A, 2, 0, 1) = Wholes(i8 * i13) - Wholes(i9 * i12)
        /\ Minor(A, 2, 0, 2) = Wholes(i8 * i14) - Wholes(i10 * i12)
        /\ Minor(A, 2, 0, 3) = Wholes(i8 * i15) - Wholes(i11 * i12)
        /\ Minor(A, 2, 1, 2) = Wholes(i9 * i14) - Wholes(i10 * i13)
        /\ Minor(A, 2, 1, 3) = Wholes(i9 * i15) - Wholes(i11 * i13)
        /\ Minor(A, 2, 2, 3) = Wholes(i10 * i15) - Wholes(i11 * i14)
    BY ONLY <1>1, <2>1, WholeByWhole
  <2> QED
    BY ONLY <2>2, <2>3, WholeSums, ZenonT(60)
<1> DEFINE b == [i \in 0..11 |->
                   LET row == IF i < 6 THEN 0 ELSE 2
                       js  == <<0, 0, 0, 1, 1, 2>>
                       ks  == <<1, 2, 3, 2, 3, 3>>
                   IN  Minor(A, row, js[(i % 6) + 1], ks[(i % 6) + 1])]
           det == b[0] \otimes b[11] - b[1] \otimes b[10] + b[2] \otimes b[9]
                    + b[3] \otimes b[8] - b[4] \otimes b[7] + b[5] \otimes b[6]
           S(i, p, j, s, k, r) == Ratio(A[i] \otimes b[p] - A[j] \otimes b[s] + A[k] \otimes b[r], det)
           N(i, p, j, s, k, r) == -S(i, p, j, s, k, r)
           e == << S(5, 11, 6, 10, 7, 9), N(1, 11, 2, 10, 3, 9), S(13, 5, 14, 4, 15, 3), N(9, 5, 10, 4, 11, 3),
                   N(4, 11, 6, 8, 7, 7), S(0, 11, 2, 8, 3, 7), N(12, 5, 14, 2, 15, 1), S(8, 5, 10, 2, 11, 1),
                   S(4, 10, 5, 8, 7, 6), N(0, 10, 1, 8, 3, 6), S(12, 4, 13, 2, 15, 0), N(8, 4, 9, 2, 11, 0),
                   N(4, 9, 5, 7, 6, 6), S(0, 9, 1, 7, 2, 6), N(12, 3, 13, 1, 14, 0), S(8, 3, 9, 1, 10, 0) >>
<1>6. MatrixInvert(A) = [i \in 0..15 |-> e[i + 1]]
  BY DEF MatrixInvert
<1>7. /\ b[0] = b0
      /\ b[1] = b1
      /\ b[2] = b2
      /\ b[3] = b3
      /\ b[4] = b4
      /\ b[5] = b5
      /\ b[6] = Wholes(b6)
      /\ b[7] = Wholes(b7)
      /\ b[8] = Wholes(b8)
      /\ b[9] = Wholes(b9)
      /\ b[10] = Wholes(b10)
      /\ b[11] = Wholes(b11)
  <2>1. /\ b[0] = Minor(A, 0, 0, 1)
        /\ b[1] = Minor(A, 0, 0, 2)
        /\ b[2] = Minor(A, 0, 0, 3)
        /\ b[3] = Minor(A, 0, 1, 2)
        /\ b[4] = Minor(A, 0, 1, 3)
        /\ b[5] = Minor(A, 0, 2, 3)
        /\ b[6] = Minor(A, 2, 0, 1)
        /\ b[7] = Minor(A, 2, 0, 2)
        /\ b[8] = Minor(A, 2, 0, 3)
        /\ b[9] = Minor(A, 2, 1, 2)
        /\ b[10] = Minor(A, 2, 1, 3)
        /\ b[11] = Minor(A, 2, 2, 3)
    OBVIOUS
  <2> QED
    BY <1>4, <1>5, <2>1
<1>8. /\ MatrixInvert(A)[0] = S(5, 11, 6, 10, 7, 9)
      /\ MatrixInvert(A)[1] = N(1, 11, 2, 10, 3, 9)
      /\ MatrixInvert(A)[2] = S(13, 5, 14, 4, 15, 3)
      /\ MatrixInvert(A)[3] = N(9, 5, 10, 4, 11, 3)
      /\ MatrixInvert(A)[4] = N(4, 11, 6, 8, 7, 7)
      /\ MatrixInvert(A)[5] = S(0, 11, 2, 8, 3, 7)
      /\ MatrixInvert(A)[6] = N(12, 5, 14, 2, 15, 1)
      /\ MatrixInvert(A)[7] = S(8, 5, 10, 2, 11, 1)
      /\ MatrixInvert(A)[8] = S(4, 10, 5, 8, 7, 6)
      /\ MatrixInvert(A)[9] = N(0, 10, 1, 8, 3, 6)
      /\ MatrixInvert(A)[10] = S(12, 4, 13, 2, 15, 0)
      /\ MatrixInvert(A)[11] = N(8, 4, 9, 2, 11, 0)
      /\ MatrixInvert(A)[12] = N(4, 9, 5, 7, 6, 6)
      /\ MatrixInvert(A)[13] = S(0, 9, 1, 7, 2, 6)
      /\ MatrixInvert(A)[14] = N(12, 3, 13, 1, 14, 0)
      /\ MatrixInvert(A)[15] = S(8, 3, 9, 1, 10, 0)
      /\ MatrixInvert(A) = [i \in 0..15 |-> MatrixInvert(A)[i]]
  <2> HIDE DEF S, N
  <2> QED
    BY <1>6
<1> HIDE DEF b, e, b0, b1, b2, b3, b4, b5, b6, b7, b8, b9, b10, b11
<1>9. det = D
  <2>1. /\ b0 \otimes Wholes(b11) = b0 * b11
        /\ b1 \otimes Wholes(b10) = b1 * b10
        /\ b2 \otimes Wholes(b9) = b2 * b9
        /\ b3 \otimes Wholes(b8) = b3 * b8
        /\ b4 \otimes Wholes(b7) = b4 * b7
        /\ b5 \otimes Wholes(b6) = b5 * b6
    BY ONLY <1>3, ByWhole, Zenon
  <2> QED
    BY <1>7, <2>1
<1> HIDE DEF det, D
<1>10. /\ A[1] \otimes b[11] - A[2] \otimes b[10] + A[3] \otimes b[9] = i1 * b11 - i2 * b10 + i3 * b9
       /\ A[13] \otimes b[5] - A[14] \otimes b[4] + A[15] \otimes b[3] = i13 * b5 - i14 * b4 + i15 * b3
       /\ A[9] \otimes b[5] - A[10] \otimes b[4] + A[11] \otimes b[3] = i9 * b5 - i10 * b4 + i11 * b3
       /\ A[0] \otimes b[11] - A[2] \otimes b[8] + A[3] \otimes b[7] = i0 * b11 - i2 * b8 + i3 * b7
       /\ A[12] \otimes b[5] - A[14] \otimes b[2] + A[15] \otimes b[1] = i12 * b5 - i14 * b2 + i15 * b1
       /\ A[8] \otimes b[5] - A[10] \otimes b[2] + A[11] \otimes b[1] = i8 * b5 - i10 * b2 + i11 * b1
       /\ A[0] \otimes b[10] - A[1] \otimes b[8] + A[3] \otimes b[6] = i0 * b10 - i1 * b8 + i3 * b6
       /\ A[12] \otimes b[4] - A[13] \otimes b[2] + A[15] \otimes b[0] = i12 * b4 - i13 * b2 + i15 * b0
       /\ A[8] \otimes b[4] - A[9] \otimes b[2] + A[11] \otimes b[0] = i8 * b4 - i9 * b2 + i11 * b0
       /\ A[0] \otimes b[9] - A[1] \otimes b[7] + A[2] \otimes b[6] = i0 * b9 - i1 * b7 + i2 * b6
       /\ A[12] \otimes b[3] - A[13] \otimes b[1] + A[14] \otimes b[0] = i12 * b3 - i13 * b1 + i14 * b0
       /\ A[8] \otimes b[3] - A[9] \otimes b[1] + A[10] \otimes b[0] = i8 * b3 - i9 * b1 + i10 * b0
  <2>1. /\ i0 \otimes Wholes(b9) = i0 * b9 /\ i0 \otimes Wholes(b10) = i0 * b10 /\ i0 \otimes Wholes(b11) = i0 * b11
        /\ i1 \otimes Wholes(b7) = i1 * b7 /\ i1 \otimes Wholes(b8) = i1 * b8 /\ i1 \otimes Wholes(b11) = i1 * b11
        /\ i2 \otimes Wholes(b6) = i2 * b6 /\ i2 \otimes Wholes(b8) = i2 * b8 /\ i2 \otimes Wholes(b10) = i2 * b10
        /\ i3 \otimes Wholes(b6) = i3 * b6 /\ i3 \otimes Wholes(b7) = i3 * b7 /\ i3 \otimes Wholes(b9) = i3 * b9
        /\ Wholes(i8) \otimes b3 = i8 * b3 /\ Wholes(i8) \otimes b4 = i8 * b4 /\ Wholes(i8) \otimes b5 = i8 * b5
        /\ Wholes(i9) \otimes b1 = i9 * b1 /\ Wholes(i9) \otimes b2 = i9 * b2 /\ Wholes(i9) \otimes b5 = i9 * b5
        /\ Wholes(i10) \otimes b0 = i10 * b0 /\ Wholes(i10) \otimes b2 = i10 * b2 /\ Wholes(i10) \otimes b4 = i10 * b4
        /\ Wholes(i11) \otimes b0 = i11 * b0 /\ Wholes(i11) \otimes b1 = i11 * b1 /\ Wholes(i11) \otimes b3 = i11 * b3
        /\ Wholes(i12) \otimes b3 = i12 * b3 /\ Wholes(i12) \otimes b4 = i12 * b4 /\ Wholes(i12) \otimes b5 = i12 * b5
        /\ Wholes(i13) \otimes b1 = i13 * b1 /\ Wholes(i13) \otimes b2 = i13 * b2 /\ Wholes(i13) \otimes b5 = i13 * b5
        /\ Wholes(i14) \otimes b0 = i14 * b0 /\ Wholes(i14) \otimes b2 = i14 * b2 /\ Wholes(i14) \otimes b4 = i14 * b4
        /\ Wholes(i15) \otimes b0 = i15 * b0 /\ Wholes(i15) \otimes b1 = i15 * b1 /\ Wholes(i15) \otimes b3 = i15 * b3
    BY ONLY <1>1, <1>3, ByWhole, ZenonT(60)
  <2> QED
    BY ONLY <1>2, <1>7, <2>1
<1>11. /\ A[5] \otimes b[11] - A[6] \otimes b[10] + A[7] \otimes b[9] = Wholes(i5 * b11 - i6 * b10 + i7 * b9)
       /\ A[4] \otimes b[11] - A[6] \otimes b[8] + A[7] \otimes b[7] = Wholes(i4 * b11 - i6 * b8 + i7 * b7)
       /\ A[4] \otimes b[10] - A[5] \otimes b[8] + A[7] \otimes b[6] = Wholes(i4 * b10 - i5 * b8 + i7 * b6)
       /\ A[4] \otimes b[9] - A[5] \otimes b[7] + A[6] \otimes b[6] = Wholes(i4 * b9 - i5 * b7 + i6 * b6)
  <2>1. A[5] \otimes b[11] - A[6] \otimes b[10] + A[7] \otimes b[9] = Wholes(i5 * b11 - i6 * b10 + i7 * b9)
    <3>1. i5 * b11 \in Int /\ i6 * b10 \in Int /\ i7 * b9 \in Int /\ i5 * b11 - i6 * b10 \in Int
      BY <1>1, <1>3
    <3>2. /\ Wholes(i5) \otimes Wholes(b11) = Wholes(i5 * b11)
          /\ Wholes(i6) \otimes Wholes(b10) = Wholes(i6 * b10)
          /\ Wholes(i7) \otimes Wholes(b9) = Wholes(i7 * b9)
      BY ONLY <1>1, <1>3, WholeByWhole
    <3> QED
      BY ONLY <1>2, <1>7, <3>1, <3>2, WholeSums
  <2>2. A[4] \otimes b[11] - A[6] \otimes b[8] + A[7] \otimes b[7] = Wholes(i4 * b11 - i6 * b8 + i7 * b7)
    <3>1. i4 * b11 \in Int /\ i6 * b8 \in Int /\ i7 * b7 \in Int /\ i4 * b11 - i6 * b8 \in Int
      BY <1>1, <1>3
    <3>2. /\ Wholes(i4) \otimes Wholes(b11) = Wholes(i4 * b11)
          /\ Wholes(i6) \otimes Wholes(b8) = Wholes(i6 * b8)
          /\ Wholes(i7) \otimes Wholes(b7) = Wholes(i7 * b7)
      BY ONLY <1>1, <1>3, WholeByWhole
    <3> QED
      BY ONLY <1>2, <1>7, <3>1, <3>2, WholeSums
  <2>3. A[4] \otimes b[10] - A[5] \otimes b[8] + A[7] \otimes b[6] = Wholes(i4 * b10 - i5 * b8 + i7 * b6)
    <3>1. i4 * b10 \in Int /\ i5 * b8 \in Int /\ i7 * b6 \in Int /\ i4 * b10 - i5 * b8 \in Int
      BY <1>1, <1>3
    <3>2. /\ Wholes(i4) \otimes Wholes(b10) = Wholes(i4 * b10)
          /\ Wholes(i5) \otimes Wholes(b8) = Wholes(i5 * b8)
          /\ Wholes(i7) \otimes Wholes(b6) = Wholes(i7 * b6)
      BY ONLY <1>1, <1>3, WholeByWhole
    <3> QED
      BY ONLY <1>2, <1>7, <3>1, <3>2, WholeSums
  <2>4. A[4] \otimes b[9] - A[5] \otimes b[7] + A[6] \otimes b[6] = Wholes(i4 * b9 - i5 * b7 + i6 * b6)
    <3>1. i4 * b9 \in Int /\ i5 * b7 \in Int /\ i6 * b6 \in Int /\ i4 * b9 - i5 * b7 \in Int
      BY <1>1, <1>3
    <3>2. /\ Wholes(i4) \otimes Wholes(b9) = Wholes(i4 * b9)
          /\ Wholes(i5) \otimes Wholes(b7) = Wholes(i5 * b7)
          /\ Wholes(i6) \otimes Wholes(b6) = Wholes(i6 * b6)
      BY ONLY <1>1, <1>3, WholeByWhole
    <3> QED
      BY ONLY <1>2, <1>7, <3>1, <3>2, WholeSums
  <2> QED
    BY <2>1, <2>2, <2>3, <2>4
<1> QED
  <2>1. /\ MatrixInvert(A) = [i \in 0..15 |-> MatrixInvert(A)[i]]
        /\ MatrixInvert(A)[0] = Ratio(Wholes(i5 * b11 - i6 * b10 + i7 * b9), D)
        /\ MatrixInvert(A)[1] = -Ratio(i1 * b11 - i2 * b10 + i3 * b9, D)
        /\ MatrixInvert(A)[2] = Ratio(i13 * b5 - i14 * b4 + i15 * b3, D)
        /\ MatrixInvert(A)[3] = -Ratio(i9 * b5 - i10 * b4 + i11 * b3, D)
        /\ MatrixInvert(A)[4] = -Ratio(Wholes(i4 * b11 - i6 * b8 + i7 * b7), D)
        /\ MatrixInvert(A)[5] = Ratio(i0 * b11 - i2 * b8 + i3 * b7, D)
        /\ MatrixInvert(A)[6] = -Ratio(i12 * b5 - i14 * b2 + i15 * b1, D)
        /\ MatrixInvert(A)[7] = Ratio(i8 * b5 - i10 * b2 + i11 * b1, D)
        /\ MatrixInvert(A)[8] = Ratio(Wholes(i4 * b10 - i5 * b8 + i7 * b6), D)
        /\ MatrixInvert(A)[9] = -Ratio(i0 * b10 - i1 * b8 + i3 * b6, D)
        /\ MatrixInvert(A)[10] = Ratio(i12 * b4 - i13 * b2 + i15 * b0, D)
        /\ MatrixInvert(A)[11] = -Ratio(i8 * b4 - i9 * b2 + i11 * b0, D)
        /\ MatrixInvert(A)[12] = -Ratio(Wholes(i4 * b9 - i5 * b7 + i6 * b6), D)
        /\ MatrixInvert(A)[13] = Ratio(i0 * b9 - i1 * b7 + i2 * b6, D)
        /\ MatrixInvert(A)[14] = -Ratio(i12 * b3 - i13 * b1 + i14 * b0, D)
        /\ MatrixInvert(A)[15] = Ratio(i8 * b3 - i9 * b1 + i10 * b0, D)
    <3> HIDE DEF D, i0, i1, i2, i3, i4, i5, i6, i7, i8, i9, i10, i11, i12, i13, i14, i15
    <3> QED
      BY ONLY <1>8, <1>9, <1>10, <1>11, ZenonT(60) DEF S, N
  <2> QED
    BY ONLY <2>1, ZenonT(60) DEF b0, b1, b2, b3, b4, b5, b6, b7, b8, b9, b10, b11, D, Inverted,
         i0, i1, i2, i3, i4, i5, i6, i7, i8, i9, i10, i11, i12, i13, i14, i15
-----------------------------------------------------------------------------
(* MatrixInvert on a rigid motion is its reverse.                          *)

(* The inverse of a rotation and a place: the transpose, and the place as  *)
(* the body sees it.                                                       *)
Reversed(M) ==
  LET e == << M[0], M[4], M[8], 0, M[1], M[5], M[9], 0, M[2], M[6], M[10], 0,
              -(M[12] * M[0] + M[13] * M[1] + M[14] * M[2]),
              -(M[12] * M[4] + M[13] * M[5] + M[14] * M[6]),
              -(M[12] * M[8] + M[13] * M[9] + M[14] * M[10]), 1 >>
  IN  [i \in 0..15 |-> e[i + 1]]

(* The entries of the reverse.                                             *)
LEMMA ReversedEntries ==
  ASSUME NEW M \in Matrices
  PROVE  /\ Reversed(M) \in Matrices
         /\ Reversed(M)[0] = M[0] /\ Reversed(M)[1] = M[4] /\ Reversed(M)[2] = M[8] /\ Reversed(M)[3] = 0
         /\ Reversed(M)[4] = M[1] /\ Reversed(M)[5] = M[5] /\ Reversed(M)[6] = M[9] /\ Reversed(M)[7] = 0
         /\ Reversed(M)[8] = M[2] /\ Reversed(M)[9] = M[6] /\ Reversed(M)[10] = M[10] /\ Reversed(M)[11] = 0
         /\ Reversed(M)[12] = -(M[12] * M[0] + M[13] * M[1] + M[14] * M[2])
         /\ Reversed(M)[13] = -(M[12] * M[4] + M[13] * M[5] + M[14] * M[6])
         /\ Reversed(M)[14] = -(M[12] * M[8] + M[13] * M[9] + M[14] * M[10])
         /\ Reversed(M)[15] = 1
<1> DEFINE x == -(M[12] * M[0] + M[13] * M[1] + M[14] * M[2])
           y == -(M[12] * M[4] + M[13] * M[5] + M[14] * M[6])
           z == -(M[12] * M[8] + M[13] * M[9] + M[14] * M[10])
<1>1. x \in Int /\ y \in Int /\ z \in Int
  BY MatrixTypes
<1>2. Reversed(M) = [i \in 0..15 |-> << M[0], M[4], M[8], 0, M[1], M[5], M[9], 0, M[2], M[6], M[10], 0, x, y, z, 1 >>[i + 1]]
  BY DEF Reversed
<1> HIDE DEF x, y, z
<1>3. /\ Reversed(M)[0] = M[0] /\ Reversed(M)[1] = M[4] /\ Reversed(M)[2] = M[8] /\ Reversed(M)[3] = 0
      /\ Reversed(M)[4] = M[1] /\ Reversed(M)[5] = M[5] /\ Reversed(M)[6] = M[9] /\ Reversed(M)[7] = 0
      /\ Reversed(M)[8] = M[2] /\ Reversed(M)[9] = M[6] /\ Reversed(M)[10] = M[10] /\ Reversed(M)[11] = 0
      /\ Reversed(M)[12] = x /\ Reversed(M)[13] = y /\ Reversed(M)[14] = z /\ Reversed(M)[15] = 1
  BY <1>2
<1>4. \A i \in 0..15 : Reversed(M)[i] \in Int
  BY <1>1, <1>3, MatrixTypes
<1>5. Reversed(M) \in Matrices
  BY <1>2, <1>4 DEF Matrices
<1> QED
  BY <1>3, <1>5 DEF x, y, z

(* The reverse of a rotation is a rotation.                                *)
LEMMA RotatesReversed ==
  ASSUME NEW M \in Matrices, Rotates(M)
  PROVE  Rotates(Reversed(M))
<1> DEFINE a0 == M[0]
           a1 == M[1]
           a2 == M[2]
           a4 == M[4]
           a5 == M[5]
           a6 == M[6]
           a8 == M[8]
           a9 == M[9]
           a10 == M[10]
           t0 == M[12]
           t1 == M[13]
           t2 == M[14]
<1>1. /\ a0 \in Int /\ a1 \in Int /\ a2 \in Int
      /\ a4 \in Int /\ a5 \in Int /\ a6 \in Int
      /\ a8 \in Int /\ a9 \in Int /\ a10 \in Int
      /\ t0 \in Int /\ t1 \in Int /\ t2 \in Int
  BY MatrixTypes
<1>2. /\ a5 * a10 - a6 * a9 = a0
      /\ a6 * a8 - a4 * a10 = a1
      /\ a4 * a9 - a5 * a8 = a2
      /\ a2 * a9 - a1 * a10 = a4
      /\ a0 * a10 - a2 * a8 = a5
      /\ a1 * a8 - a0 * a9 = a6
      /\ a1 * a6 - a2 * a5 = a8
      /\ a2 * a4 - a0 * a6 = a9
      /\ a0 * a5 - a1 * a4 = a10
      /\ M[3] = 0 /\ M[7] = 0 /\ M[11] = 0 /\ M[15] = 1
  BY DEF Rotates
<1>3. /\ a0 * a0 + a1 * a1 + a2 * a2 = 1
      /\ a4 * a4 + a5 * a5 + a6 * a6 = 1
      /\ a8 * a8 + a9 * a9 + a10 * a10 = 1
      /\ a0 * a4 + a1 * a5 + a2 * a6 = 0
      /\ a0 * a8 + a1 * a9 + a2 * a10 = 0
      /\ a4 * a8 + a5 * a9 + a6 * a10 = 0
      /\ a0 * a0 + a4 * a4 + a8 * a8 = 1
      /\ a1 * a1 + a5 * a5 + a9 * a9 = 1
      /\ a2 * a2 + a6 * a6 + a10 * a10 = 1
      /\ a0 * a1 + a4 * a5 + a8 * a9 = 0
      /\ a0 * a2 + a4 * a6 + a8 * a10 = 0
      /\ a1 * a2 + a5 * a6 + a9 * a10 = 0
  BY DEF Rotates
<1> DEFINE r0 == Reversed(M)[0]
           r1 == Reversed(M)[1]
           r2 == Reversed(M)[2]
           r4 == Reversed(M)[4]
           r5 == Reversed(M)[5]
           r6 == Reversed(M)[6]
           r8 == Reversed(M)[8]
           r9 == Reversed(M)[9]
           r10 == Reversed(M)[10]
<1>4. r0 = a0 /\ r1 = a4 /\ r2 = a8 /\ r4 = a1 /\ r5 = a5 /\ r6 = a9 /\ r8 = a2 /\ r9 = a6 /\ r10 = a10
      /\ Reversed(M)[3] = 0 /\ Reversed(M)[7] = 0 /\ Reversed(M)[11] = 0 /\ Reversed(M)[15] = 1
  BY ReversedEntries
<1> HIDE DEF a0, a1, a2, a4, a5, a6, a8, a9, a10, t0, t1, t2, r0, r1, r2, r4, r5, r6,
             r8, r9, r10
<1>5. /\ r5 * r10 - r6 * r9 = r0
      /\ r6 * r8 - r4 * r10 = r1
      /\ r4 * r9 - r5 * r8 = r2
      /\ r2 * r9 - r1 * r10 = r4
      /\ r0 * r10 - r2 * r8 = r5
      /\ r1 * r8 - r0 * r9 = r6
      /\ r1 * r6 - r2 * r5 = r8
      /\ r2 * r4 - r0 * r6 = r9
      /\ r0 * r5 - r1 * r4 = r10
  BY <1>1, <1>2, <1>4
<1>6. /\ r0 * r0 + r1 * r1 + r2 * r2 = 1
      /\ r4 * r4 + r5 * r5 + r6 * r6 = 1
      /\ r8 * r8 + r9 * r9 + r10 * r10 = 1
      /\ r0 * r4 + r1 * r5 + r2 * r6 = 0
      /\ r0 * r8 + r1 * r9 + r2 * r10 = 0
      /\ r4 * r8 + r5 * r9 + r6 * r10 = 0
      /\ r0 * r0 + r4 * r4 + r8 * r8 = 1
      /\ r1 * r1 + r5 * r5 + r9 * r9 = 1
      /\ r2 * r2 + r6 * r6 + r10 * r10 = 1
      /\ r0 * r1 + r4 * r5 + r8 * r9 = 0
      /\ r0 * r2 + r4 * r6 + r8 * r10 = 0
      /\ r1 * r2 + r5 * r6 + r9 * r10 = 0
  BY <1>1, <1>3, <1>4
<1> QED
  BY <1>4, <1>5, <1>6 DEF Rotates, r0, r1, r2, r4, r5, r6, r8, r9, r10

(* MatrixInvert reverses a rigid motion: its determinant is 1 and its      *)
(* minors are the entries of the transpose.                                *)
LEMMA InvertRotates ==
  ASSUME NEW M \in Matrices, Rotates(M)
  PROVE  MatrixInvert(InWholes(M)) = InWholes(Reversed(M))
<1> DEFINE a0 == M[0]
           a1 == M[1]
           a2 == M[2]
           a4 == M[4]
           a5 == M[5]
           a6 == M[6]
           a8 == M[8]
           a9 == M[9]
           a10 == M[10]
           t0 == M[12]
           t1 == M[13]
           t2 == M[14]
           I == [i \in 0..15 |-> IF i < 4 THEN Wholes(M[i]) ELSE M[i]]
<1>1. /\ a0 \in Int /\ a1 \in Int /\ a2 \in Int
      /\ a4 \in Int /\ a5 \in Int /\ a6 \in Int
      /\ a8 \in Int /\ a9 \in Int /\ a10 \in Int
      /\ t0 \in Int /\ t1 \in Int /\ t2 \in Int
  BY MatrixTypes
<1>2. M[3] = 0 /\ M[7] = 0 /\ M[11] = 0 /\ M[15] = 1
  BY DEF Rotates
<1>3. /\ a5 * a10 - a6 * a9 = a0
      /\ a6 * a8 - a4 * a10 = a1
      /\ a4 * a9 - a5 * a8 = a2
      /\ a2 * a9 - a1 * a10 = a4
      /\ a0 * a10 - a2 * a8 = a5
      /\ a1 * a8 - a0 * a9 = a6
      /\ a1 * a6 - a2 * a5 = a8
      /\ a2 * a4 - a0 * a6 = a9
      /\ a0 * a5 - a1 * a4 = a10
      /\ a8 * a8 + a9 * a9 + a10 * a10 = 1
  BY DEF Rotates
<1>4. I \in Matrices
  BY WholeTimes DEF Matrices
<1>5. InWholes(M) = [i \in 0..15 |-> IF i < 4 THEN I[i] ELSE Wholes(I[i])]
  BY DEF InWholes
<1> DEFINE U == Unit
<1>6. /\ I[0] = a0 * U /\ I[1] = a1 * U /\ I[2] = a2 * U /\ I[3] = 0
      /\ I[4] = a4 /\ I[5] = a5 /\ I[6] = a6 /\ I[7] = 0
      /\ I[8] = a8 /\ I[9] = a9 /\ I[10] = a10 /\ I[11] = 0
      /\ I[12] = t0 /\ I[13] = t1 /\ I[14] = t2 /\ I[15] = 1
  <2>1. Wholes(0) = 0
    BY Parts DEF Wholes
  <2> QED
    BY <1>2, <2>1 DEF Wholes
<1>7. U \in Int /\ U # 0
  BY Parts
<1> HIDE DEF I, U, a0, a1, a2, a4, a5, a6, a8, a9, a10, t0, t1, t2
<1> DEFINE b0 == I[0] * I[5] - I[1] * I[4]
           b1 == I[0] * I[6] - I[2] * I[4]
           b2 == I[0] * I[7] - I[3] * I[4]
           b3 == I[1] * I[6] - I[2] * I[5]
           b4 == I[1] * I[7] - I[3] * I[5]
           b5 == I[2] * I[7] - I[3] * I[6]
           b6 == I[8] * I[13] - I[9] * I[12]
           b7 == I[8] * I[14] - I[10] * I[12]
           b8 == I[8] * I[15] - I[11] * I[12]
           b9 == I[9] * I[14] - I[10] * I[13]
           b10 == I[9] * I[15] - I[11] * I[13]
           b11 == I[10] * I[15] - I[11] * I[14]
           D == b0 * b11 - b1 * b10 + b2 * b9 + b3 * b8 - b4 * b7 + b5 * b6
<1>8. /\ b0 = U * a10
      /\ b1 = -(U * a9)
      /\ b2 = 0
      /\ b3 = U * a8
      /\ b4 = 0
      /\ b5 = 0
      /\ b6 = a8 * t1 - a9 * t0
      /\ b7 = a8 * t2 - a10 * t0
      /\ b8 = a8
      /\ b9 = a9 * t2 - a10 * t1
      /\ b10 = a9
      /\ b11 = a10
  <2>1. /\ b0 = (a0 * U) * a5 - (a1 * U) * a4
        /\ b1 = (a0 * U) * a6 - (a2 * U) * a4
        /\ b2 = (a0 * U) * 0 - 0 * a4
        /\ b3 = (a1 * U) * a6 - (a2 * U) * a5
        /\ b4 = (a1 * U) * 0 - 0 * a5
        /\ b5 = (a2 * U) * 0 - 0 * a6
        /\ b6 = a8 * t1 - a9 * t0
        /\ b7 = a8 * t2 - a10 * t0
        /\ b8 = a8 * 1 - 0 * t0
        /\ b9 = a9 * t2 - a10 * t1
        /\ b10 = a9 * 1 - 0 * t1
        /\ b11 = a10 * 1 - 0 * t2
    BY <1>6
  <2>2. /\ (a0 * U) * a5 - (a1 * U) * a4 = U * (a0 * a5 - a1 * a4)
        /\ (a0 * U) * a6 - (a2 * U) * a4 = -(U * (a2 * a4 - a0 * a6))
        /\ (a1 * U) * a6 - (a2 * U) * a5 = U * (a1 * a6 - a2 * a5)
    BY <1>1, <1>7
  <2>3. /\ (a0 * U) * a5 - (a1 * U) * a4 = U * a10
        /\ (a0 * U) * a6 - (a2 * U) * a4 = -(U * a9)
        /\ (a1 * U) * a6 - (a2 * U) * a5 = U * a8
    BY <1>3, <2>2
  <2> QED
    BY <1>1, <1>7, <2>1, <2>3, SMTT(30)
<1> HIDE DEF b0, b1, b2, b3, b4, b5, b6, b7, b8, b9, b10, b11
<1>9. D = U
  <2>1. D = (U * a10) * a10 - (-(U * a9)) * a9 + 0 * b9 + (U * a8) * a8 - 0 * b7 + 0 * b6
    BY <1>8
  <2>2. b9 \in Int /\ b7 \in Int /\ b6 \in Int
    BY <1>1, <1>8
  <2>3. D = U * (a8 * a8 + a9 * a9 + a10 * a10)
    BY <1>1, <1>7, <2>1, <2>2
  <2> QED
    BY <1>3, <1>7, <2>3
<1> HIDE DEF D
<1> DEFINE n0 == I[5] * b11 - I[6] * b10 + I[7] * b9
           n1 == I[1] * b11 - I[2] * b10 + I[3] * b9
           n2 == I[13] * b5 - I[14] * b4 + I[15] * b3
           n3 == I[9] * b5 - I[10] * b4 + I[11] * b3
           n4 == I[4] * b11 - I[6] * b8 + I[7] * b7
           n5 == I[0] * b11 - I[2] * b8 + I[3] * b7
           n6 == I[12] * b5 - I[14] * b2 + I[15] * b1
           n7 == I[8] * b5 - I[10] * b2 + I[11] * b1
           n8 == I[4] * b10 - I[5] * b8 + I[7] * b6
           n9 == I[0] * b10 - I[1] * b8 + I[3] * b6
           n10 == I[12] * b4 - I[13] * b2 + I[15] * b0
           n11 == I[8] * b4 - I[9] * b2 + I[11] * b0
           n12 == I[4] * b9 - I[5] * b7 + I[6] * b6
           n13 == I[0] * b9 - I[1] * b7 + I[2] * b6
           n14 == I[12] * b3 - I[13] * b1 + I[14] * b0
           n15 == I[8] * b3 - I[9] * b1 + I[10] * b0
<1>10. /\ n0 = a0
       /\ n1 = -(U * a4)
       /\ n2 = U * a8
       /\ n3 = 0
       /\ n4 = -a1
       /\ n5 = U * a5
       /\ n6 = -(U * a9)
       /\ n7 = 0
       /\ n8 = a2
       /\ n9 = -(U * a6)
       /\ n10 = U * a10
       /\ n11 = 0
       /\ n12 = t0 * a0 + t1 * a1 + t2 * a2
       /\ n13 = -(U * (t0 * a4 + t1 * a5 + t2 * a6))
       /\ n14 = U * (t0 * a8 + t1 * a9 + t2 * a10)
       /\ n15 = U
  <2>1. /\ n0 = a5 * a10 - a6 * a9 + 0 * (a9 * t2 - a10 * t1)
        /\ n1 = (a1 * U) * a10 - (a2 * U) * a9 + 0 * (a9 * t2 - a10 * t1)
        /\ n2 = t1 * 0 - t2 * 0 + 1 * (U * a8)
        /\ n3 = a9 * 0 - a10 * 0 + 0 * (U * a8)
        /\ n4 = a4 * a10 - a6 * a8 + 0 * (a8 * t2 - a10 * t0)
        /\ n5 = (a0 * U) * a10 - (a2 * U) * a8 + 0 * (a8 * t2 - a10 * t0)
        /\ n6 = t0 * 0 - t2 * 0 + 1 * (-(U * a9))
        /\ n7 = a8 * 0 - a10 * 0 + 0 * (-(U * a9))
        /\ n8 = a4 * a9 - a5 * a8 + 0 * (a8 * t1 - a9 * t0)
        /\ n9 = (a0 * U) * a9 - (a1 * U) * a8 + 0 * (a8 * t1 - a9 * t0)
        /\ n10 = t0 * 0 - t1 * 0 + 1 * (U * a10)
        /\ n11 = a8 * 0 - a9 * 0 + 0 * (U * a10)
        /\ n12 = a4 * (a9 * t2 - a10 * t1) - a5 * (a8 * t2 - a10 * t0) + a6 * (a8 * t1 - a9 * t0)
        /\ n13 = (a0 * U) * (a9 * t2 - a10 * t1) - (a1 * U) * (a8 * t2 - a10 * t0) + (a2 * U) * (a8 * t1 - a9 * t0)
        /\ n14 = t0 * (U * a8) - t1 * (-(U * a9)) + t2 * (U * a10)
        /\ n15 = a8 * (U * a8) - a9 * (-(U * a9)) + a10 * (U * a10)
    BY <1>6, <1>8
  <2>2. /\ a5 * a10 - a6 * a9 + 0 * (a9 * t2 - a10 * t1)
             = a5 * a10 - a6 * a9
        /\ (a1 * U) * a10 - (a2 * U) * a9 + 0 * (a9 * t2 - a10 * t1)
             = -(U * (a2 * a9 - a1 * a10))
        /\ t1 * 0 - t2 * 0 + 1 * (U * a8)
             = U * a8
        /\ a9 * 0 - a10 * 0 + 0 * (U * a8)
             = 0
        /\ a4 * a10 - a6 * a8 + 0 * (a8 * t2 - a10 * t0)
             = -(a6 * a8 - a4 * a10)
        /\ (a0 * U) * a10 - (a2 * U) * a8 + 0 * (a8 * t2 - a10 * t0)
             = U * (a0 * a10 - a2 * a8)
        /\ t0 * 0 - t2 * 0 + 1 * (-(U * a9))
             = -(U * a9)
        /\ a8 * 0 - a10 * 0 + 0 * (-(U * a9))
             = 0
        /\ a4 * a9 - a5 * a8 + 0 * (a8 * t1 - a9 * t0)
             = a4 * a9 - a5 * a8
        /\ (a0 * U) * a9 - (a1 * U) * a8 + 0 * (a8 * t1 - a9 * t0)
             = -(U * (a1 * a8 - a0 * a9))
        /\ t0 * 0 - t1 * 0 + 1 * (U * a10)
             = U * a10
        /\ a8 * 0 - a9 * 0 + 0 * (U * a10)
             = 0
        /\ a4 * (a9 * t2 - a10 * t1) - a5 * (a8 * t2 - a10 * t0) + a6 * (a8 * t1 - a9 * t0)
             = t0 * (a5 * a10 - a6 * a9) + t1 * (a6 * a8 - a4 * a10) + t2 * (a4 * a9 - a5 * a8)
        /\ (a0 * U) * (a9 * t2 - a10 * t1) - (a1 * U) * (a8 * t2 - a10 * t0) + (a2 * U) * (a8 * t1 - a9 * t0)
             = -(U * (t0 * (a2 * a9 - a1 * a10) + t1 * (a0 * a10 - a2 * a8) + t2 * (a1 * a8 - a0 * a9)))
        /\ t0 * (U * a8) - t1 * (-(U * a9)) + t2 * (U * a10)
             = U * (t0 * a8 + t1 * a9 + t2 * a10)
        /\ a8 * (U * a8) - a9 * (-(U * a9)) + a10 * (U * a10)
             = U * (a8 * a8 + a9 * a9 + a10 * a10)
    BY <1>1, <1>7
  <2> QED
    BY <1>3, <1>7, <2>1, <2>2
<1>11. LET V == MatrixInvert(InWholes(M))
       IN  /\ V = [i \in 0..15 |-> V[i]]
           /\ V[0] = Ratio(Wholes(n0), D)
           /\ V[1] = -Ratio(n1, D)
           /\ V[2] = Ratio(n2, D)
           /\ V[3] = -Ratio(n3, D)
           /\ V[4] = -Ratio(Wholes(n4), D)
           /\ V[5] = Ratio(n5, D)
           /\ V[6] = -Ratio(n6, D)
           /\ V[7] = Ratio(n7, D)
           /\ V[8] = Ratio(Wholes(n8), D)
           /\ V[9] = -Ratio(n9, D)
           /\ V[10] = Ratio(n10, D)
           /\ V[11] = -Ratio(n11, D)
           /\ V[12] = -Ratio(Wholes(n12), D)
           /\ V[13] = Ratio(n13, D)
           /\ V[14] = -Ratio(n14, D)
           /\ V[15] = Ratio(n15, D)
  <2>1. Inverted(MatrixInvert(InWholes(M)), I)
    BY <1>4, <1>5, InvertEntries
  <2> QED
    BY ONLY <2>1 DEF Inverted, D, b0, b1, b2, b3, b4, b5, b6, b7, b8, b9, b10, b11,
                     n0, n1, n2, n3, n4, n5, n6, n7, n8, n9, n10, n11, n12, n13, n14, n15
<1> HIDE DEF n0, n1, n2, n3, n4, n5, n6, n7, n8, n9, n10, n11, n12, n13, n14, n15
<1>12. /\ \A c \in Int : Ratio(c, D) = c
       /\ \A c \in Int : Wholes(c) = U * c /\ Wholes(c) \in Int /\ -Wholes(c) = Wholes(-c)
  <2> SUFFICES ASSUME NEW c \in Int
               PROVE  /\ Ratio(c, D) = c
                      /\ Wholes(c) = U * c /\ Wholes(c) \in Int /\ -Wholes(c) = Wholes(-c)
    OBVIOUS
  <2>1. Ratio(c, Unit) = c
    BY Quotient, Parts
  <2> QED
    BY <1>9, <2>1, Parts DEF Wholes, U
<1>13. LET V == MatrixInvert(InWholes(M))
       IN  /\ V[0] = Wholes(a0)
           /\ V[1] = Wholes(a4)
           /\ V[2] = Wholes(a8)
           /\ V[3] = Wholes(0)
           /\ V[4] = Wholes(a1)
           /\ V[5] = Wholes(a5)
           /\ V[6] = Wholes(a9)
           /\ V[7] = Wholes(0)
           /\ V[8] = Wholes(a2)
           /\ V[9] = Wholes(a6)
           /\ V[10] = Wholes(a10)
           /\ V[11] = Wholes(0)
           /\ V[12] = Wholes(-(t0 * a0 + t1 * a1 + t2 * a2))
           /\ V[13] = Wholes(-(t0 * a4 + t1 * a5 + t2 * a6))
           /\ V[14] = Wholes(-(t0 * a8 + t1 * a9 + t2 * a10))
           /\ V[15] = Wholes(1)
  <2>1. /\ n0 \in Int
        /\ n1 \in Int
        /\ n2 \in Int
        /\ n3 \in Int
        /\ n4 \in Int
        /\ n5 \in Int
        /\ n6 \in Int
        /\ n7 \in Int
        /\ n8 \in Int
        /\ n9 \in Int
        /\ n10 \in Int
        /\ n11 \in Int
        /\ n12 \in Int
        /\ n13 \in Int
        /\ n14 \in Int
        /\ n15 \in Int
    BY <1>1, <1>7, <1>10
  <2>2. /\ Wholes(n0) = Wholes(a0)
        /\ -n1 = Wholes(a4)
        /\ n2 = Wholes(a8)
        /\ -n3 = Wholes(0)
        /\ -Wholes(n4) = Wholes(a1)
        /\ n5 = Wholes(a5)
        /\ -n6 = Wholes(a9)
        /\ n7 = Wholes(0)
        /\ Wholes(n8) = Wholes(a2)
        /\ -n9 = Wholes(a6)
        /\ n10 = Wholes(a10)
        /\ -n11 = Wholes(0)
        /\ -Wholes(n12) = Wholes(-(t0 * a0 + t1 * a1 + t2 * a2))
        /\ n13 = Wholes(-(t0 * a4 + t1 * a5 + t2 * a6))
        /\ -n14 = Wholes(-(t0 * a8 + t1 * a9 + t2 * a10))
        /\ n15 = Wholes(1)
    BY <1>1, <1>7, <1>10, <1>12
  <2>3. /\ Ratio(Wholes(n0), D) = Wholes(n0)
        /\ Ratio(n1, D) = n1
        /\ Ratio(n2, D) = n2
        /\ Ratio(n3, D) = n3
        /\ Ratio(Wholes(n4), D) = Wholes(n4)
        /\ Ratio(n5, D) = n5
        /\ Ratio(n6, D) = n6
        /\ Ratio(n7, D) = n7
        /\ Ratio(Wholes(n8), D) = Wholes(n8)
        /\ Ratio(n9, D) = n9
        /\ Ratio(n10, D) = n10
        /\ Ratio(n11, D) = n11
        /\ Ratio(Wholes(n12), D) = Wholes(n12)
        /\ Ratio(n13, D) = n13
        /\ Ratio(n14, D) = n14
        /\ Ratio(n15, D) = n15
    BY ONLY <1>12, <2>1, Zenon
  <2> QED
    BY <1>11, <2>2, <2>3
<1>14. \A i \in 0..15 : MatrixInvert(InWholes(M))[i] = Wholes(Reversed(M)[i])
  BY <1>13, ReversedEntries DEF a0, a1, a2, a4, a5, a6, a8, a9, a10, t0, t1, t2
<1> QED
  BY <1>11, <1>14 DEF InWholes
-----------------------------------------------------------------------------
(* The inductive invariant, and the steps that multiply and invert.        *)

(* The inductive invariant: quaternion and matrix are exact, and the       *)
(* matrix is that of the quaternion, with a place. That the points agree   *)
(* is not enough to go on: inverting and rereading need every entry.       *)
Rigid == \E n \in Counts, M \in Matrices :
           q = Attitude(n) /\ m = InWholes(M) /\ Turns(n, M)

(* No rotation.                                                            *)
Still == Quaternion(0, 0, 0, 2)

(* The floats 0, 0.5 and 1.                                                *)
LEMMA HalvesKnown ==
  /\ Halves(0) = 0 /\ Halves(1) = Half /\ Halves(-1) = -Half /\ Halves(2) = Unit /\ Halves(-2) = -Unit
  /\ Wholes(0) = 0 /\ Wholes(1) = Unit /\ Wholes(-1) = -Unit
BY Parts DEF Halves, Wholes

(* The entries of MatrixIdentity.                                          *)
LEMMA IdentityEntries ==
  ASSUME NEW e \in Int
  PROVE  /\ MatrixIdentity(e) = [i \in 0..15 |-> MatrixIdentity(e)[i]]
         /\ MatrixIdentity(e)[0] = e /\ MatrixIdentity(e)[5] = e
         /\ MatrixIdentity(e)[10] = e /\ MatrixIdentity(e)[15] = Unit
         /\ \A i \in {1, 2, 3, 4, 6, 7, 8, 9, 11, 12, 13, 14} : MatrixIdentity(e)[i] = 0
BY DEF MatrixIdentity, Turning, Rows

(* A matrix that only moves.                                               *)
Shifting(x, y, z) ==
  [i \in 0..15 |-> << 1, 0, 0, 0, 0, 1, 0, 0, 0, 0, 1, 0, x, y, z, 1 >>[i + 1]]

(* No rotation is one.                                                     *)
LEMMA StillCount == Still \in Counts
BY CountMade DEF Still

(* The matrix that only moves turns as no rotation does.                   *)
LEMMA ShiftingTurns ==
  ASSUME NEW x \in Int, NEW y \in Int, NEW z \in Int
  PROVE  Shifting(x, y, z) \in Matrices /\ Turns(Still, Shifting(x, y, z))
<1> DEFINE M == Shifting(x, y, z)
<1>1. /\ M[0] = 1 /\ M[1] = 0 /\ M[2] = 0 /\ M[3] = 0 /\ M[4] = 0 /\ M[5] = 1 /\ M[6] = 0 /\ M[7] = 0
      /\ M[8] = 0 /\ M[9] = 0 /\ M[10] = 1 /\ M[11] = 0 /\ M[12] = x /\ M[13] = y /\ M[14] = z /\ M[15] = 1
  BY DEF Shifting
<1>2. \A i \in 0..15 : M[i] \in Int
  BY <1>1
<1>3. M \in Matrices
  BY <1>2 DEF Matrices, Shifting
<1>4. Still.x = 0 /\ Still.y = 0 /\ Still.z = 0 /\ Still.w = 2
  BY DEF Still, Quaternion
<1> HIDE DEF M
<1> QED
  BY <1>1, <1>3, <1>4 DEF Turns, M

(* MatrixTranslate by whole numbers only moves.                            *)
LEMMA TranslateWholes ==
  ASSUME NEW x \in Int, NEW y \in Int, NEW z \in Int
  PROVE  MatrixTranslate(Wholes(x), Wholes(y), Wholes(z)) = InWholes(Shifting(x, y, z))
<1> DEFINE M == Shifting(x, y, z)
           T == MatrixTranslate(Wholes(x), Wholes(y), Wholes(z))
<1>1. /\ M[0] = 1 /\ M[1] = 0 /\ M[2] = 0 /\ M[3] = 0 /\ M[4] = 0 /\ M[5] = 1 /\ M[6] = 0 /\ M[7] = 0
      /\ M[8] = 0 /\ M[9] = 0 /\ M[10] = 1 /\ M[11] = 0 /\ M[12] = x /\ M[13] = y /\ M[14] = z /\ M[15] = 1
  BY DEF Shifting
<1>2. /\ T = [i \in 0..15 |-> T[i]]
      /\ T[12] = Wholes(x) /\ T[13] = Wholes(y) /\ T[14] = Wholes(z)
      /\ \A i \in 0..15 : i \notin {12, 13, 14} => T[i] = MatrixIdentity(Unit)[i]
  <2> DEFINE J == MatrixIdentity(Unit)
  <2>1. J \in Matrices
    <3>1. \A i \in 0..15 : J[i] \in Int
      BY IdentityEntries, Parts
    <3> QED
      BY <3>1, IdentityEntries, Parts DEF Matrices
  <2>2. T = [J EXCEPT ![12] = Wholes(x), ![13] = Wholes(y), ![14] = Wholes(z)]
    BY DEF MatrixTranslate
  <2>3. Wholes(x) \in Int /\ Wholes(y) \in Int /\ Wholes(z) \in Int
    BY WholeTimes
  <2> HIDE DEF J, T
  <2> DEFINE J1 == [J EXCEPT ![12] = Wholes(x)]
             J2 == [J1 EXCEPT ![13] = Wholes(y)]
             J3 == [J2 EXCEPT ![14] = Wholes(z)]
  <2>4. J1 \in Matrices /\ J1[12] = Wholes(x) /\ \A i \in 0..15 : i # 12 => J1[i] = J[i]
    BY <2>1, <2>3 DEF Matrices
  <2> HIDE DEF J1
  <2>5. J2 \in Matrices /\ J2[13] = Wholes(y) /\ \A i \in 0..15 : i # 13 => J2[i] = J1[i]
    BY <2>3, <2>4 DEF Matrices
  <2> HIDE DEF J2
  <2>6. J3 \in Matrices /\ J3[14] = Wholes(z) /\ \A i \in 0..15 : i # 14 => J3[i] = J2[i]
    BY <2>3, <2>5 DEF Matrices
  <2>7. T = J3
    BY <2>2 DEF J1, J2
  <2> HIDE DEF J3
  <2>8. T = [i \in 0..15 |-> T[i]]
    BY <2>6, <2>7 DEF Matrices
  <2> QED
    BY <2>4, <2>5, <2>6, <2>7, <2>8 DEF J
<1> HIDE DEF M, T
<1>3. \A i \in 0..15 : T[i] = Wholes(M[i])
  BY <1>1, <1>2, IdentityEntries, HalvesKnown, Parts
<1> QED
  BY <1>2, <1>3 DEF InWholes, M, T

(* Initially.                                                              *)
LEMMA InitRigid ==
  ASSUME Init
  PROVE  Rigid
<1>1. q = Attitude(Still)
  BY HalvesKnown DEF Init, Attitude, Still, Quaternion
<1>2. m = InWholes(Shifting(0, 0, 0))
  <2> DEFINE M == Shifting(0, 0, 0)
  <2>1. /\ M[0] = 1 /\ M[1] = 0 /\ M[2] = 0 /\ M[3] = 0 /\ M[4] = 0 /\ M[5] = 1 /\ M[6] = 0 /\ M[7] = 0
        /\ M[8] = 0 /\ M[9] = 0 /\ M[10] = 1 /\ M[11] = 0 /\ M[12] = 0 /\ M[13] = 0 /\ M[14] = 0 /\ M[15] = 1
    BY DEF Shifting
  <2> HIDE DEF M
  <2>2. \A i \in 0..15 : MatrixIdentity(Unit)[i] = Wholes(M[i])
    BY <2>1, IdentityEntries, HalvesKnown, Parts
  <2> QED
    BY <2>2, IdentityEntries, Parts DEF Init, InWholes, M
<1> QED
  BY <1>1, <1>2, StillCount, ShiftingTurns DEF Rigid

(* Every attitude is made of counts of Half.                               *)
LEMMA AttitudesCounted ==
  ASSUME NEW r \in Attitudes
  PROVE  \E k \in Counts : r = Attitude(k)
<1>1. \E x, y, z, w \in Int : r = Quaternion(Halves(x), Halves(y), Halves(z), Halves(w))
  <2>1. \A h \in {-Half, Half} \cup {-Unit, 0, Unit} : \E i \in Int : h = Halves(i)
    BY HalvesKnown
  <2>2. /\ r.x \in {-Half, Half} \cup {-Unit, 0, Unit} /\ r.y \in {-Half, Half} \cup {-Unit, 0, Unit}
        /\ r.z \in {-Half, Half} \cup {-Unit, 0, Unit} /\ r.w \in {-Half, Half} \cup {-Unit, 0, Unit}
        /\ r = Quaternion(r.x, r.y, r.z, r.w)
    BY DEF Attitudes, Quaternions, Quaternion
  <2>3. PICK x \in Int : r.x = Halves(x)
    BY <2>1, <2>2
  <2>4. PICK y \in Int : r.y = Halves(y)
    BY <2>1, <2>2
  <2>5. PICK z \in Int : r.z = Halves(z)
    BY <2>1, <2>2
  <2>6. PICK w \in Int : r.w = Halves(w)
    BY <2>1, <2>2
  <2> QED
    BY <2>2, <2>3, <2>4, <2>5, <2>6
<1>2. PICK x, y, z, w \in Int : r = Quaternion(Halves(x), Halves(y), Halves(z), Halves(w))
  BY <1>1
<1>3. NormSquared(r) = Quarters(x * x) + Quarters(y * y) + Quarters(z * z) + Quarters(w * w)
  BY <1>2, HalfTimes DEF NormSquared, Quaternion
<1>4. NormSquared(r) = Unit
  BY DEF Attitudes
<1>5. x * x + y * y + z * z + w * w = 4
  BY <1>3, <1>4, Parts DEF Quarters
<1> QED
  BY <1>2, <1>5, CountMade DEF Attitude, Quaternion

(* Quaternions and matrices multiplied, factors in opposite order, still   *)
(* agree.                                                                  *)
LEMMA Combined ==
  ASSUME NEW n \in Counts, NEW k \in Counts, NEW M \in Matrices, NEW K \in Matrices,
         Turns(n, M), Turns(k, K)
  PROVE  \E p \in Counts, L \in Matrices :
           /\ QuaternionMultiply(Attitude(k), Attitude(n)) = Attitude(p)
           /\ MatrixMultiply(InWholes(M), InWholes(K)) = InWholes(L)
           /\ Turns(p, L)
<1>1. PICK p \in Counts : /\ 2 * p.x = TwiceTimes(k, n).x /\ 2 * p.y = TwiceTimes(k, n).y
                          /\ 2 * p.z = TwiceTimes(k, n).z /\ 2 * p.w = TwiceTimes(k, n).w
                          /\ QuaternionMultiply(Attitude(k), Attitude(n)) = Attitude(p)
  BY TimesCounts
<1>2. Turns(p, Composed(M, K))
  BY <1>1, TurnsComposed
<1> QED
  BY <1>1, <1>2, MultiplyWholes

(* A turn about the axes of the world.                                     *)
LEMMA SwingRigid ==
  ASSUME Rigid, NEW r \in Attitudes, Swing(r)
  PROVE  Rigid'
<1>1. PICK n \in Counts, M \in Matrices : q = Attitude(n) /\ m = InWholes(M) /\ Turns(n, M)
  BY DEF Rigid
<1>2. PICK k \in Counts : r = Attitude(k)
  BY AttitudesCounted
<1>3. PICK K \in Matrices : Turns(k, K) /\ QuaternionToMatrix(r) = InWholes(K)
  BY <1>2, AttitudeTurns
<1>4. PICK p \in Counts, L \in Matrices :
        /\ QuaternionMultiply(r, q) = Attitude(p)
        /\ MatrixMultiply(m, QuaternionToMatrix(r)) = InWholes(L)
        /\ Turns(p, L)
  BY <1>1, <1>2, <1>3, Combined
<1>5. q' = Attitude(p) /\ m' = InWholes(L)
  BY <1>4 DEF Swing
<1> QED
  BY <1>4, <1>5 DEF Rigid

(* A turn about the axes of the body.                                      *)
LEMMA TurnRigid ==
  ASSUME Rigid, NEW r \in Attitudes, Turn(r)
  PROVE  Rigid'
<1>1. PICK n \in Counts, M \in Matrices : q = Attitude(n) /\ m = InWholes(M) /\ Turns(n, M)
  BY DEF Rigid
<1>2. PICK k \in Counts : r = Attitude(k)
  BY AttitudesCounted
<1>3. PICK K \in Matrices : Turns(k, K) /\ QuaternionToMatrix(r) = InWholes(K)
  BY <1>2, AttitudeTurns
<1>4. PICK p \in Counts, L \in Matrices :
        /\ QuaternionMultiply(q, r) = Attitude(p)
        /\ MatrixMultiply(QuaternionToMatrix(r), m) = InWholes(L)
        /\ Turns(p, L)
  BY <1>1, <1>2, <1>3, Combined
<1>5. q' = Attitude(p) /\ m' = InWholes(L)
  BY <1>4 DEF Turn
<1> QED
  BY <1>4, <1>5 DEF Rigid

(* A move.                                                                 *)
LEMMA MoveRigid ==
  ASSUME Rigid, NEW v \in Steps, Move(v)
  PROVE  Rigid'
<1>1. PICK n \in Counts, M \in Matrices : q = Attitude(n) /\ m = InWholes(M) /\ Turns(n, M)
  BY DEF Rigid
<1>2. PICK x, y, z \in Int : v.x = Wholes(x) /\ v.y = Wholes(y) /\ v.z = Wholes(z)
  <2>1. \A h \in {-Unit, 0, Unit} : \E i \in Int : h = Wholes(i)
    BY HalvesKnown
  <2>2. v.x \in {-Unit, 0, Unit} /\ v.y \in {-Unit, 0, Unit} /\ v.z \in {-Unit, 0, Unit}
    BY DEF Steps, Vector
  <2> QED
    BY <2>1, <2>2
<1> DEFINE T == Shifting(x, y, z)
<1>3. T \in Matrices /\ Turns(Still, T)
  BY ShiftingTurns
<1>4. m' = MatrixMultiply(InWholes(M), InWholes(T)) /\ q' = q
  BY <1>1, <1>2, TranslateWholes DEF Move
<1>5. /\ 2 * n.x = TwiceTimes(Still, n).x /\ 2 * n.y = TwiceTimes(Still, n).y
      /\ 2 * n.z = TwiceTimes(Still, n).z /\ 2 * n.w = TwiceTimes(Still, n).w
  <2>1. Still.x = 0 /\ Still.y = 0 /\ Still.z = 0 /\ Still.w = 2
    BY DEF Still, Quaternion
  <2>2. n.x \in Int /\ n.y \in Int /\ n.z \in Int /\ n.w \in Int
    BY CountTypes
  <2> QED
    BY <2>1, <2>2 DEF TwiceTimes
<1> HIDE DEF T
<1>6. Turns(n, Composed(M, T))
  BY <1>1, <1>3, <1>5, TurnsComposed, StillCount
<1>7. m' = InWholes(Composed(M, T)) /\ Composed(M, T) \in Matrices
  BY <1>3, <1>4, MultiplyWholes
<1> QED
  BY <1>1, <1>4, <1>6, <1>7 DEF Rigid

(* QuaternionInvert and MatrixInvert.                                      *)
LEMMA UndoRigid ==
  ASSUME Rigid, Undo
  PROVE  Rigid'
<1>1. PICK n \in Counts, M \in Matrices : q = Attitude(n) /\ m = InWholes(M) /\ Turns(n, M)
  BY DEF Rigid
<1> DEFINE k == Quaternion(-n.x, -n.y, -n.z, n.w)
<1>2. /\ n.x \in Int /\ n.y \in Int /\ n.z \in Int /\ n.w \in Int
      /\ n.x * n.x + n.y * n.y + n.z * n.z + n.w * n.w = 4
  BY CountTypes
<1>3. k \in Counts
  <2> DEFINE x == n.x
             y == n.y
             z == n.z
             w == n.w
  <2>1. x \in Int /\ y \in Int /\ z \in Int /\ w \in Int /\ x * x + y * y + z * z + w * w = 4
    BY <1>2
  <2>2. k = Quaternion(-x, -y, -z, w)
    OBVIOUS
  <2> HIDE DEF x, y, z, w, k
  <2>3. (-x) * (-x) + (-y) * (-y) + (-z) * (-z) + w * w = 4
    BY <2>1
  <2>4. -x \in Int /\ -y \in Int /\ -z \in Int
    BY <2>1
  <2> QED
    BY <2>1, <2>2, <2>3, <2>4, CountMade
<1>4. k.x = -n.x /\ k.y = -n.y /\ k.z = -n.z /\ k.w = n.w
  BY DEF Quaternion
<1>5. Turns(k, Reversed(M)) /\ Reversed(M) \in Matrices
  <2> DEFINE x == n.x
             y == n.y
             z == n.z
             w == n.w
  <2>1. \A i \in 0..15 : M[i] \in Int
    BY DEF Matrices
  <2>2. /\ 4 * M[0]  = w * w + x * x - y * y - z * z
        /\ 4 * M[5]  = w * w - x * x + y * y - z * z
        /\ 4 * M[10] = w * w - x * x - y * y + z * z
        /\ 4 * M[1] = 2 * (x * y + w * z) /\ 4 * M[4] = 2 * (x * y - w * z)
        /\ 4 * M[6] = 2 * (y * z + w * x) /\ 4 * M[9] = 2 * (y * z - w * x)
        /\ 4 * M[8] = 2 * (x * z + w * y) /\ 4 * M[2] = 2 * (x * z - w * y)
    BY <1>1 DEF Turns
  <2>3. x \in Int /\ y \in Int /\ z \in Int /\ w \in Int
    BY <1>2
  <2>4. k.x = -x /\ k.y = -y /\ k.z = -z /\ k.w = w
    BY <1>4
  <2> HIDE DEF x, y, z, w, k
  <2>5. /\ w * w + (-x) * (-x) - (-y) * (-y) - (-z) * (-z) = w * w + x * x - y * y - z * z
        /\ w * w - (-x) * (-x) + (-y) * (-y) - (-z) * (-z) = w * w - x * x + y * y - z * z
        /\ w * w - (-x) * (-x) - (-y) * (-y) + (-z) * (-z) = w * w - x * x - y * y + z * z
        /\ 2 * ((-x) * (-y) + w * (-z)) = 2 * (x * y - w * z)
        /\ 2 * ((-x) * (-y) - w * (-z)) = 2 * (x * y + w * z)
        /\ 2 * ((-y) * (-z) + w * (-x)) = 2 * (y * z - w * x)
        /\ 2 * ((-y) * (-z) - w * (-x)) = 2 * (y * z + w * x)
        /\ 2 * ((-x) * (-z) + w * (-y)) = 2 * (x * z - w * y)
        /\ 2 * ((-x) * (-z) - w * (-y)) = 2 * (x * z + w * y)
    BY <2>3
  <2>6. /\ Reversed(M) \in Matrices
        /\ Reversed(M)[0] = M[0] /\ Reversed(M)[1] = M[4] /\ Reversed(M)[2] = M[8] /\ Reversed(M)[3] = 0
        /\ Reversed(M)[4] = M[1] /\ Reversed(M)[5] = M[5] /\ Reversed(M)[6] = M[9] /\ Reversed(M)[7] = 0
        /\ Reversed(M)[8] = M[2] /\ Reversed(M)[9] = M[6] /\ Reversed(M)[10] = M[10] /\ Reversed(M)[11] = 0
        /\ Reversed(M)[15] = 1
    BY ReversedEntries
  <2> QED
    BY <2>2, <2>4, <2>5, <2>6 DEF Turns
<1>6. m' = InWholes(Reversed(M))
  BY <1>1, TurnsRotates, InvertRotates DEF Undo
<1>7. q' = Attitude(k)
  <2> DEFINE x == n.x
             y == n.y
             z == n.z
             w == n.w
  <2>1. x \in Int /\ y \in Int /\ z \in Int /\ w \in Int /\ x * x + y * y + z * z + w * w = 4
    BY <1>2
  <2>2. q = Quaternion(Halves(x), Halves(y), Halves(z), Halves(w))
    BY <1>1 DEF Attitude
  <2> HIDE DEF x, y, z, w
  <2>3. NormSquared(q) = Quarters(x * x) + Quarters(y * y) + Quarters(z * z) + Quarters(w * w)
    BY <2>1, <2>2, HalfTimes DEF NormSquared, Quaternion
  <2>4. NormSquared(q) = Unit
    BY <2>1, <2>3, Parts DEF Quarters
  <2>5. \A c \in Int : Ratio(c, Unit) = c
    BY Quotient, Parts
  <2>6. /\ Halves(x) \in Int /\ Halves(y) \in Int /\ Halves(z) \in Int /\ Halves(w) \in Int
        /\ -Halves(x) = Halves(-x) /\ -Halves(y) = Halves(-y) /\ -Halves(z) = Halves(-z)
        /\ -Halves(x) \in Int /\ -Halves(y) \in Int /\ -Halves(z) \in Int
    BY <2>1, Parts DEF Halves
  <2>7. q' = Scaled(Quaternion(-q.x, -q.y, -q.z, q.w), Unit)
    BY <2>4, Parts DEF Undo, QuaternionInvert
  <2>8. q.x = Halves(x) /\ q.y = Halves(y) /\ q.z = Halves(z) /\ q.w = Halves(w)
    BY <2>2 DEF Quaternion
  <2>9. q' = Quaternion(Ratio(-Halves(x), Unit), Ratio(-Halves(y), Unit), Ratio(-Halves(z), Unit), Ratio(Halves(w), Unit))
    BY <2>7, <2>8 DEF Scaled, Quaternion
  <2>10. q' = Quaternion(Halves(-x), Halves(-y), Halves(-z), Halves(w))
    BY <2>5, <2>6, <2>9
  <2> QED
    BY <2>10 DEF Attitude, Quaternion, x, y, z, w
<1> QED
  BY <1>3, <1>5, <1>6, <1>7 DEF Rigid
-----------------------------------------------------------------------------
(* The step that rereads the quaternion from the matrix.                   *)

(* QuaternionFromMatrix takes a largest component.                         *)
LEMMA FirstLargest ==
  ASSUME NEW a \in Int, NEW b \in Int, NEW c \in Int, NEW d \in Int
  PROVE  LET f == <<a, b, c, d>>
             P(i) == /\ \A j \in 1..4 : f[j] <= f[i]
                     /\ \A j \in 1..(i - 1) : f[j] < f[i]
             k == CHOOSE i \in 1..4 : P(i)
         IN  k \in 1..4 /\ \A j \in 1..4 : f[j] <= f[k]
<1> DEFINE f == <<a, b, c, d>>
           P(i) == /\ \A j \in 1..4 : f[j] <= f[i]
                   /\ \A j \in 1..(i - 1) : f[j] < f[i]
<1>1. f[1] = a /\ f[2] = b /\ f[3] = c /\ f[4] = d
  OBVIOUS
<1> HIDE DEF f
<1>2. 1..4 = {1, 2, 3, 4} /\ 1..(1 - 1) = {} /\ 1..(2 - 1) = {1} /\ 1..(3 - 1) = {1, 2} /\ 1..(4 - 1) = {1, 2, 3}
  OBVIOUS
<1>3. \/ b <= a /\ c <= a /\ d <= a
      \/ a < b /\ c <= b /\ d <= b
      \/ a < c /\ b < c /\ d <= c
      \/ a < d /\ b < d /\ c < d
  OBVIOUS
<1>4. ASSUME b <= a /\ c <= a /\ d <= a
      PROVE  \E i \in 1..4 : P(i)
  <2>1. P(1)
    BY <1>1, <1>2, <1>4
  <2> HIDE DEF P
  <2> QED
    BY <2>1
<1>5. ASSUME a < b /\ c <= b /\ d <= b
      PROVE  \E i \in 1..4 : P(i)
  <2>1. P(2)
    BY <1>1, <1>2, <1>5
  <2> HIDE DEF P
  <2> QED
    BY <2>1
<1>6. ASSUME a < c /\ b < c /\ d <= c
      PROVE  \E i \in 1..4 : P(i)
  <2>1. P(3)
    BY <1>1, <1>2, <1>6
  <2> HIDE DEF P
  <2> QED
    BY <2>1
<1>7. ASSUME a < d /\ b < d /\ c < d
      PROVE  \E i \in 1..4 : P(i)
  <2>1. P(4)
    BY <1>1, <1>2, <1>7
  <2> HIDE DEF P
  <2> QED
    BY <2>1
<1>8. \E i \in 1..4 : P(i)
  <2> HIDE DEF P
  <2> QED
    BY <1>3, <1>4, <1>5, <1>6, <1>7
<1>9. P(CHOOSE i \in 1..4 : P(i)) /\ (CHOOSE i \in 1..4 : P(i)) \in 1..4
  <2> HIDE DEF P
  <2> QED
    BY <1>8
<1> QED
  BY <1>9 DEF f

(* A count c, its sign s.                                                  *)
LEMMA SignedParts ==
  ASSUME NEW c \in Int, NEW s \in {-1, 1}, s * c \in {1, 2}
  PROVE  /\ sqrtf(Wholes(c * c - 1) + Unit) = (s * c) * Unit
         /\ ((s * c) * Unit) \div 2 = Halves(s * c)
         /\ \A x \in Int : Ratio(Wholes(c * x), 2 * ((s * c) * Unit)) = Halves(s * x)
<1>1. c \in {-2, -1, 1, 2}
  OBVIOUS
<1>2. (Wholes(c * c - 1) + Unit) * Unit = ((s * c) * Unit) * ((s * c) * Unit)
  <2>1. Wholes(c * c - 1) + Unit = (c * c) * Unit
    BY Parts DEF Wholes
  <2>2. c * c = (s * c) * (s * c)
    BY <1>1
  <2> QED
    BY <2>1, <2>2, Parts
<1>3. sqrtf(Wholes(c * c - 1) + Unit) = (s * c) * Unit
  <2>1. (s * c) * Unit \in 0..2 * Unit
    BY Parts
  <2> QED
    BY <1>2, <2>1, RootIs DEF sqrtf
<1>4. ((s * c) * Unit) \div 2 = Halves(s * c)
  <2>1. (s * c) * Unit = Halves(s * c) * 2 /\ Halves(s * c) \in Int
    BY Parts DEF Halves
  <2> QED
    BY <2>1, Multiple
<1>5. ASSUME NEW x \in Int
      PROVE  Ratio(Wholes(c * x), 2 * ((s * c) * Unit)) = Halves(s * x)
  <2>1. /\ Wholes(c * x) \in Int /\ 2 * ((s * c) * Unit) \in Int /\ Halves(s * x) \in Int
        /\ 2 * ((s * c) * Unit) # 0
    BY Parts DEF Wholes, Halves
  <2>2. Wholes(c * x) * Unit = Halves(s * x) * (2 * ((s * c) * Unit))
    <3>1. Half \in Int /\ Unit = Half * 2
      BY Parts
    <3>2. ((c * x) * (Half * 2)) * (Half * 2) = ((s * x) * Half) * (2 * ((s * c) * (Half * 2)))
      BY <1>1, <3>1
    <3> QED
      BY <3>1, <3>2 DEF Wholes, Halves
  <2> QED
    BY <2>1, <2>2, Quotient
<1> QED
  BY <1>3, <1>4, <1>5

(* QuaternionFromMatrix finds the attitude of a matrix, up to its sign.    *)
LEMMA FromMatrix ==
  ASSUME NEW n \in Counts, NEW M \in Matrices, Turns(n, M)
  PROVE  \E s \in {-1, 1} :
           QuaternionFromMatrix(InWholes(M))
             = Quaternion(Halves(s * n.x), Halves(s * n.y), Halves(s * n.z), Halves(s * n.w))
<1> DEFINE x == n.x
           y == n.y
           z == n.z
           w == n.w
           A == InWholes(M)
           a0 == M[0]
           a1 == M[1]
           a2 == M[2]
           a4 == M[4]
           a5 == M[5]
           a6 == M[6]
           a8 == M[8]
           a9 == M[9]
           a10 == M[10]
<1>1. /\ x \in Int /\ y \in Int /\ z \in Int /\ w \in Int
      /\ x * x + y * y + z * z + w * w = 4
  BY CountTypes
<1>2. /\ a0 \in Int /\ a1 \in Int /\ a2 \in Int /\ a4 \in Int /\ a5 \in Int
      /\ a6 \in Int /\ a8 \in Int /\ a9 \in Int /\ a10 \in Int
  BY MatrixTypes
<1>3. /\ A[0] = Wholes(a0) /\ A[1] = Wholes(a1) /\ A[2] = Wholes(a2)
      /\ A[4] = Wholes(a4) /\ A[5] = Wholes(a5) /\ A[6] = Wholes(a6)
      /\ A[8] = Wholes(a8) /\ A[9] = Wholes(a9) /\ A[10] = Wholes(a10)
  BY DEF InWholes
<1>4. /\ 4 * a0  = w * w + x * x - y * y - z * z
      /\ 4 * a5  = w * w - x * x + y * y - z * z
      /\ 4 * a10 = w * w - x * x - y * y + z * z
      /\ 4 * a1 = 2 * (x * y + w * z) /\ 4 * a4 = 2 * (x * y - w * z)
      /\ 4 * a6 = 2 * (y * z + w * x) /\ 4 * a9 = 2 * (y * z - w * x)
      /\ 4 * a8 = 2 * (x * z + w * y) /\ 4 * a2 = 2 * (x * z - w * y)
  BY DEF Turns
<1>5. n.x = x /\ n.y = y /\ n.z = z /\ n.w = w
  OBVIOUS
<1> HIDE DEF x, y, z, w, A, a0, a1, a2, a4, a5, a6, a8, a9, a10
<1>6. /\ a0 + a5 + a10 = w * w - 1 /\ a0 - a5 - a10 = x * x - 1
      /\ a5 - a0 - a10 = y * y - 1 /\ a10 - a0 - a5 = z * z - 1
      /\ a6 - a9 = w * x /\ a8 - a2 = w * y /\ a1 - a4 = w * z
      /\ a1 + a4 = x * y /\ a8 + a2 = x * z /\ a6 + a9 = y * z
  BY <1>1, <1>2, <1>4
<1>7. /\ A[0] + A[5] + A[10] = Wholes(w * w - 1) /\ A[0] - A[5] - A[10] = Wholes(x * x - 1)
      /\ A[5] - A[0] - A[10] = Wholes(y * y - 1) /\ A[10] - A[0] - A[5] = Wholes(z * z - 1)
      /\ A[6] - A[9] = Wholes(w * x) /\ A[8] - A[2] = Wholes(w * y) /\ A[1] - A[4] = Wholes(w * z)
      /\ A[1] + A[4] = Wholes(x * y) /\ A[8] + A[2] = Wholes(x * z) /\ A[6] + A[9] = Wholes(y * z)
  <2>1. /\ A[0] + A[5] + A[10] = Wholes(a0 + a5 + a10) /\ A[0] - A[5] - A[10] = Wholes(a0 - a5 - a10)
        /\ A[5] - A[0] - A[10] = Wholes(a5 - a0 - a10) /\ A[10] - A[0] - A[5] = Wholes(a10 - a0 - a5)
        /\ A[6] - A[9] = Wholes(a6 - a9) /\ A[8] - A[2] = Wholes(a8 - a2) /\ A[1] - A[4] = Wholes(a1 - a4)
        /\ A[1] + A[4] = Wholes(a1 + a4) /\ A[8] + A[2] = Wholes(a8 + a2) /\ A[6] + A[9] = Wholes(a6 + a9)
    BY <1>2, <1>3, Parts DEF Wholes
  <2> QED
    BY <1>6, <2>1
<1> DEFINE f == <<Wholes(w * w - 1), Wholes(x * x - 1), Wholes(y * y - 1), Wholes(z * z - 1)>>
           b == CHOOSE i \in 1..4 :
                   /\ \A j \in 1..4 : f[j] <= f[i]
                   /\ \A j \in 1..(i - 1) : f[j] < f[i]
           twice == sqrtf(f[b] + Unit)
           Other(d) == Ratio(d, 2 * twice)
           val == twice \div 2
<1>8. QuaternionFromMatrix(A) =
        CASE b = 1 -> Quaternion(Other(Wholes(w * x)), Other(Wholes(w * y)), Other(Wholes(w * z)), val)
          [] b = 2 -> Quaternion(val, Other(Wholes(x * y)), Other(Wholes(x * z)), Other(Wholes(w * x)))
          [] b = 3 -> Quaternion(Other(Wholes(x * y)), val, Other(Wholes(y * z)), Other(Wholes(w * y)))
          [] b = 4 -> Quaternion(Other(Wholes(x * z)), Other(Wholes(y * z)), val, Other(Wholes(w * z)))
  BY <1>7 DEF QuaternionFromMatrix
<1>9. /\ Wholes(w * w - 1) \in Int /\ Wholes(x * x - 1) \in Int
      /\ Wholes(y * y - 1) \in Int /\ Wholes(z * z - 1) \in Int
  BY <1>1, Parts DEF Wholes
<1>10. b \in 1..4 /\ \A j \in 1..4 : f[j] <= f[b]
  BY <1>9, FirstLargest
<1>11. f[1] = Wholes(w * w - 1) /\ f[2] = Wholes(x * x - 1) /\ f[3] = Wholes(y * y - 1) /\ f[4] = Wholes(z * z - 1)
  OBVIOUS
<1> HIDE DEF f, b
<1>12. \A i, j \in Int : Wholes(i * i - 1) <= Wholes(j * j - 1) => i * i <= j * j
  <2> SUFFICES ASSUME NEW i \in Int, NEW j \in Int, Wholes(i * i - 1) <= Wholes(j * j - 1)
               PROVE  i * i <= j * j
    OBVIOUS
  <2>1. (j * j - i * i) * Unit >= 0
    BY Parts DEF Wholes
  <2>2. j * j - i * i \in Int
    OBVIOUS
  <2>3. \A e \in Int : e * Unit >= 0 => e >= 0
    BY Parts
  <2>4. j * j - i * i >= 0
    BY <2>1, <2>2, <2>3
  <2> QED
    BY <2>4
<1>13. \A c \in Int : c * c >= 1 /\ c * c <= 4 => \E s \in {-1, 1} : s * c \in {1, 2}
  <2> SUFFICES ASSUME NEW c \in Int, c * c >= 1, c * c <= 4
               PROVE  \E s \in {-1, 1} : s * c \in {1, 2}
    OBVIOUS
  <2>1. c \in {-2, -1, 1, 2}
    OBVIOUS
  <2>2. CASE c \in {1, 2}
    BY <2>2
  <2>3. CASE c \in {-2, -1}
    <3>1. (-1) * c \in {1, 2}
      BY <2>3
    <3> QED
      BY <3>1
  <2> QED
    BY <2>1, <2>2, <2>3
<1> HIDE DEF twice, Other, val
<1>14. CASE b = 1
  <2>1. x * x <= w * w /\ y * y <= w * w /\ z * z <= w * w
    BY <1>1, <1>10, <1>11, <1>12, <1>14
  <2>2. PICK s \in {-1, 1} : s * w \in {1, 2}
    <3>1. w * w >= 1 /\ w * w <= 4
      BY <1>1, <2>1
    <3> QED
      BY <1>1, <1>13, <3>1
  <2>3. twice = (s * w) * Unit /\ val = Halves(s * w)
    BY <1>1, <1>11, <1>14, <2>2, SignedParts DEF twice, val
  <2>4. \A e \in Int : Other(Wholes(w * e)) = Halves(s * e)
    BY <1>1, <2>2, <2>3, SignedParts DEF Other
  <2>5. QuaternionFromMatrix(A) = Quaternion(Halves(s * x), Halves(s * y), Halves(s * z), Halves(s * w))
    BY <1>1, <1>8, <1>14, <2>3, <2>4
  <2> QED
    BY <1>5, <2>5 DEF A
<1>15. CASE b = 2
  <2>1. w * w <= x * x /\ y * y <= x * x /\ z * z <= x * x
    BY <1>1, <1>10, <1>11, <1>12, <1>15
  <2>2. PICK s \in {-1, 1} : s * x \in {1, 2}
    <3>1. x * x >= 1 /\ x * x <= 4
      BY <1>1, <2>1
    <3> QED
      BY <1>1, <1>13, <3>1
  <2>3. twice = (s * x) * Unit /\ val = Halves(s * x)
    BY <1>1, <1>11, <1>15, <2>2, SignedParts DEF twice, val
  <2>4. \A e \in Int : Other(Wholes(x * e)) = Halves(s * e)
    BY <1>1, <2>2, <2>3, SignedParts DEF Other
  <2>5. w * x = x * w
    BY <1>1
  <2>6. QuaternionFromMatrix(A) = Quaternion(Halves(s * x), Halves(s * y), Halves(s * z), Halves(s * w))
    BY <1>1, <1>8, <1>15, <2>3, <2>4, <2>5
  <2> QED
    BY <1>5, <2>6 DEF A
<1>16. CASE b = 3
  <2>1. w * w <= y * y /\ x * x <= y * y /\ z * z <= y * y
    BY <1>1, <1>10, <1>11, <1>12, <1>16
  <2>2. PICK s \in {-1, 1} : s * y \in {1, 2}
    <3>1. y * y >= 1 /\ y * y <= 4
      BY <1>1, <2>1
    <3> QED
      BY <1>1, <1>13, <3>1
  <2>3. twice = (s * y) * Unit /\ val = Halves(s * y)
    BY <1>1, <1>11, <1>16, <2>2, SignedParts DEF twice, val
  <2>4. \A e \in Int : Other(Wholes(y * e)) = Halves(s * e)
    BY <1>1, <2>2, <2>3, SignedParts DEF Other
  <2>5. w * y = y * w /\ x * y = y * x
    BY <1>1
  <2>6. QuaternionFromMatrix(A) = Quaternion(Halves(s * x), Halves(s * y), Halves(s * z), Halves(s * w))
    BY <1>1, <1>8, <1>16, <2>3, <2>4, <2>5
  <2> QED
    BY <1>5, <2>6 DEF A
<1>17. CASE b = 4
  <2>1. w * w <= z * z /\ x * x <= z * z /\ y * y <= z * z
    BY <1>1, <1>10, <1>11, <1>12, <1>17
  <2>2. PICK s \in {-1, 1} : s * z \in {1, 2}
    <3>1. z * z >= 1 /\ z * z <= 4
      BY <1>1, <2>1
    <3> QED
      BY <1>1, <1>13, <3>1
  <2>3. twice = (s * z) * Unit /\ val = Halves(s * z)
    BY <1>1, <1>11, <1>17, <2>2, SignedParts DEF twice, val
  <2>4. \A e \in Int : Other(Wholes(z * e)) = Halves(s * e)
    BY <1>1, <2>2, <2>3, SignedParts DEF Other
  <2>5. w * z = z * w /\ x * z = z * x /\ y * z = z * y
    BY <1>1
  <2>6. QuaternionFromMatrix(A) = Quaternion(Halves(s * x), Halves(s * y), Halves(s * z), Halves(s * w))
    BY <1>1, <1>8, <1>17, <2>3, <2>4, <2>5
  <2> QED
    BY <1>5, <2>6 DEF A
<1> QED
  BY <1>10, <1>14, <1>15, <1>16, <1>17

(* Rereading the quaternion.                                               *)
LEMMA RereadRigid ==
  ASSUME Rigid, Reread
  PROVE  Rigid'
<1>1. PICK n \in Counts, M \in Matrices : q = Attitude(n) /\ m = InWholes(M) /\ Turns(n, M)
  BY DEF Rigid
<1>2. PICK s \in {-1, 1} :
        QuaternionFromMatrix(m)
          = Quaternion(Halves(s * n.x), Halves(s * n.y), Halves(s * n.z), Halves(s * n.w))
  BY <1>1, FromMatrix
<1> DEFINE k == Quaternion(s * n.x, s * n.y, s * n.z, s * n.w)
           x == n.x
           y == n.y
           z == n.z
           w == n.w
<1>3. x \in Int /\ y \in Int /\ z \in Int /\ w \in Int /\ x * x + y * y + z * z + w * w = 4
  BY CountTypes
<1>4. /\ k = Quaternion(s * x, s * y, s * z, s * w)
      /\ k.x = s * x /\ k.y = s * y /\ k.z = s * z /\ k.w = s * w
  BY DEF Quaternion
<1>5. q' = Attitude(k) /\ m' = InWholes(M)
  BY <1>1, <1>2, <1>4 DEF Reread, Attitude
<1>6. n.x = x /\ n.y = y /\ n.z = z /\ n.w = w
  OBVIOUS
<1> HIDE DEF k, x, y, z, w
<1>7. k \in Counts
  <2>1. (s * x) * (s * x) + (s * y) * (s * y) + (s * z) * (s * z) + (s * w) * (s * w) = 4
    BY <1>3
  <2>2. s * x \in Int /\ s * y \in Int /\ s * z \in Int /\ s * w \in Int
    BY <1>3
  <2> QED
    BY <1>4, <2>1, <2>2, CountMade
<1>8. Turns(k, M)
  <2>1. \A i, j \in Int : (s * i) * (s * j) = i * j
    <3> SUFFICES ASSUME NEW i \in Int, NEW j \in Int
                 PROVE  (s * i) * (s * j) = i * j
      OBVIOUS
    <3>1. CASE s = 1
      BY <3>1
    <3>2. CASE s = -1
      BY <3>2
    <3> QED
      BY <3>1, <3>2
  <2>2. /\ (s * x) * (s * x) = x * x /\ (s * y) * (s * y) = y * y
        /\ (s * z) * (s * z) = z * z /\ (s * w) * (s * w) = w * w
        /\ (s * x) * (s * y) = x * y /\ (s * y) * (s * z) = y * z /\ (s * x) * (s * z) = x * z
        /\ (s * w) * (s * x) = w * x /\ (s * w) * (s * y) = w * y /\ (s * w) * (s * z) = w * z
    BY <1>3, <2>1
  <2> QED
    BY <1>1, <1>4, <1>6, <2>2 DEF Turns
<1> QED
  BY <1>5, <1>7, <1>8 DEF Rigid

(* Whatever the motions, quaternion and matrix hold the same attitude,     *)
(* without any rounding: no step of QuaternionMultiply, MatrixMultiply,    *)
(* the inverses or QuaternionFromMatrix lets the two drift apart.          *)
THEOREM RigidHolds == Spec => []Rigid
<1>1. Init => Rigid
  BY InitRigid
<1>2. Rigid /\ [Next]_vars => Rigid'
  <2> SUFFICES ASSUME Rigid, [Next]_vars
               PROVE  Rigid'
    OBVIOUS
  <2>1. ASSUME NEW r \in Attitudes, Swing(r) PROVE Rigid'
    BY <2>1, SwingRigid
  <2>2. ASSUME NEW r \in Attitudes, Turn(r) PROVE Rigid'
    BY <2>2, TurnRigid
  <2>3. ASSUME NEW v \in Steps, Move(v) PROVE Rigid'
    BY <2>3, MoveRigid
  <2>4. CASE Undo
    BY <2>4, UndoRigid
  <2>5. CASE Reread
    BY <2>5, RereadRigid
  <2>6. CASE UNCHANGED vars
    BY <2>6 DEF vars, Rigid
  <2> QED
    BY <2>1, <2>2, <2>3, <2>4, <2>5, <2>6 DEF Next
<1> QED
  BY <1>1, <1>2, PTL DEF Spec
-----------------------------------------------------------------------------
(* What the camera sees.                                                   *)

(* A vector of whole numbers.                                              *)
WholeVector(x, y, z) == Vector(Wholes(x), Wholes(y), Wholes(z))

(* Vector3CrossProduct on whole numbers.                                   *)
LEMMA CrossWholes ==
  \A a, b, c, e, f, g \in Int :
    Vector3CrossProduct(WholeVector(a, b, c), WholeVector(e, f, g))
      = WholeVector(b * g - c * f, c * e - a * g, a * f - b * e)
<1> SUFFICES ASSUME NEW a \in Int, NEW b \in Int, NEW c \in Int, NEW e \in Int, NEW f \in Int, NEW g \in Int
             PROVE  Vector3CrossProduct(WholeVector(a, b, c), WholeVector(e, f, g))
                 = WholeVector(b * g - c * f, c * e - a * g, a * f - b * e)
  OBVIOUS
<1>1. /\ b * g \in Int /\ c * f \in Int /\ c * e \in Int
      /\ a * g \in Int /\ a * f \in Int /\ b * e \in Int
  OBVIOUS
<1>2. Vector3CrossProduct(WholeVector(a, b, c), WholeVector(e, f, g))
        = Vector(Wholes(b) \otimes Wholes(g) - Wholes(c) \otimes Wholes(f),
                 Wholes(c) \otimes Wholes(e) - Wholes(a) \otimes Wholes(g),
                 Wholes(a) \otimes Wholes(f) - Wholes(b) \otimes Wholes(e))
  BY DEF Vector3CrossProduct, WholeVector, Vector
<1>3. /\ Wholes(b) \otimes Wholes(g) = Wholes(b * g) /\ Wholes(c) \otimes Wholes(f) = Wholes(c * f)
      /\ Wholes(c) \otimes Wholes(e) = Wholes(c * e) /\ Wholes(a) \otimes Wholes(g) = Wholes(a * g)
      /\ Wholes(a) \otimes Wholes(f) = Wholes(a * f) /\ Wholes(b) \otimes Wholes(e) = Wholes(b * e)
  BY WholeByWhole, Zenon
<1>4. /\ Wholes(b * g) - Wholes(c * f) = Wholes(b * g - c * f)
      /\ Wholes(c * e) - Wholes(a * g) = Wholes(c * e - a * g)
      /\ Wholes(a * f) - Wholes(b * e) = Wholes(a * f - b * e)
  BY ONLY <1>1, WholeSums, Zenon
<1> QED
  BY <1>2, <1>3, <1>4, Zenon DEF WholeVector

(* The dot product on whole numbers.                                       *)
LEMMA DotWholes ==
  \A a, b, c, e, f, g \in Int :
    Dot(WholeVector(a, b, c), WholeVector(e, f, g)) = Wholes(a * e + b * f + c * g)
<1> SUFFICES ASSUME NEW a \in Int, NEW b \in Int, NEW c \in Int, NEW e \in Int, NEW f \in Int, NEW g \in Int
             PROVE  Dot(WholeVector(a, b, c), WholeVector(e, f, g)) = Wholes(a * e + b * f + c * g)
  OBVIOUS
<1>1. Dot(WholeVector(a, b, c), WholeVector(e, f, g))
        = Wholes(a) \otimes Wholes(e) + Wholes(b) \otimes Wholes(f) + Wholes(c) \otimes Wholes(g)
  BY DEF Dot, WholeVector, Vector
<1>2. /\ Wholes(a) \otimes Wholes(e) = a * Wholes(e) /\ Wholes(b) \otimes Wholes(f) = b * Wholes(f)
      /\ Wholes(c) \otimes Wholes(g) = c * Wholes(g)
  BY WholeTimes
<1> QED
  BY <1>1, <1>2, Parts DEF Wholes

(* The root of 1.                                                          *)
LEMMA RootOfUnit == sqrtf(Unit) = Unit /\ Root(Unit * Unit) = Unit
<1>1. Unit \in 0..2 * Unit
  BY Parts
<1> QED
  BY <1>1, RootIs DEF sqrtf

(* Divided by 1.                                                           *)
LEMMA OverUnit == \A c \in Int : Ratio(c, Unit) = c
BY Quotient, Parts

(* Vector3Normalize leaves a vector of length 1.                           *)
LEMMA UnitVectorKept ==
  ASSUME NEW a \in Int, NEW b \in Int, NEW c \in Int, a * a + b * b + c * c = 1
  PROVE  Vector3Normalize(WholeVector(a, b, c)) = WholeVector(a, b, c)
<1>1. Length(WholeVector(a, b, c)) = Unit
  <2>1. Dot(WholeVector(a, b, c), WholeVector(a, b, c)) = Wholes(a * a + b * b + c * c)
    BY DotWholes
  <2>2. Wholes(a * a + b * b + c * c) = Unit
    BY HalvesKnown, Zenon
  <2> QED
    BY <2>1, <2>2, RootOfUnit, Zenon DEF Length
<1>2. Wholes(a) \in Int /\ Wholes(b) \in Int /\ Wholes(c) \in Int
  BY WholeTimes
<1>3. Unit # 0
  BY Parts
<1> QED
  BY <1>1, <1>2, <1>3, OverUnit DEF Vector3Normalize, WholeVector, Vector

(* Vector3Transform by a matrix of whole numbers.                          *)
LEMMA TransformEntries ==
  ASSUME NEW M \in Matrices, NEW v, v.x \in Int, v.y \in Int, v.z \in Int
  PROVE  Vector3Transform(v, InWholes(M))
           = Vector(M[0] * v.x + M[4] * v.y + M[8] * v.z + Wholes(M[12]),
                    M[1] * v.x + M[5] * v.y + M[9] * v.z + Wholes(M[13]),
                    M[2] * v.x + M[6] * v.y + M[10] * v.z + Wholes(M[14]))
<1>1. Vector3Transform(v, InWholes(M))
        = Vector(Wholes(M[0]) \otimes v.x + Wholes(M[4]) \otimes v.y + Wholes(M[8]) \otimes v.z + Wholes(M[12]),
                 Wholes(M[1]) \otimes v.x + Wholes(M[5]) \otimes v.y + Wholes(M[9]) \otimes v.z + Wholes(M[13]),
                 Wholes(M[2]) \otimes v.x + Wholes(M[6]) \otimes v.y + Wholes(M[10]) \otimes v.z + Wholes(M[14]))
  BY DEF Vector3Transform, InWholes
<1>2. \A i \in {0, 1, 2, 4, 5, 6, 8, 9, 10} : M[i] \in Int
  BY MatrixTypes
<1>3. /\ Wholes(M[0]) \otimes v.x = M[0] * v.x /\ Wholes(M[4]) \otimes v.y = M[4] * v.y
      /\ Wholes(M[8]) \otimes v.z = M[8] * v.z
      /\ Wholes(M[1]) \otimes v.x = M[1] * v.x /\ Wholes(M[5]) \otimes v.y = M[5] * v.y
      /\ Wholes(M[9]) \otimes v.z = M[9] * v.z
      /\ Wholes(M[2]) \otimes v.x = M[2] * v.x /\ Wholes(M[6]) \otimes v.y = M[6] * v.y
      /\ Wholes(M[10]) \otimes v.z = M[10] * v.z
  BY <1>2, WholeTimes
<1> QED
  BY <1>1, <1>3

(* MatrixLookAt from the body: its forward axis, the cross products of it  *)
(* with up, and the dot products with the eye make the reverse of the      *)
(* matrix.                                                                 *)
LEMMA CameraReversed ==
  ASSUME NEW M \in Matrices, Rotates(M), m = InWholes(M)
  PROVE  Camera = InWholes(Reversed(M))
<1> DEFINE a0 == M[0]
           a1 == M[1]
           a2 == M[2]
           a4 == M[4]
           a5 == M[5]
           a6 == M[6]
           a8 == M[8]
           a9 == M[9]
           a10 == M[10]
           t0 == M[12]
           t1 == M[13]
           t2 == M[14]
           eye == WholeVector(t0, t1, t2)
           target == WholeVector(t0 - a8, t1 - a9, t2 - a10)
           top == WholeVector(t0 + a4, t1 + a5, t2 + a6)
           vx == WholeVector(a0, a1, a2)
           vy == WholeVector(a4, a5, a6)
           vz == WholeVector(a8, a9, a10)
<1>1. /\ a0 \in Int /\ a1 \in Int /\ a2 \in Int /\ a4 \in Int /\ a5 \in Int /\ a6 \in Int
      /\ a8 \in Int /\ a9 \in Int /\ a10 \in Int /\ t0 \in Int /\ t1 \in Int /\ t2 \in Int
  BY MatrixTypes
<1>2. /\ a5 * a10 - a6 * a9 = a0 /\ a6 * a8 - a4 * a10 = a1 /\ a4 * a9 - a5 * a8 = a2
      /\ a2 * a9 - a1 * a10 = a4 /\ a0 * a10 - a2 * a8 = a5 /\ a1 * a8 - a0 * a9 = a6
      /\ a0 * a0 + a1 * a1 + a2 * a2 = 1 /\ a8 * a8 + a9 * a9 + a10 * a10 = 1
  BY DEF Rotates
<1>3. Place(m) = eye
  BY DEF Place, InWholes, WholeVector
<1> DEFINE up == Vector3Transform(Vector(0, Unit, 0), m)
           ahead == Vector3Transform(Vector(0, 0, -Unit), m)
<1>4. up = Vector(a0 * 0 + a4 * Unit + a8 * 0 + Wholes(t0), a1 * 0 + a5 * Unit + a9 * 0 + Wholes(t1),
                  a2 * 0 + a6 * Unit + a10 * 0 + Wholes(t2))
  BY TransformEntries, Parts DEF Vector
<1>5. ahead = Vector(a0 * 0 + a4 * 0 + a8 * (-Unit) + Wholes(t0), a1 * 0 + a5 * 0 + a9 * (-Unit) + Wholes(t1),
                     a2 * 0 + a6 * 0 + a10 * (-Unit) + Wholes(t2))
  <2>1. -Unit \in Int
    BY Parts
  <2> QED
    BY <2>1, TransformEntries DEF Vector
<1>6. Camera = MatrixLookAt(Place(m), ahead, Minus(up, Place(m)))
  BY DEF Camera
<1> HIDE DEF a0, a1, a2, a4, a5, a6, a8, a9, a10, t0, t1, t2, up, ahead
<1>7. ahead = target
  <2>1. /\ a0 * 0 + a4 * 0 + a8 * (-Unit) + Wholes(t0) = Wholes(t0 - a8)
        /\ a1 * 0 + a5 * 0 + a9 * (-Unit) + Wholes(t1) = Wholes(t1 - a9)
        /\ a2 * 0 + a6 * 0 + a10 * (-Unit) + Wholes(t2) = Wholes(t2 - a10)
    BY <1>1, Parts DEF Wholes
  <2> QED
    BY <1>5, <2>1 DEF WholeVector
<1>8. Minus(up, eye) = vy
  <2>1. /\ (a0 * 0 + a4 * Unit + a8 * 0 + Wholes(t0)) - Wholes(t0) = Wholes(a4)
        /\ (a1 * 0 + a5 * Unit + a9 * 0 + Wholes(t1)) - Wholes(t1) = Wholes(a5)
        /\ (a2 * 0 + a6 * Unit + a10 * 0 + Wholes(t2)) - Wholes(t2) = Wholes(a6)
    BY <1>1, Parts DEF Wholes
  <2>2. /\ up.x = a0 * 0 + a4 * Unit + a8 * 0 + Wholes(t0)
        /\ up.y = a1 * 0 + a5 * Unit + a9 * 0 + Wholes(t1)
        /\ up.z = a2 * 0 + a6 * Unit + a10 * 0 + Wholes(t2)
    BY <1>4, Zenon DEF Vector
  <2>3. eye.x = Wholes(t0) /\ eye.y = Wholes(t1) /\ eye.z = Wholes(t2)
    BY Zenon DEF WholeVector, Vector
  <2> HIDE DEF eye
  <2>4. up.x - eye.x = Wholes(a4) /\ up.y - eye.y = Wholes(a5) /\ up.z - eye.z = Wholes(a6)
    BY ONLY <2>1, <2>2, <2>3, Zenon
  <2> QED
    BY <2>4, Zenon DEF Minus, WholeVector, eye
<1>9. Minus(eye, target) = vz
  <2>1. /\ Wholes(t0) - Wholes(t0 - a8) = Wholes(a8) /\ Wholes(t1) - Wholes(t1 - a9) = Wholes(a9)
        /\ Wholes(t2) - Wholes(t2 - a10) = Wholes(a10)
    BY <1>1, Parts DEF Wholes
  <2> QED
    BY <2>1 DEF Minus, Vector, WholeVector
<1>10. Vector3Normalize(vz) = vz /\ Vector3Normalize(vx) = vx
  BY <1>1, <1>2, UnitVectorKept
<1>11. Vector3CrossProduct(vy, vz) = vx
  <2>1. Vector3CrossProduct(vy, vz) = WholeVector(a5 * a10 - a6 * a9, a6 * a8 - a4 * a10, a4 * a9 - a5 * a8)
    BY ONLY <1>1, CrossWholes, SMTT(60)
  <2> QED
    BY <1>2, <2>1, Zenon
<1>12. Vector3CrossProduct(vz, vx) = vy
  <2>1. Vector3CrossProduct(vz, vx) = WholeVector(a9 * a2 - a10 * a1, a10 * a0 - a8 * a2, a8 * a1 - a9 * a0)
    BY ONLY <1>1, CrossWholes, SMTT(60)
  <2>2. a9 * a2 - a10 * a1 = a4 /\ a10 * a0 - a8 * a2 = a5 /\ a8 * a1 - a9 * a0 = a6
    BY <1>1, <1>2
  <2> QED
    BY <2>1, <2>2, Zenon
<1> DEFINE dx == t0 * a0 + t1 * a1 + t2 * a2
           dy == t0 * a4 + t1 * a5 + t2 * a6
           dz == t0 * a8 + t1 * a9 + t2 * a10
<1>13. Dot(vx, eye) = Wholes(dx) /\ Dot(vy, eye) = Wholes(dy) /\ Dot(vz, eye) = Wholes(dz)
  <2>1. /\ a0 * t0 + a1 * t1 + a2 * t2 = dx /\ a4 * t0 + a5 * t1 + a6 * t2 = dy
        /\ a8 * t0 + a9 * t1 + a10 * t2 = dz
    BY <1>1
  <2>2. Dot(vx, eye) = Wholes(a0 * t0 + a1 * t1 + a2 * t2)
    BY ONLY <1>1, DotWholes, SMTT(60)
  <2>3. Dot(vy, eye) = Wholes(a4 * t0 + a5 * t1 + a6 * t2)
    BY ONLY <1>1, DotWholes, SMTT(60)
  <2>4. Dot(vz, eye) = Wholes(a8 * t0 + a9 * t1 + a10 * t2)
    BY ONLY <1>1, DotWholes, SMTT(60)
  <2> QED
    BY <2>1, <2>2, <2>3, <2>4, Zenon
<1>14. dx \in Int /\ dy \in Int /\ dz \in Int
  BY <1>1
<1> DEFINE e == << Wholes(a0), Wholes(a1), Wholes(a2), -Wholes(dx),
                   Wholes(a4), Wholes(a5), Wholes(a6), -Wholes(dy),
                   Wholes(a8), Wholes(a9), Wholes(a10), -Wholes(dz), 0, 0, 0, Unit >>
<1>15. Camera = Rows(e)
  <2>1. /\ vx.x = Wholes(a0) /\ vx.y = Wholes(a1) /\ vx.z = Wholes(a2)
        /\ vy.x = Wholes(a4) /\ vy.y = Wholes(a5) /\ vy.z = Wholes(a6)
        /\ vz.x = Wholes(a8) /\ vz.y = Wholes(a9) /\ vz.z = Wholes(a10)
    BY DEF WholeVector, Vector
  <2>2. Camera = MatrixLookAt(eye, target, vy)
    BY <1>3, <1>6, <1>7, <1>8
  <2> HIDE DEF vx, vy, vz, eye, target, dx, dy, dz
  <2> QED
    BY <1>9, <1>10, <1>11, <1>12, <1>13, <2>1, <2>2 DEF MatrixLookAt
<1>16. /\ Rows(e) = [i \in 0..15 |-> Rows(e)[i]]
       /\ Rows(e)[0] = Wholes(a0) /\ Rows(e)[1] = Wholes(a4) /\ Rows(e)[2] = Wholes(a8) /\ Rows(e)[3] = 0
       /\ Rows(e)[4] = Wholes(a1) /\ Rows(e)[5] = Wholes(a5) /\ Rows(e)[6] = Wholes(a9) /\ Rows(e)[7] = 0
       /\ Rows(e)[8] = Wholes(a2) /\ Rows(e)[9] = Wholes(a6) /\ Rows(e)[10] = Wholes(a10) /\ Rows(e)[11] = 0
       /\ Rows(e)[12] = -Wholes(dx) /\ Rows(e)[13] = -Wholes(dy) /\ Rows(e)[14] = -Wholes(dz)
       /\ Rows(e)[15] = Unit
  <2> HIDE DEF dx, dy, dz
  <2> QED
    BY DEF Rows
<1>17. -Wholes(dx) = Wholes(-dx) /\ -Wholes(dy) = Wholes(-dy) /\ -Wholes(dz) = Wholes(-dz)
  BY <1>14, Parts DEF Wholes
<1>18. /\ Reversed(M)[0] = a0 /\ Reversed(M)[1] = a4 /\ Reversed(M)[2] = a8 /\ Reversed(M)[3] = 0
       /\ Reversed(M)[4] = a1 /\ Reversed(M)[5] = a5 /\ Reversed(M)[6] = a9 /\ Reversed(M)[7] = 0
       /\ Reversed(M)[8] = a2 /\ Reversed(M)[9] = a6 /\ Reversed(M)[10] = a10 /\ Reversed(M)[11] = 0
       /\ Reversed(M)[12] = -dx /\ Reversed(M)[13] = -dy /\ Reversed(M)[14] = -dz /\ Reversed(M)[15] = 1
  BY ReversedEntries DEF a0, a1, a2, a4, a5, a6, a8, a9, a10, t0, t1, t2
<1> HIDE DEF e, dx, dy, dz
<1>19. \A i \in 0..15 : Rows(e)[i] = Wholes(Reversed(M)[i])
  BY <1>16, <1>17, <1>18, HalvesKnown
<1> QED
  BY <1>15, <1>16, <1>19 DEF InWholes

(* The matrix of the body is a rotation and a place.                       *)
LEMMA RigidRotates ==
  ASSUME Rigid
  PROVE  \E n \in Counts, M \in Matrices :
           q = Attitude(n) /\ m = InWholes(M) /\ Turns(n, M) /\ Rotates(M)
BY TurnsRotates DEF Rigid

(* MatrixLookAt and MatrixInvert are both the reverse.                     *)
LEMMA RigidViewUndoes ==
  ASSUME Rigid
  PROVE  ViewUndoes
<1>1. PICK M \in Matrices : m = InWholes(M) /\ Rotates(M)
  BY RigidRotates
<1> QED
  BY <1>1, CameraReversed, InvertRotates DEF ViewUndoes

(* Vector3RotateByQuaternion multiplies by the entries of the matrix.      *)
LEMMA RigidPointsAgree ==
  ASSUME Rigid
  PROVE  PointsAgree
<1>1. PICK n \in Counts, M \in Matrices : q = Attitude(n) /\ m = InWholes(M) /\ Turns(n, M)
  BY RigidRotates
<1> SUFFICES ASSUME NEW p \in Points
             PROVE  LET r == Vector3RotateByQuaternion(p, q)
                    IN  Vector3Transform(p, m) = Vector(r.x + m[12], r.y + m[13], r.z + m[14])
  BY DEF PointsAgree
<1> DEFINE x == n.x
           y == n.y
           z == n.z
           w == n.w
           a0 == M[0]
           a1 == M[1]
           a2 == M[2]
           a4 == M[4]
           a5 == M[5]
           a6 == M[6]
           a8 == M[8]
           a9 == M[9]
           a10 == M[10]
           r == Vector3RotateByQuaternion(p, q)
<1>2. p.x \in Int /\ p.y \in Int /\ p.z \in Int
  BY Parts DEF Points
<1>3. /\ x \in Int /\ y \in Int /\ z \in Int /\ w \in Int
      /\ a0 \in Int /\ a1 \in Int /\ a2 \in Int /\ a4 \in Int /\ a5 \in Int /\ a6 \in Int
      /\ a8 \in Int /\ a9 \in Int /\ a10 \in Int
  BY CountTypes, MatrixTypes
<1>4. /\ 4 * a0  = w * w + x * x - y * y - z * z
      /\ 4 * a5  = w * w - x * x + y * y - z * z
      /\ 4 * a10 = w * w - x * x - y * y + z * z
      /\ 4 * a1 = 2 * (x * y + w * z) /\ 4 * a4 = 2 * (x * y - w * z)
      /\ 4 * a6 = 2 * (y * z + w * x) /\ 4 * a9 = 2 * (y * z - w * x)
      /\ 4 * a8 = 2 * (x * z + w * y) /\ 4 * a2 = 2 * (x * z - w * y)
  BY <1>1 DEF Turns
<1>5. q.x = Halves(x) /\ q.y = Halves(y) /\ q.z = Halves(z) /\ q.w = Halves(w)
  BY <1>1 DEF Attitude, Quaternion
<1>6. Vector3Transform(p, m)
        = Vector(a0 * p.x + a4 * p.y + a8 * p.z + m[12], a1 * p.x + a5 * p.y + a9 * p.z + m[13],
                 a2 * p.x + a6 * p.y + a10 * p.z + m[14])
  BY <1>1, <1>2, TransformEntries DEF InWholes
<1> HIDE DEF x, y, z, w, a0, a1, a2, a4, a5, a6, a8, a9, a10
<1> DEFINE xx == Quarters(x * x)
           yy == Quarters(y * y)
           zz == Quarters(z * z)
           ww == Quarters(w * w)
           xy == 2 * Quarters(x * y)
           xz == 2 * Quarters(x * z)
           yz == 2 * Quarters(y * z)
           wx == 2 * Quarters(w * x)
           wy == 2 * Quarters(w * y)
           wz == 2 * Quarters(w * z)
<1>7. r = Vector(p.x \otimes (xx + ww - yy - zz) + p.y \otimes (xy - wz) + p.z \otimes (xz + wy),
                 p.x \otimes (wz + xy) + p.y \otimes (ww - xx + yy - zz) + p.z \otimes (yz - wx),
                 p.x \otimes (xz - wy) + p.y \otimes (wx + yz) + p.z \otimes (ww - xx - yy + zz))
  BY <1>3, <1>5, HalfTimes DEF Vector3RotateByQuaternion
<1>8. \A k \in Int : Quarters(4 * k) = Wholes(k)
  BY Parts DEF Quarters, Wholes
<1>9. /\ xx + ww - yy - zz = Wholes(a0) /\ xy - wz = Wholes(a4) /\ xz + wy = Wholes(a8)
      /\ wz + xy = Wholes(a1) /\ ww - xx + yy - zz = Wholes(a5) /\ yz - wx = Wholes(a9)
      /\ xz - wy = Wholes(a2) /\ wx + yz = Wholes(a6) /\ ww - xx - yy + zz = Wholes(a10)
  <2>1. /\ xx + ww - yy - zz = Quarters(w * w + x * x - y * y - z * z)
        /\ ww - xx + yy - zz = Quarters(w * w - x * x + y * y - z * z)
        /\ ww - xx - yy + zz = Quarters(w * w - x * x - y * y + z * z)
        /\ wz + xy = Quarters(2 * (x * y + w * z)) /\ xy - wz = Quarters(2 * (x * y - w * z))
        /\ wx + yz = Quarters(2 * (y * z + w * x)) /\ yz - wx = Quarters(2 * (y * z - w * x))
        /\ xz + wy = Quarters(2 * (x * z + w * y)) /\ xz - wy = Quarters(2 * (x * z - w * y))
    BY <1>3, Parts DEF Quarters
  <2>2. /\ Quarters(4 * a0) = Wholes(a0) /\ Quarters(4 * a1) = Wholes(a1) /\ Quarters(4 * a2) = Wholes(a2)
        /\ Quarters(4 * a4) = Wholes(a4) /\ Quarters(4 * a5) = Wholes(a5) /\ Quarters(4 * a6) = Wholes(a6)
        /\ Quarters(4 * a8) = Wholes(a8) /\ Quarters(4 * a9) = Wholes(a9) /\ Quarters(4 * a10) = Wholes(a10)
    BY <1>3, <1>8
  <2> QED
    BY <1>4, <2>1, <2>2
<1> HIDE DEF r, xx, yy, zz, ww, xy, xz, yz, wx, wy, wz
<1>10. r = Vector(p.x \otimes Wholes(a0) + p.y \otimes Wholes(a4) + p.z \otimes Wholes(a8),
                  p.x \otimes Wholes(a1) + p.y \otimes Wholes(a5) + p.z \otimes Wholes(a9),
                  p.x \otimes Wholes(a2) + p.y \otimes Wholes(a6) + p.z \otimes Wholes(a10))
  BY <1>7, <1>9
<1>11. /\ p.x \otimes Wholes(a0) = a0 * p.x /\ p.y \otimes Wholes(a4) = a4 * p.y /\ p.z \otimes Wholes(a8) = a8 * p.z
       /\ p.x \otimes Wholes(a1) = a1 * p.x /\ p.y \otimes Wholes(a5) = a5 * p.y /\ p.z \otimes Wholes(a9) = a9 * p.z
       /\ p.x \otimes Wholes(a2) = a2 * p.x /\ p.y \otimes Wholes(a6) = a6 * p.y /\ p.z \otimes Wholes(a10) = a10 * p.z
  BY <1>2, <1>3, WholeTimes
<1>12. /\ r.x = a0 * p.x + a4 * p.y + a8 * p.z /\ r.y = a1 * p.x + a5 * p.y + a9 * p.z
       /\ r.z = a2 * p.x + a6 * p.y + a10 * p.z
  BY <1>10, <1>11 DEF Vector
<1> QED
  BY <1>6, <1>12 DEF r
-----------------------------------------------------------------------------
(* Projections: column 0 any numbers, the others wholes.                   *)

(* A matrix times a projection, in which column 0 need not be whole.       *)
Mixed(I) == [i \in 0..15 |-> IF i % 4 = 0 THEN I[i] ELSE Wholes(I[i])]

(* What MatrixFrustum and MatrixOrtho have in common: m0, m10, m14, m11,   *)
(* m15, and 1 for m5.                                                      *)
Lens(a, c, d, e, f) ==
  [i \in 0..15 |-> << a, 0, 0, 0, 0, 1, 0, 0, 0, 0, c, e, 0, 0, d, f >>[i + 1]]

(* A lens is integers.                                                     *)
LEMMA LensTypes ==
  ASSUME NEW a \in Int, NEW c \in Int, NEW d \in Int, NEW e \in Int, NEW f \in Int
  PROVE  Lens(a, c, d, e, f) \in Matrices
<1> DEFINE L == Lens(a, c, d, e, f)
<1>1. /\ L[0] = a /\ L[1] = 0 /\ L[2] = 0 /\ L[3] = 0 /\ L[4] = 0 /\ L[5] = 1 /\ L[6] = 0 /\ L[7] = 0
      /\ L[8] = 0 /\ L[9] = 0 /\ L[10] = c /\ L[11] = e
      /\ L[12] = 0 /\ L[13] = 0 /\ L[14] = d /\ L[15] = f
  BY DEF Lens
<1>2. \A i \in 0..15 : L[i] \in Int
  BY <1>1
<1> QED
  BY <1>2 DEF Matrices, Lens

(* MatrixMultiply with whole numbers on the left.                          *)
LEMMA MixedTimes ==
  ASSUME NEW A \in Matrices, NEW B \in Matrices
  PROVE  MatrixMultiply(InWholes(A), Mixed(B)) = Mixed(Composed(A, B))
<1> SUFFICES ASSUME NEW i \in 0..15
             PROVE  MatrixMultiply(InWholes(A), Mixed(B))[i] = Mixed(Composed(A, B))[i]
  BY DEF MatrixMultiply, Mixed
<1> DEFINE r == 4 * (i \div 4)
           c == i % 4
<1>1. /\ r \in 0..15 /\ r + 1 \in 0..15 /\ r + 2 \in 0..15 /\ r + 3 \in 0..15
      /\ c \in 0..15 /\ c + 4 \in 0..15 /\ c + 8 \in 0..15 /\ c + 12 \in 0..15
      /\ c % 4 = c /\ (c + 4) % 4 = c /\ (c + 8) % 4 = c /\ (c + 12) % 4 = c
  OBVIOUS
<1>2. /\ A[r] \in Int /\ A[r + 1] \in Int /\ A[r + 2] \in Int /\ A[r + 3] \in Int
      /\ B[c] \in Int /\ B[c + 4] \in Int /\ B[c + 8] \in Int /\ B[c + 12] \in Int
  <2> HIDE DEF r, c
  <2> QED
    BY <1>1 DEF Matrices
<1> DEFINE x == A[r]
           y == A[r + 1]
           z == A[r + 2]
           w == A[r + 3]
           e == B[c]
           f == B[c + 4]
           g == B[c + 8]
           h == B[c + 12]
           k == x * e + y * f + z * g + w * h
           W(j) == IF c = 0 THEN j ELSE Wholes(j)
<1>3. MatrixMultiply(InWholes(A), Mixed(B))[i]
        = InWholes(A)[r] \otimes Mixed(B)[c] + InWholes(A)[r + 1] \otimes Mixed(B)[c + 4]
            + InWholes(A)[r + 2] \otimes Mixed(B)[c + 8] + InWholes(A)[r + 3] \otimes Mixed(B)[c + 12]
  BY DEF MatrixMultiply
<1>4. Mixed(Composed(A, B))[i] = W(k)
  <2>1. Composed(A, B)[i] = k
    BY DEF Composed
  <2> HIDE DEF k
  <2> QED
    BY <2>1 DEF Mixed
<1>5. /\ InWholes(A)[r] = Wholes(x) /\ InWholes(A)[r + 1] = Wholes(y)
      /\ InWholes(A)[r + 2] = Wholes(z) /\ InWholes(A)[r + 3] = Wholes(w)
      /\ Mixed(B)[c] = W(e) /\ Mixed(B)[c + 4] = W(f) /\ Mixed(B)[c + 8] = W(g) /\ Mixed(B)[c + 12] = W(h)
  <2> HIDE DEF r, c
  <2> QED
    BY <1>1 DEF InWholes, Mixed
<1>6. /\ x \in Int /\ y \in Int /\ z \in Int /\ w \in Int
      /\ e \in Int /\ f \in Int /\ g \in Int /\ h \in Int
  BY <1>2
<1> HIDE DEF r, c, x, y, z, w, e, f, g, h
<1>7. Wholes(x) \otimes W(e) + Wholes(y) \otimes W(f) + Wholes(z) \otimes W(g) + Wholes(w) \otimes W(h) = W(k)
  <2>1. W(e) \in Int /\ W(f) \in Int /\ W(g) \in Int /\ W(h) \in Int
    BY <1>6, WholeTimes
  <2> HIDE DEF W
  <2>2. /\ Wholes(x) \otimes W(e) = x * W(e) /\ Wholes(y) \otimes W(f) = y * W(f)
        /\ Wholes(z) \otimes W(g) = z * W(g) /\ Wholes(w) \otimes W(h) = w * W(h)
    BY <1>6, <2>1, WholeTimes
  <2>3. CASE c = 0
    <3>1. W(e) = e /\ W(f) = f /\ W(g) = g /\ W(h) = h /\ W(k) = k
      BY <2>3 DEF W
    <3> QED
      BY <2>2, <3>1
  <2>4. CASE c # 0
    <3>1. W(e) = Wholes(e) /\ W(f) = Wholes(f) /\ W(g) = Wholes(g) /\ W(h) = Wholes(h) /\ W(k) = Wholes(k)
      BY <2>4 DEF W
    <3>2. x * Wholes(e) + y * Wholes(f) + z * Wholes(g) + w * Wholes(h) = Wholes(k)
      BY <1>6, Parts DEF Wholes
    <3> HIDE DEF k
    <3> QED
      BY <2>2, <3>1, <3>2
  <2> QED
    BY <2>3, <2>4
<1> HIDE DEF k, W
<1> QED
  BY <1>3, <1>4, <1>5, <1>7

(* The sum of MatrixDeterminant.                                           *)
Determinant(I) ==
  (I[12] * I[9]) * (I[6] * I[3]) - (I[8] * I[13]) * (I[6] * I[3]) - (I[12] * I[5]) * (I[10] * I[3])
    + (I[4] * I[13]) * (I[10] * I[3]) + (I[8] * I[5]) * (I[14] * I[3]) - (I[4] * I[9]) * (I[14] * I[3])
    - (I[12] * I[9]) * (I[2] * I[7]) + (I[8] * I[13]) * (I[2] * I[7]) + (I[12] * I[1]) * (I[10] * I[7])
    - (I[0] * I[13]) * (I[10] * I[7]) - (I[8] * I[1]) * (I[14] * I[7]) + (I[0] * I[9]) * (I[14] * I[7])
    + (I[12] * I[5]) * (I[2] * I[11]) - (I[4] * I[13]) * (I[2] * I[11]) - (I[12] * I[1]) * (I[6] * I[11])
    + (I[0] * I[13]) * (I[6] * I[11]) + (I[4] * I[1]) * (I[14] * I[11]) - (I[0] * I[5]) * (I[14] * I[11])
    - (I[8] * I[5]) * (I[2] * I[15]) + (I[4] * I[9]) * (I[2] * I[15]) + (I[8] * I[1]) * (I[6] * I[15])
    - (I[0] * I[9]) * (I[6] * I[15]) - (I[4] * I[1]) * (I[10] * I[15]) + (I[0] * I[5]) * (I[10] * I[15])

(* MatrixDeterminant is that sum over the counts: each of its products has *)
(* one factor from column 0.                                               *)
LEMMA DeterminantMixed ==
  ASSUME NEW I \in Matrices
  PROVE  MatrixDeterminant(Mixed(I)) = Determinant(I)
<1> DEFINE m0 == Mixed(I)
           i0 == I[0]
           i1 == I[1]
           i2 == I[2]
           i3 == I[3]
           i4 == I[4]
           i5 == I[5]
           i6 == I[6]
           i7 == I[7]
           i8 == I[8]
           i9 == I[9]
           i10 == I[10]
           i11 == I[11]
           i12 == I[12]
           i13 == I[13]
           i14 == I[14]
           i15 == I[15]
<1>1. /\ i0 \in Int /\ i1 \in Int /\ i2 \in Int /\ i3 \in Int
      /\ i4 \in Int /\ i5 \in Int /\ i6 \in Int /\ i7 \in Int
      /\ i8 \in Int /\ i9 \in Int /\ i10 \in Int /\ i11 \in Int
      /\ i12 \in Int /\ i13 \in Int /\ i14 \in Int /\ i15 \in Int
  BY MatrixTypes
<1>2. /\ m0[0] = i0 /\ m0[1] = Wholes(i1) /\ m0[2] = Wholes(i2) /\ m0[3] = Wholes(i3)
      /\ m0[4] = i4 /\ m0[5] = Wholes(i5) /\ m0[6] = Wholes(i6) /\ m0[7] = Wholes(i7)
      /\ m0[8] = i8 /\ m0[9] = Wholes(i9) /\ m0[10] = Wholes(i10) /\ m0[11] = Wholes(i11)
      /\ m0[12] = i12 /\ m0[13] = Wholes(i13) /\ m0[14] = Wholes(i14) /\ m0[15] = Wholes(i15)
  BY DEF Mixed
<1>3. MatrixDeterminant(m0) =
        (m0[12] \otimes m0[9]) \otimes (m0[6] \otimes m0[3]) - (m0[8] \otimes m0[13]) \otimes (m0[6] \otimes m0[3])
          - (m0[12] \otimes m0[5]) \otimes (m0[10] \otimes m0[3]) + (m0[4] \otimes m0[13]) \otimes (m0[10] \otimes m0[3])
          + (m0[8] \otimes m0[5]) \otimes (m0[14] \otimes m0[3]) - (m0[4] \otimes m0[9]) \otimes (m0[14] \otimes m0[3])
          - (m0[12] \otimes m0[9]) \otimes (m0[2] \otimes m0[7]) + (m0[8] \otimes m0[13]) \otimes (m0[2] \otimes m0[7])
          + (m0[12] \otimes m0[1]) \otimes (m0[10] \otimes m0[7]) - (m0[0] \otimes m0[13]) \otimes (m0[10] \otimes m0[7])
          - (m0[8] \otimes m0[1]) \otimes (m0[14] \otimes m0[7]) + (m0[0] \otimes m0[9]) \otimes (m0[14] \otimes m0[7])
          + (m0[12] \otimes m0[5]) \otimes (m0[2] \otimes m0[11]) - (m0[4] \otimes m0[13]) \otimes (m0[2] \otimes m0[11])
          - (m0[12] \otimes m0[1]) \otimes (m0[6] \otimes m0[11]) + (m0[0] \otimes m0[13]) \otimes (m0[6] \otimes m0[11])
          + (m0[4] \otimes m0[1]) \otimes (m0[14] \otimes m0[11]) - (m0[0] \otimes m0[5]) \otimes (m0[14] \otimes m0[11])
          - (m0[8] \otimes m0[5]) \otimes (m0[2] \otimes m0[15]) + (m0[4] \otimes m0[9]) \otimes (m0[2] \otimes m0[15])
          + (m0[8] \otimes m0[1]) \otimes (m0[6] \otimes m0[15]) - (m0[0] \otimes m0[9]) \otimes (m0[6] \otimes m0[15])
          - (m0[4] \otimes m0[1]) \otimes (m0[10] \otimes m0[15]) + (m0[0] \otimes m0[5]) \otimes (m0[10] \otimes m0[15])
  BY DEF MatrixDeterminant
<1> HIDE DEF m0, i0, i1, i2, i3, i4, i5, i6, i7, i8, i9, i10, i11, i12, i13, i14, i15
<1>4. /\ i0 \otimes Wholes(i5) = i0 * i5
      /\ i0 \otimes Wholes(i9) = i0 * i9
      /\ i0 \otimes Wholes(i13) = i0 * i13
      /\ i4 \otimes Wholes(i1) = i4 * i1
      /\ i4 \otimes Wholes(i9) = i4 * i9
      /\ i4 \otimes Wholes(i13) = i4 * i13
      /\ i8 \otimes Wholes(i1) = i8 * i1
      /\ i8 \otimes Wholes(i5) = i8 * i5
      /\ i8 \otimes Wholes(i13) = i8 * i13
      /\ i12 \otimes Wholes(i1) = i12 * i1
      /\ i12 \otimes Wholes(i5) = i12 * i5
      /\ i12 \otimes Wholes(i9) = i12 * i9
  BY ONLY <1>1, ByWhole, ZenonT(60)
<1>5. /\ Wholes(i2) \otimes Wholes(i7) = Wholes(i2 * i7)
      /\ Wholes(i2) \otimes Wholes(i11) = Wholes(i2 * i11)
      /\ Wholes(i2) \otimes Wholes(i15) = Wholes(i2 * i15)
      /\ Wholes(i6) \otimes Wholes(i3) = Wholes(i6 * i3)
      /\ Wholes(i6) \otimes Wholes(i11) = Wholes(i6 * i11)
      /\ Wholes(i6) \otimes Wholes(i15) = Wholes(i6 * i15)
      /\ Wholes(i10) \otimes Wholes(i3) = Wholes(i10 * i3)
      /\ Wholes(i10) \otimes Wholes(i7) = Wholes(i10 * i7)
      /\ Wholes(i10) \otimes Wholes(i15) = Wholes(i10 * i15)
      /\ Wholes(i14) \otimes Wholes(i3) = Wholes(i14 * i3)
      /\ Wholes(i14) \otimes Wholes(i7) = Wholes(i14 * i7)
      /\ Wholes(i14) \otimes Wholes(i11) = Wholes(i14 * i11)
  BY ONLY <1>1, WholeByWhole
<1> DEFINE u0 == i0 * i5
           u1 == i0 * i9
           u2 == i0 * i13
           u3 == i4 * i1
           u4 == i4 * i9
           u5 == i4 * i13
           u6 == i8 * i1
           u7 == i8 * i5
           u8 == i8 * i13
           u9 == i12 * i1
           u10 == i12 * i5
           u11 == i12 * i9
           v0 == i2 * i7
           v1 == i2 * i11
           v2 == i2 * i15
           v3 == i6 * i3
           v4 == i6 * i11
           v5 == i6 * i15
           v6 == i10 * i3
           v7 == i10 * i7
           v8 == i10 * i15
           v9 == i14 * i3
           v10 == i14 * i7
           v11 == i14 * i11
<1>6. /\ u0 \in Int /\ u1 \in Int /\ u2 \in Int /\ u3 \in Int /\ u4 \in Int /\ u5 \in Int
      /\ u6 \in Int /\ u7 \in Int /\ u8 \in Int /\ u9 \in Int /\ u10 \in Int /\ u11 \in Int
      /\ v0 \in Int /\ v1 \in Int /\ v2 \in Int /\ v3 \in Int /\ v4 \in Int /\ v5 \in Int
      /\ v6 \in Int /\ v7 \in Int /\ v8 \in Int /\ v9 \in Int /\ v10 \in Int /\ v11 \in Int
  BY <1>1
<1>7. /\ m0[0] \otimes m0[5] = u0
      /\ m0[0] \otimes m0[9] = u1
      /\ m0[0] \otimes m0[13] = u2
      /\ m0[4] \otimes m0[1] = u3
      /\ m0[4] \otimes m0[9] = u4
      /\ m0[4] \otimes m0[13] = u5
      /\ m0[8] \otimes m0[1] = u6
      /\ m0[8] \otimes m0[5] = u7
      /\ m0[8] \otimes m0[13] = u8
      /\ m0[12] \otimes m0[1] = u9
      /\ m0[12] \otimes m0[5] = u10
      /\ m0[12] \otimes m0[9] = u11
  BY <1>2, <1>4
<1>8. /\ m0[2] \otimes m0[7] = Wholes(v0)
      /\ m0[2] \otimes m0[11] = Wholes(v1)
      /\ m0[2] \otimes m0[15] = Wholes(v2)
      /\ m0[6] \otimes m0[3] = Wholes(v3)
      /\ m0[6] \otimes m0[11] = Wholes(v4)
      /\ m0[6] \otimes m0[15] = Wholes(v5)
      /\ m0[10] \otimes m0[3] = Wholes(v6)
      /\ m0[10] \otimes m0[7] = Wholes(v7)
      /\ m0[10] \otimes m0[15] = Wholes(v8)
      /\ m0[14] \otimes m0[3] = Wholes(v9)
      /\ m0[14] \otimes m0[7] = Wholes(v10)
      /\ m0[14] \otimes m0[11] = Wholes(v11)
  BY <1>2, <1>5
<1> HIDE DEF u0, u1, u2, u3, u4, u5, u6, u7, u8, u9, u10, u11, v0, v1, v2, v3, v4, v5,
             v6, v7, v8, v9, v10, v11
<1>9. /\ u11 \otimes Wholes(v3) = u11 * v3
      /\ u8 \otimes Wholes(v3) = u8 * v3
      /\ u10 \otimes Wholes(v6) = u10 * v6
      /\ u5 \otimes Wholes(v6) = u5 * v6
      /\ u7 \otimes Wholes(v9) = u7 * v9
      /\ u4 \otimes Wholes(v9) = u4 * v9
      /\ u11 \otimes Wholes(v0) = u11 * v0
      /\ u8 \otimes Wholes(v0) = u8 * v0
      /\ u9 \otimes Wholes(v7) = u9 * v7
      /\ u2 \otimes Wholes(v7) = u2 * v7
      /\ u6 \otimes Wholes(v10) = u6 * v10
      /\ u1 \otimes Wholes(v10) = u1 * v10
      /\ u10 \otimes Wholes(v1) = u10 * v1
      /\ u5 \otimes Wholes(v1) = u5 * v1
      /\ u9 \otimes Wholes(v4) = u9 * v4
      /\ u2 \otimes Wholes(v4) = u2 * v4
      /\ u3 \otimes Wholes(v11) = u3 * v11
      /\ u0 \otimes Wholes(v11) = u0 * v11
      /\ u7 \otimes Wholes(v2) = u7 * v2
      /\ u4 \otimes Wholes(v2) = u4 * v2
      /\ u6 \otimes Wholes(v5) = u6 * v5
      /\ u1 \otimes Wholes(v5) = u1 * v5
      /\ u3 \otimes Wholes(v8) = u3 * v8
      /\ u0 \otimes Wholes(v8) = u0 * v8
  BY ONLY <1>6, ByWhole, ZenonT(60)
<1>10. MatrixDeterminant(m0) =
        u11 * v3 - u8 * v3 - u10 * v6 + u5 * v6 + u7 * v9 - u4 * v9
          - u11 * v0 + u8 * v0 + u9 * v7 - u2 * v7 - u6 * v10 + u1 * v10
          + u10 * v1 - u5 * v1 - u9 * v4 + u2 * v4 + u3 * v11 - u0 * v11
          - u7 * v2 + u4 * v2 + u6 * v5 - u1 * v5 - u3 * v8 + u0 * v8
  BY ONLY <1>3, <1>7, <1>8, <1>9
<1> QED
  BY ONLY <1>10 DEF Determinant, m0, i0, i1, i2, i3, i4, i5, i6, i7, i8, i9, i10, i11,
       i12, i13, i14, i15, u0, u1, u2, u3, u4, u5, u6, u7, u8, u9, u10, u11, v0, v1,
       v2, v3, v4, v5, v6, v7, v8, v9, v10, v11
-----------------------------------------------------------------------------
(* Projections and determinants.                                           *)

(* The last column of a rigid motion.                                      *)
Framed(M) == M[3] = 0 /\ M[7] = 0 /\ M[11] = 0 /\ M[15] = 1

(* The entries of a rigid motion seen through a lens.                      *)
Imaged(E, M, a, c, d, e, f) ==
  /\ E[0] = a * M[0] /\ E[1] = M[1] /\ E[2] = c * M[2] /\ E[3] = e * M[2]
  /\ E[4] = a * M[4] /\ E[5] = M[5] /\ E[6] = c * M[6] /\ E[7] = e * M[6]
  /\ E[8] = a * M[8] /\ E[9] = M[9] /\ E[10] = c * M[10] /\ E[11] = e * M[10]
  /\ E[12] = a * M[12] /\ E[13] = M[13] /\ E[14] = c * M[14] + d /\ E[15] = e * M[14] + f

(* The product with a lens has those entries.                              *)
LEMMA ThroughLens ==
  ASSUME NEW M \in Matrices, Framed(M),
         NEW a \in Int, NEW c \in Int, NEW d \in Int, NEW e \in Int, NEW f \in Int
  PROVE  /\ Composed(M, Lens(a, c, d, e, f)) \in Matrices
         /\ Imaged(Composed(M, Lens(a, c, d, e, f)), M, a, c, d, e, f)
<1> DEFINE L == Lens(a, c, d, e, f)
           E == Composed(M, L)
           a0 == M[0]
           a1 == M[1]
           a2 == M[2]
           a4 == M[4]
           a5 == M[5]
           a6 == M[6]
           a8 == M[8]
           a9 == M[9]
           a10 == M[10]
           t0 == M[12]
           t1 == M[13]
           t2 == M[14]
<1>1. /\ a0 \in Int /\ a1 \in Int /\ a2 \in Int /\ a4 \in Int
      /\ a5 \in Int /\ a6 \in Int /\ a8 \in Int /\ a9 \in Int
      /\ a10 \in Int /\ t0 \in Int /\ t1 \in Int /\ t2 \in Int
  BY MatrixTypes
<1>2. M[3] = 0 /\ M[7] = 0 /\ M[11] = 0 /\ M[15] = 1
  BY DEF Framed
<1>3. L \in Matrices
  BY LensTypes
<1>4. /\ L[0] = a /\ L[1] = 0 /\ L[2] = 0 /\ L[3] = 0 /\ L[4] = 0 /\ L[5] = 1 /\ L[6] = 0 /\ L[7] = 0
      /\ L[8] = 0 /\ L[9] = 0 /\ L[10] = c /\ L[11] = e
      /\ L[12] = 0 /\ L[13] = 0 /\ L[14] = d /\ L[15] = f
  BY DEF Lens
<1> HIDE DEF L
<1>5. /\ E[0] = a0 * L[0] + a1 * L[4] + a2 * L[8] + M[3] * L[12]
      /\ E[1] = a0 * L[1] + a1 * L[5] + a2 * L[9] + M[3] * L[13]
      /\ E[2] = a0 * L[2] + a1 * L[6] + a2 * L[10] + M[3] * L[14]
      /\ E[3] = a0 * L[3] + a1 * L[7] + a2 * L[11] + M[3] * L[15]
      /\ E[4] = a4 * L[0] + a5 * L[4] + a6 * L[8] + M[7] * L[12]
      /\ E[5] = a4 * L[1] + a5 * L[5] + a6 * L[9] + M[7] * L[13]
      /\ E[6] = a4 * L[2] + a5 * L[6] + a6 * L[10] + M[7] * L[14]
      /\ E[7] = a4 * L[3] + a5 * L[7] + a6 * L[11] + M[7] * L[15]
      /\ E[8] = a8 * L[0] + a9 * L[4] + a10 * L[8] + M[11] * L[12]
      /\ E[9] = a8 * L[1] + a9 * L[5] + a10 * L[9] + M[11] * L[13]
      /\ E[10] = a8 * L[2] + a9 * L[6] + a10 * L[10] + M[11] * L[14]
      /\ E[11] = a8 * L[3] + a9 * L[7] + a10 * L[11] + M[11] * L[15]
      /\ E[12] = t0 * L[0] + t1 * L[4] + t2 * L[8] + M[15] * L[12]
      /\ E[13] = t0 * L[1] + t1 * L[5] + t2 * L[9] + M[15] * L[13]
      /\ E[14] = t0 * L[2] + t1 * L[6] + t2 * L[10] + M[15] * L[14]
      /\ E[15] = t0 * L[3] + t1 * L[7] + t2 * L[11] + M[15] * L[15]
  BY <1>3, ComposedEntries
<1>6. E \in Matrices
  BY <1>3, MultiplyWholes
<1> HIDE DEF E, a0, a1, a2, a4, a5, a6, a8, a9, a10, t0, t1, t2
<1>7. /\ E[0] = a * a0
      /\ E[1] = a1
      /\ E[2] = c * a2
      /\ E[3] = e * a2
      /\ E[4] = a * a4
      /\ E[5] = a5
      /\ E[6] = c * a6
      /\ E[7] = e * a6
      /\ E[8] = a * a8
      /\ E[9] = a9
      /\ E[10] = c * a10
      /\ E[11] = e * a10
      /\ E[12] = a * t0
      /\ E[13] = t1
      /\ E[14] = c * t2 + d
      /\ E[15] = e * t2 + f
  <2>1. E[0] = a * a0 /\ E[1] = a1 /\ E[2] = c * a2 /\ E[3] = e * a2
    BY <1>1, <1>4, <1>5, <1>2
  <2>2. E[4] = a * a4 /\ E[5] = a5 /\ E[6] = c * a6 /\ E[7] = e * a6
    BY <1>1, <1>4, <1>5, <1>2
  <2>3. E[8] = a * a8 /\ E[9] = a9 /\ E[10] = c * a10 /\ E[11] = e * a10
    BY <1>1, <1>4, <1>5, <1>2
  <2>4. E[12] = a * t0 /\ E[13] = t1 /\ E[14] = c * t2 + d /\ E[15] = e * t2 + f
    BY <1>1, <1>4, <1>5, <1>2
  <2> QED
    BY <2>1, <2>2, <2>3, <2>4
<1> QED
  BY <1>6, <1>7 DEF Imaged, E, L, a0, a1, a2, a4, a5, a6, a8, a9, a10, t0, t1, t2

(* Its determinant is that of the lens: the rotation has volume 1.         *)
LEMMA DeterminantThroughLens ==
  ASSUME NEW M \in Matrices, Rotates(M),
         NEW a \in Int, NEW c \in Int, NEW d \in Int, NEW e \in Int, NEW f \in Int
  PROVE  Determinant(Composed(M, Lens(a, c, d, e, f))) = a * (c * f - d * e)
<1> DEFINE E == Composed(M, Lens(a, c, d, e, f))
           a0 == M[0]
           a1 == M[1]
           a2 == M[2]
           a4 == M[4]
           a5 == M[5]
           a6 == M[6]
           a8 == M[8]
           a9 == M[9]
           a10 == M[10]
           t0 == M[12]
           t1 == M[13]
           t2 == M[14]
           volume == a0 * (a5 * a10 - a6 * a9) + a1 * (a6 * a8 - a4 * a10) + a2 * (a4 * a9 - a5 * a8)
<1>1. /\ a0 \in Int /\ a1 \in Int /\ a2 \in Int /\ a4 \in Int
      /\ a5 \in Int /\ a6 \in Int /\ a8 \in Int /\ a9 \in Int
      /\ a10 \in Int /\ t0 \in Int /\ t1 \in Int /\ t2 \in Int
  BY MatrixTypes
<1>2. /\ E[0] = a * a0
      /\ E[1] = a1
      /\ E[2] = c * a2
      /\ E[3] = e * a2
      /\ E[4] = a * a4
      /\ E[5] = a5
      /\ E[6] = c * a6
      /\ E[7] = e * a6
      /\ E[8] = a * a8
      /\ E[9] = a9
      /\ E[10] = c * a10
      /\ E[11] = e * a10
      /\ E[12] = a * t0
      /\ E[13] = t1
      /\ E[14] = c * t2 + d
      /\ E[15] = e * t2 + f
  <2>1. Framed(M)
    BY DEF Rotates, Framed
  <2>2. Imaged(E, M, a, c, d, e, f)
    BY <2>1, ThroughLens
  <2> QED
    BY ONLY <2>2 DEF Imaged
<1>3. /\ a5 * a10 - a6 * a9 = a0 /\ a6 * a8 - a4 * a10 = a1 /\ a4 * a9 - a5 * a8 = a2
      /\ a0 * a0 + a1 * a1 + a2 * a2 = 1
  BY DEF Rotates
<1> HIDE DEF E, a0, a1, a2, a4, a5, a6, a8, a9, a10, t0, t1, t2
<1>4. Determinant(E) =
        ((a * t0) * a9) * ((c * a6) * (e * a2)) - ((a * a8) * t1) * ((c * a6) * (e * a2))
          - ((a * t0) * a5) * ((c * a10) * (e * a2)) + ((a * a4) * t1) * ((c * a10) * (e * a2))
          + ((a * a8) * a5) * ((c * t2 + d) * (e * a2)) - ((a * a4) * a9) * ((c * t2 + d) * (e * a2))
          - ((a * t0) * a9) * ((c * a2) * (e * a6)) + ((a * a8) * t1) * ((c * a2) * (e * a6))
          + ((a * t0) * a1) * ((c * a10) * (e * a6)) - ((a * a0) * t1) * ((c * a10) * (e * a6))
          - ((a * a8) * a1) * ((c * t2 + d) * (e * a6)) + ((a * a0) * a9) * ((c * t2 + d) * (e * a6))
          + ((a * t0) * a5) * ((c * a2) * (e * a10)) - ((a * a4) * t1) * ((c * a2) * (e * a10))
          - ((a * t0) * a1) * ((c * a6) * (e * a10)) + ((a * a0) * t1) * ((c * a6) * (e * a10))
          + ((a * a4) * a1) * ((c * t2 + d) * (e * a10)) - ((a * a0) * a5) * ((c * t2 + d) * (e * a10))
          - ((a * a8) * a5) * ((c * a2) * (e * t2 + f)) + ((a * a4) * a9) * ((c * a2) * (e * t2 + f))
          + ((a * a8) * a1) * ((c * a6) * (e * t2 + f)) - ((a * a0) * a9) * ((c * a6) * (e * t2 + f))
          - ((a * a4) * a1) * ((c * a10) * (e * t2 + f)) + ((a * a0) * a5) * ((c * a10) * (e * t2 + f))
  BY <1>2 DEF Determinant
<1>5. ((a * t0) * a9) * ((c * a6) * (e * a2)) - ((a * a8) * t1) * ((c * a6) * (e * a2))
        - ((a * t0) * a5) * ((c * a10) * (e * a2)) + ((a * a4) * t1) * ((c * a10) * (e * a2))
        + ((a * a8) * a5) * ((c * t2 + d) * (e * a2)) - ((a * a4) * a9) * ((c * t2 + d) * (e * a2))
        - ((a * t0) * a9) * ((c * a2) * (e * a6)) + ((a * a8) * t1) * ((c * a2) * (e * a6))
        + ((a * t0) * a1) * ((c * a10) * (e * a6)) - ((a * a0) * t1) * ((c * a10) * (e * a6))
        - ((a * a8) * a1) * ((c * t2 + d) * (e * a6)) + ((a * a0) * a9) * ((c * t2 + d) * (e * a6))
        + ((a * t0) * a5) * ((c * a2) * (e * a10)) - ((a * a4) * t1) * ((c * a2) * (e * a10))
        - ((a * t0) * a1) * ((c * a6) * (e * a10)) + ((a * a0) * t1) * ((c * a6) * (e * a10))
        + ((a * a4) * a1) * ((c * t2 + d) * (e * a10)) - ((a * a0) * a5) * ((c * t2 + d) * (e * a10))
        - ((a * a8) * a5) * ((c * a2) * (e * t2 + f)) + ((a * a4) * a9) * ((c * a2) * (e * t2 + f))
        + ((a * a8) * a1) * ((c * a6) * (e * t2 + f)) - ((a * a0) * a9) * ((c * a6) * (e * t2 + f))
        - ((a * a4) * a1) * ((c * a10) * (e * t2 + f)) + ((a * a0) * a5) * ((c * a10) * (e * t2 + f))
        = (a * (c * f - d * e)) * volume
  BY <1>1
<1>6. volume = 1
  BY <1>1, <1>3
<1> HIDE DEF volume
<1>7. (a * (c * f - d * e)) * volume = a * (c * f - d * e)
  BY <1>6
<1> QED
  BY <1>4, <1>5, <1>7 DEF E

(* Zero has no sign.                                                       *)
LEMMA NegatedZero == -0 = 0
<1>1. \A i \in Int : -i \in Int /\ -(-i) = i /\ (i # 0 => -i # 0)
  OBVIOUS
<1>2. 0 \in Int
  OBVIOUS
<1>3. -0 \in Int /\ -(-0) = 0
  BY <1>1, <1>2, Zenon
<1>4. -0 # 0 => -(-0) # 0
  BY ONLY <1>1, <1>3, Zenon
<1> QED
  BY <1>3, <1>4, Zenon

(* The two projections are lenses.                                         *)
LEMMA ProjectionsMixed ==
  /\ MatrixFrustum(-Unit, Unit, -Unit, Unit, Unit, 2 * Unit) = Mixed(Lens(Unit, -3, -4, -1, 0))
  /\ MatrixOrtho(-2 * Unit, 2 * Unit, -Unit, Unit, Unit, 3 * Unit) = Mixed(Lens(Half, -1, -2, 0, 1))
<1>1. /\ MatrixFrustum(-Unit, Unit, -Unit, Unit, Unit, 2 * Unit)
           = Rows(<< Unit, 0, 0, 0, 0, Unit, 0, 0, 0, 0, -(3 * Unit), -(4 * Unit), 0, 0, -Unit, 0 >>)
  <2>1. /\ Unit - (-Unit) = 2 * Unit /\ 2 * Unit - Unit = Unit /\ Unit + (-Unit) = 0
        /\ 2 * Unit + Unit = 3 * Unit
    BY Parts
  <2>2. (2 * Unit) \otimes Unit = 2 * Unit
    BY Parts, Product
  <2>3. 2 * (2 * Unit) = 4 * Unit
    BY Parts
  <2>4. Ratio(2 * Unit, 2 * Unit) = Unit /\ Ratio(0, 2 * Unit) = 0
    BY Parts, Quotient
  <2>5. Ratio(3 * Unit, Unit) = 3 * Unit /\ Ratio(4 * Unit, Unit) = 4 * Unit
    BY Parts, Quotient
  <2> QED
    BY <2>1, <2>2, <2>3, <2>4, <2>5, Zenon DEF MatrixFrustum
<1>2. MatrixOrtho(-2 * Unit, 2 * Unit, -Unit, Unit, Unit, 3 * Unit)
        = Rows(<< Half, 0, 0, -0, 0, Unit, 0, -0, 0, 0, -Unit, -(2 * Unit), 0, 0, 0, Unit >>)
  <2>1. /\ 2 * Unit - (-2 * Unit) = 4 * Unit /\ Unit - (-Unit) = 2 * Unit /\ 3 * Unit - Unit = 2 * Unit
        /\ -2 * Unit + 2 * Unit = 0 /\ Unit + (-Unit) = 0 /\ 3 * Unit + Unit = 4 * Unit
    BY Parts
  <2>2. /\ Ratio(2 * Unit, 4 * Unit) = Half /\ Ratio(2 * Unit, 2 * Unit) = Unit
        /\ Ratio(0, 2 * Unit) = 0 /\ Ratio(0, 4 * Unit) = 0 /\ Ratio(4 * Unit, 2 * Unit) = 2 * Unit
    BY Parts, Quotient
  <2> QED
    BY <2>1, <2>2, Zenon DEF MatrixOrtho
<1>3. /\ Wholes(-3) = -(3 * Unit) /\ Wholes(-4) = -(4 * Unit) /\ Wholes(-2) = -(2 * Unit)
      /\ Wholes(-1) = -Unit /\ Wholes(0) = 0 /\ Wholes(1) = Unit /\ -0 = 0
  <2>1. /\ Wholes(-3) = -(3 * Unit) /\ Wholes(-4) = -(4 * Unit) /\ Wholes(-2) = -(2 * Unit)
    BY Parts, SMTT(30) DEF Wholes
  <2>2. -0 = 0
    BY NegatedZero
  <2> QED
    BY <2>1, <2>2, HalvesKnown, Zenon
<1>4. Rows(<< Unit, 0, 0, 0, 0, Unit, 0, 0, 0, 0, -(3 * Unit), -(4 * Unit), 0, 0, -Unit, 0 >>)
        = Mixed(Lens(Unit, -3, -4, -1, 0))
  <2> DEFINE R == Rows(<< Unit, 0, 0, 0, 0, Unit, 0, 0, 0, 0, -(3 * Unit), -(4 * Unit), 0, 0, -Unit, 0 >>)
             I == Lens(Unit, -3, -4, -1, 0)
  <2>1. /\ R = [i \in 0..15 |-> R[i]]
        /\ R[0] = Unit /\ R[1] = 0 /\ R[2] = 0 /\ R[3] = 0 /\ R[4] = 0 /\ R[5] = Unit /\ R[6] = 0 /\ R[7] = 0
        /\ R[8] = 0 /\ R[9] = 0 /\ R[10] = -(3 * Unit) /\ R[11] = -Unit
        /\ R[12] = 0 /\ R[13] = 0 /\ R[14] = -(4 * Unit) /\ R[15] = 0
    BY DEF Rows
  <2>2. /\ I[0] = Unit /\ I[1] = 0 /\ I[2] = 0 /\ I[3] = 0 /\ I[4] = 0 /\ I[5] = 1 /\ I[6] = 0 /\ I[7] = 0
        /\ I[8] = 0 /\ I[9] = 0 /\ I[10] = -3 /\ I[11] = -1
        /\ I[12] = 0 /\ I[13] = 0 /\ I[14] = -4 /\ I[15] = 0
    BY Parts DEF Lens
  <2> HIDE DEF R, I
  <2>3. \A i \in 0..15 : R[i] = IF i % 4 = 0 THEN I[i] ELSE Wholes(I[i])
    BY <1>3, <2>1, <2>2
  <2> QED
    BY <2>1, <2>3 DEF Mixed, R, I
<1>5. Rows(<< Half, 0, 0, -0, 0, Unit, 0, -0, 0, 0, -Unit, -(2 * Unit), 0, 0, 0, Unit >>)
        = Mixed(Lens(Half, -1, -2, 0, 1))
  <2> DEFINE R == Rows(<< Half, 0, 0, -0, 0, Unit, 0, -0, 0, 0, -Unit, -(2 * Unit), 0, 0, 0, Unit >>)
             I == Lens(Half, -1, -2, 0, 1)
  <2>1. /\ R = [i \in 0..15 |-> R[i]]
        /\ R[0] = Half /\ R[1] = 0 /\ R[2] = 0 /\ R[3] = 0 /\ R[4] = 0 /\ R[5] = Unit /\ R[6] = 0 /\ R[7] = 0
        /\ R[8] = 0 /\ R[9] = 0 /\ R[10] = -Unit /\ R[11] = 0
        /\ R[12] = -0 /\ R[13] = -0 /\ R[14] = -(2 * Unit) /\ R[15] = Unit
    BY DEF Rows
  <2>2. /\ I[0] = Half /\ I[1] = 0 /\ I[2] = 0 /\ I[3] = 0 /\ I[4] = 0 /\ I[5] = 1 /\ I[6] = 0 /\ I[7] = 0
        /\ I[8] = 0 /\ I[9] = 0 /\ I[10] = -1 /\ I[11] = 0
        /\ I[12] = 0 /\ I[13] = 0 /\ I[14] = -2 /\ I[15] = 1
    BY Parts DEF Lens
  <2> HIDE DEF R, I
  <2>3. \A i \in 0..15 : R[i] = IF i % 4 = 0 THEN I[i] ELSE Wholes(I[i])
    BY <1>3, <2>1, <2>2
  <2> QED
    BY <2>1, <2>3 DEF Mixed, R, I
<1> QED
  BY <1>1, <1>2, <1>4, <1>5

(* A rigid motion is itself, seen through a lens that changes nothing.     *)
LEMMA PlainLens ==
  ASSUME NEW M \in Matrices, Framed(M)
  PROVE  InWholes(M) = Mixed(Composed(M, Lens(Unit, 1, 0, 0, 1)))
<1> DEFINE E == Composed(M, Lens(Unit, 1, 0, 0, 1))
<1>1. Unit \in Int
  BY Parts
<1>2. Imaged(E, M, Unit, 1, 0, 0, 1)
  BY <1>1, ThroughLens
<1> HIDE DEF E
<1>3. /\ E[0] = Wholes(M[0]) /\ E[1] = M[1] /\ E[2] = M[2] /\ E[3] = M[3]
      /\ E[4] = Wholes(M[4]) /\ E[5] = M[5] /\ E[6] = M[6] /\ E[7] = M[7]
      /\ E[8] = Wholes(M[8]) /\ E[9] = M[9] /\ E[10] = M[10] /\ E[11] = M[11]
      /\ E[12] = Wholes(M[12]) /\ E[13] = M[13] /\ E[14] = M[14] /\ E[15] = M[15]
  <2>1. /\ E[0] = Unit * M[0] /\ E[1] = M[1] /\ E[2] = 1 * M[2] /\ E[3] = 0 * M[2]
        /\ E[4] = Unit * M[4] /\ E[5] = M[5] /\ E[6] = 1 * M[6] /\ E[7] = 0 * M[6]
        /\ E[8] = Unit * M[8] /\ E[9] = M[9] /\ E[10] = 1 * M[10] /\ E[11] = 0 * M[10]
        /\ E[12] = Unit * M[12] /\ E[13] = M[13] /\ E[14] = 1 * M[14] + 0 /\ E[15] = 0 * M[14] + 1
    BY ONLY <1>2 DEF Imaged
  <2>2. \A i \in Int : Unit * i = i * Unit /\ 1 * i = i /\ 0 * i = 0 /\ i + 0 = i
    BY <1>1
  <2>3. M[3] = 0 /\ M[7] = 0 /\ M[11] = 0 /\ M[15] = 1
    BY DEF Framed
  <2> QED
    BY <2>1, <2>2, <2>3, MatrixTypes DEF Wholes
<1>4. \A i \in 0..15 : Wholes(M[i]) = IF i % 4 = 0 THEN E[i] ELSE Wholes(E[i])
  BY <1>3
<1> QED
  BY <1>4 DEF InWholes, Mixed, E

(* And a lens is itself, in front of a body that has not moved.            *)
LEMMA StillThroughLens ==
  ASSUME NEW a \in Int, NEW c \in Int, NEW d \in Int, NEW e \in Int, NEW f \in Int
  PROVE  Composed(Shifting(0, 0, 0), Lens(a, c, d, e, f)) = Lens(a, c, d, e, f)
<1> DEFINE S == Shifting(0, 0, 0)
           L == Lens(a, c, d, e, f)
           E == Composed(S, L)
<1>1. /\ S \in Matrices
      /\ S[0] = 1 /\ S[1] = 0 /\ S[2] = 0 /\ S[3] = 0 /\ S[4] = 0 /\ S[5] = 1 /\ S[6] = 0 /\ S[7] = 0
      /\ S[8] = 0 /\ S[9] = 0 /\ S[10] = 1 /\ S[11] = 0 /\ S[12] = 0 /\ S[13] = 0 /\ S[14] = 0 /\ S[15] = 1
  BY ShiftingTurns DEF Shifting
<1> HIDE DEF S
<1>2. E \in Matrices /\ Imaged(E, S, a, c, d, e, f)
  BY <1>1, ThroughLens DEF Framed
<1>3. L \in Matrices
  BY LensTypes
<1>4. /\ L[0] = a /\ L[1] = 0 /\ L[2] = 0 /\ L[3] = 0 /\ L[4] = 0 /\ L[5] = 1 /\ L[6] = 0 /\ L[7] = 0
      /\ L[8] = 0 /\ L[9] = 0 /\ L[10] = c /\ L[11] = e
      /\ L[12] = 0 /\ L[13] = 0 /\ L[14] = d /\ L[15] = f
  BY DEF Lens
<1> HIDE DEF L, E
<1>5. \A i \in 0..15 : E[i] = L[i]
  BY <1>1, <1>2, <1>4 DEF Imaged
<1> QED
  BY <1>3, <1>2, <1>5 DEF Matrices, S, L, E

(* MatrixDeterminant of the body and of camera and projection.             *)
LEMMA RigidVolumeKept ==
  ASSUME Rigid
  PROVE  VolumeKept
<1>1. PICK M \in Matrices : m = InWholes(M) /\ Rotates(M)
  BY RigidRotates
<1>2. MatrixDeterminant(m) = Unit
  <2> DEFINE E == Composed(M, Lens(Unit, 1, 0, 0, 1))
  <2>1. m = Mixed(E)
    BY <1>1, PlainLens DEF Rotates, Framed
  <2>2. Unit \in Int /\ Unit * (1 * 1 - 0 * 0) = Unit
    BY Parts
  <2>3. E \in Matrices
    BY <2>2, LensTypes, MultiplyWholes
  <2>4. Determinant(E) = Unit * (1 * 1 - 0 * 0)
    BY <1>1, <2>2, DeterminantThroughLens
  <2> QED
    BY <2>1, <2>2, <2>3, <2>4, DeterminantMixed
<1>3. ASSUME NEW a \in Int, NEW c \in Int, NEW d \in Int, NEW e \in Int, NEW f \in Int
      PROVE  MatrixDeterminant(MatrixMultiply(Camera, Mixed(Lens(a, c, d, e, f))))
               = MatrixDeterminant(Mixed(Lens(a, c, d, e, f)))
  <2> DEFINE L == Lens(a, c, d, e, f)
             C == Reversed(M)
             S == Shifting(0, 0, 0)
  <2>1. L \in Matrices /\ C \in Matrices /\ S \in Matrices /\ Rotates(C) /\ Rotates(S)
    <3>1. S \in Matrices /\ Turns(Still, S)
      BY ShiftingTurns
    <3>2. Rotates(S)
      BY ONLY <3>1, StillCount, TurnsRotates
    <3>3. C \in Matrices /\ Rotates(C)
      BY <1>1, ReversedEntries, RotatesReversed
    <3> QED
      BY <3>1, <3>2, <3>3, LensTypes
  <2>2. Camera = InWholes(C)
    BY <1>1, CameraReversed
  <2>3. Composed(S, L) = L
    BY StillThroughLens
  <2>4. MatrixDeterminant(MatrixMultiply(Camera, Mixed(L))) = Determinant(Composed(C, L))
    <3>1. MatrixMultiply(Camera, Mixed(L)) = Mixed(Composed(C, L)) /\ Composed(C, L) \in Matrices
      BY <2>1, <2>2, MixedTimes, MultiplyWholes
    <3> QED
      BY <3>1, DeterminantMixed
  <2>5. MatrixDeterminant(Mixed(L)) = Determinant(Composed(S, L))
    BY <2>1, <2>3, DeterminantMixed
  <2>6. Determinant(Composed(C, L)) = a * (c * f - d * e) /\ Determinant(Composed(S, L)) = a * (c * f - d * e)
    BY <2>1, DeterminantThroughLens
  <2> QED
    BY <2>4, <2>5, <2>6
<1>4. /\ Unit \in Int /\ Half \in Int /\ -1 \in Int /\ -2 \in Int
      /\ -3 \in Int /\ -4 \in Int /\ 0 \in Int /\ 1 \in Int
  BY Parts
<1>5. ASSUME NEW projection \in Projections
      PROVE  MatrixDeterminant(MatrixMultiply(Camera, projection)) = MatrixDeterminant(projection)
  <2>1. CASE projection = Mixed(Lens(Unit, -3, -4, -1, 0))
    BY <1>3, <1>4, <2>1
  <2>2. CASE projection = Mixed(Lens(Half, -1, -2, 0, 1))
    BY <1>3, <1>4, <2>2
  <2> QED
    BY <2>1, <2>2, ProjectionsMixed DEF Projections
<1> QED
  BY <1>2, <1>5 DEF VolumeKept
-----------------------------------------------------------------------------
(* Euler angles.                                                           *)

(* An angle whose cosine and sine are whole: a right angle, or none.       *)
WholeAngle(c, s) == [cos |-> Wholes(c), sin |-> Wholes(s)]

(* What QuaternionToEuler finds is in the matrix of the quaternion.        *)
LEMMA EulerOfAttitude ==
  ASSUME NEW n \in Counts, NEW M \in Matrices, Turns(n, M)
  PROVE  QuaternionToEuler(Attitude(n)) = [x |-> atan2f(Wholes(M[6]), Wholes(M[10])),
                                           y |-> asinf(Wholes(-M[2])),
                                           z |-> atan2f(Wholes(M[1]), Wholes(M[0]))]
<1> DEFINE S(i, j, k, l) == 2 * (i \otimes j + k \otimes l)
           C(i, j) == Unit - 2 * (i \otimes i + j \otimes j)
           x == n.x
           y == n.y
           z == n.z
           w == n.w
<1>1. /\ x \in Int /\ y \in Int /\ z \in Int /\ w \in Int
      /\ x * x + y * y + z * z + w * w = 4
  BY CountTypes
<1>2. /\ M[0] \in Int /\ M[1] \in Int /\ M[2] \in Int /\ M[6] \in Int /\ M[10] \in Int
  BY MatrixTypes
<1>3. /\ 4 * M[0]  = w * w + x * x - y * y - z * z
      /\ 4 * M[10] = w * w - x * x - y * y + z * z
      /\ 4 * M[1] = 2 * (x * y + w * z) /\ 4 * M[6] = 2 * (y * z + w * x)
      /\ 4 * M[2] = 2 * (x * z - w * y)
  BY DEF Turns
<1>4. QuaternionToEuler(Attitude(n))
        = [x |-> atan2f(S(Halves(w), Halves(x), Halves(y), Halves(z)), C(Halves(x), Halves(y))),
           y |-> asinf(S(Halves(w), Halves(y), -Halves(z), Halves(x))),
           z |-> atan2f(S(Halves(w), Halves(z), Halves(x), Halves(y)), C(Halves(y), Halves(z)))]
  BY DEF QuaternionToEuler, Attitude, Quaternion
<1> DEFINE a0 == M[0]
           a1 == M[1]
           a2 == M[2]
           a6 == M[6]
           a10 == M[10]
<1> HIDE DEF x, y, z, w, a0, a1, a2, a6, a10
<1>5. -Halves(z) = Halves(-z) /\ -z \in Int
  BY <1>1, Parts DEF Halves
<1>6. ASSUME NEW i \in Int, NEW j \in Int, NEW k \in Int, NEW l \in Int, NEW s \in Int,
             2 * s = i * j + k * l
      PROVE  S(Halves(i), Halves(j), Halves(k), Halves(l)) = Wholes(s)
  <2>1. S(Halves(i), Halves(j), Halves(k), Halves(l)) = 2 * (Quarters(i * j) + Quarters(k * l))
    BY HalfTimes
  <2> QED
    BY <1>6, <2>1, Parts DEF Quarters, Wholes
<1>7. ASSUME NEW i \in Int, NEW j \in Int, NEW s \in Int, 4 * s = 4 - 2 * (i * i + j * j)
      PROVE  C(Halves(i), Halves(j)) = Wholes(s)
  <2>1. C(Halves(i), Halves(j)) = Unit - 2 * (Quarters(i * i) + Quarters(j * j))
    BY HalfTimes
  <2> QED
    BY <1>7, <2>1, Parts DEF Quarters, Wholes
<1>8. /\ a0 \in Int /\ a1 \in Int /\ a2 \in Int /\ a6 \in Int /\ a10 \in Int /\ -a2 \in Int
      /\ 4 * a0 = 4 - 2 * (y * y + z * z) /\ 4 * a10 = 4 - 2 * (x * x + y * y)
      /\ 2 * a1 = w * z + x * y /\ 2 * a6 = w * x + y * z /\ 2 * (-a2) = w * y + (-z) * x
  <2>1. /\ 4 * a0  = w * w + x * x - y * y - z * z /\ 4 * a10 = w * w - x * x - y * y + z * z
        /\ 4 * a1 = 2 * (x * y + w * z) /\ 4 * a6 = 2 * (y * z + w * x) /\ 4 * a2 = 2 * (x * z - w * y)
        /\ a0 \in Int /\ a1 \in Int /\ a2 \in Int /\ a6 \in Int /\ a10 \in Int
    BY <1>2, <1>3 DEF a0, a1, a2, a6, a10
  <2> QED
    BY <1>1, <2>1
<1> HIDE DEF S, C
<1>9. /\ S(Halves(w), Halves(x), Halves(y), Halves(z)) = Wholes(a6)
      /\ S(Halves(w), Halves(z), Halves(x), Halves(y)) = Wholes(a1)
      /\ S(Halves(w), Halves(y), -Halves(z), Halves(x)) = Wholes(-a2)
      /\ C(Halves(x), Halves(y)) = Wholes(a10) /\ C(Halves(y), Halves(z)) = Wholes(a0)
  BY <1>1, <1>5, <1>6, <1>7, <1>8
<1> QED
  BY <1>4, <1>9 DEF a0, a1, a2, a6, a10

(* atan2f of a whole cosine and sine.                                      *)
LEMMA WholeArc ==
  ASSUME NEW c \in Int, NEW s \in Int, c * c + s * s = 1
  PROVE  atan2f(Wholes(s), Wholes(c)) = WholeAngle(c, s)
<1>1. Wholes(s) * Wholes(s) + Wholes(c) * Wholes(c) = Unit * Unit
  <2>1. Wholes(s) * Wholes(s) + Wholes(c) * Wholes(c) = (c * c + s * s) * (Unit * Unit)
    BY Parts DEF Wholes
  <2>2. 1 * (Unit * Unit) = Unit * Unit
    BY Parts
  <2> QED
    BY <2>1, <2>2
<1>2. Unit # 0 /\ Wholes(s) \in Int /\ Wholes(c) \in Int
  <2>1. Unit # 0
    BY Parts
  <2> QED
    BY <2>1, WholeTimes
<1> QED
  BY <1>1, <1>2, RootOfUnit, OverUnit DEF atan2f, WholeAngle

(* Times 0 and 1.                                                          *)
LEMMA TimesKnown ==
  \A i \in Int : /\ Wholes(i) \otimes Unit = Wholes(i) /\ Unit \otimes Wholes(i) = Wholes(i)
                 /\ Wholes(i) \otimes 0 = 0 /\ 0 \otimes Wholes(i) = 0
<1> SUFFICES ASSUME NEW i \in Int
             PROVE  /\ Wholes(i) \otimes Unit = Wholes(i) /\ Unit \otimes Wholes(i) = Wholes(i)
                    /\ Wholes(i) \otimes 0 = 0 /\ 0 \otimes Wholes(i) = 0
  OBVIOUS
<1>1. Unit \in Int /\ 0 \in Int /\ i * 0 = 0
  BY Parts
<1>2. /\ Wholes(i) \otimes Unit = i * Unit /\ Unit \otimes Wholes(i) = i * Unit
      /\ Wholes(i) \otimes 0 = i * 0 /\ 0 \otimes Wholes(i) = i * 0
  BY ONLY <1>1, WholeTimes, Zenon
<1> QED
  BY <1>1, <1>2 DEF Wholes

(* asinf of a whole sine.                                                  *)
LEMMA WholeSine ==
  /\ asinf(0) = [cos |-> Unit, sin |-> 0]
  /\ \A s \in Int : s * s = 1 => asinf(Wholes(s)).cos = 0
<1>1. asinf(0) = [cos |-> Unit, sin |-> 0]
  <2>1. Unit * Unit - 0 * 0 = Unit * Unit
    BY Parts
  <2> QED
    BY <2>1, RootOfUnit DEF asinf
<1>2. ASSUME NEW s \in Int, s * s = 1
      PROVE  asinf(Wholes(s)).cos = 0
  <2>1. Unit * Unit - Wholes(s) * Wholes(s) = 0 * 0
    <3>1. Wholes(s) * Wholes(s) = (s * s) * (Unit * Unit)
      BY Parts DEF Wholes
    <3>2. Unit * Unit - 1 * (Unit * Unit) = 0 * 0
      BY Parts
    <3> QED
      BY <1>2, <3>1, <3>2
  <2>2. 0 \in 0..2 * Unit
    BY Parts
  <2> QED
    BY <2>1, <2>2, RootIs DEF asinf
<1> QED
  BY <1>1, <1>2

(* If the angle about y is no right angle, row and column of m2 are 0 but  *)
(* for m2: the matrix turns about x and z alone, and the angles are its    *)
(* entries.                                                                *)
LEMMA RigidUnlocked ==
  ASSUME Rigid, QuaternionToEuler(q).y.cos # 0
  PROVE  MatrixRotateZYX(QuaternionToEuler(q)) = QuaternionToMatrix(q)
<1>1. PICK n \in Counts, M \in Matrices : q = Attitude(n) /\ Turns(n, M) /\ Rotates(M)
  BY RigidRotates
<1>2. PICK K \in Matrices : /\ Turns(n, K) /\ K[12] = 0 /\ K[13] = 0 /\ K[14] = 0
                            /\ QuaternionToMatrix(q) = InWholes(K)
  BY <1>1, AttitudeTurns
<1>3. Rotates(K)
  BY <1>2, TurnsRotates
<1> DEFINE a0 == K[0]
           a1 == K[1]
           a2 == K[2]
           a4 == K[4]
           a5 == K[5]
           a6 == K[6]
           a8 == K[8]
           a9 == K[9]
           a10 == K[10]
           euler == QuaternionToEuler(q)
<1>4. /\ a0 \in Int /\ a1 \in Int /\ a2 \in Int /\ a4 \in Int /\ a5 \in Int /\ a6 \in Int
      /\ a8 \in Int /\ a9 \in Int /\ a10 \in Int
  BY MatrixTypes
<1>5. euler = [x |-> atan2f(Wholes(a6), Wholes(a10)), y |-> asinf(Wholes(-a2)),
               z |-> atan2f(Wholes(a1), Wholes(a0))]
  BY <1>1, <1>2, EulerOfAttitude
<1>6. /\ a0 * a0 + a1 * a1 + a2 * a2 = 1 /\ a2 * a2 + a6 * a6 + a10 * a10 = 1
      /\ a4 = a2 * a9 - a1 * a10 /\ a5 = a0 * a10 - a2 * a8
      /\ a8 = a1 * a6 - a2 * a5 /\ a9 = a2 * a4 - a0 * a6
      /\ K[3] = 0 /\ K[7] = 0 /\ K[11] = 0 /\ K[15] = 1
  BY <1>3 DEF Rotates
<1> HIDE DEF a0, a1, a2, a4, a5, a6, a8, a9, a10, euler
<1>7. euler.y.cos # 0
  BY DEF euler
<1>8. a2 = 0
  <2>1. a2 * a2 <= 1
    BY <1>4, <1>6
  <2>2. a2 = 0 \/ (-a2) * (-a2) = 1
    BY <1>4, <2>1
  <2>3. (-a2) * (-a2) # 1
    <3>1. -a2 \in Int
      BY <1>4
    <3>2. euler.y.cos = asinf(Wholes(-a2)).cos
      BY <1>5
    <3> QED
      BY <1>7, <3>1, <3>2, WholeSine
  <2> QED
    BY <2>2, <2>3
<1>9. /\ a0 * a0 + a1 * a1 = 1 /\ a10 * a10 + a6 * a6 = 1
      /\ a4 = -(a1 * a10) /\ a5 = a0 * a10 /\ a8 = a1 * a6 /\ a9 = -(a0 * a6)
  BY <1>4, <1>6, <1>8
<1>10. /\ euler.x.cos = Wholes(a10) /\ euler.x.sin = Wholes(a6)
       /\ euler.y.cos = Unit /\ euler.y.sin = 0
       /\ euler.z.cos = Wholes(a0) /\ euler.z.sin = Wholes(a1)
  <2>1. atan2f(Wholes(a6), Wholes(a10)) = WholeAngle(a10, a6) /\ atan2f(Wholes(a1), Wholes(a0)) = WholeAngle(a0, a1)
    BY <1>4, <1>9, WholeArc
  <2>2. -a2 = 0 /\ Wholes(0) = 0
    <3>1. \A i, j \in Int : i + j = 0 /\ j = 0 => i = 0
      OBVIOUS
    <3>2. -a2 \in Int /\ -a2 + a2 = 0
      BY <1>4
    <3> QED
      BY <1>4, <1>8, <3>1, <3>2, HalvesKnown, Zenon
  <2> QED
    BY <1>5, <2>1, <2>2, WholeSine DEF WholeAngle
<1>11. /\ a1 * a10 \in Int /\ a0 * a10 \in Int /\ a1 * a6 \in Int /\ a0 * a6 \in Int /\ a10 * a1 = a1 * a10
  BY <1>4
<1>12. /\ Wholes(a10) \otimes Wholes(a1) = Wholes(a1 * a10) /\ Wholes(a0) \otimes Wholes(a10) = Wholes(a0 * a10)
       /\ Wholes(a1) \otimes Wholes(a6) = Wholes(a1 * a6) /\ Wholes(a0) \otimes Wholes(a6) = Wholes(a0 * a6)
  <2>1. Wholes(a10) \otimes Wholes(a1) = Wholes(a10 * a1)
    BY ONLY <1>4, WholeByWhole
  <2>2. /\ Wholes(a0) \otimes Wholes(a10) = Wholes(a0 * a10)
        /\ Wholes(a1) \otimes Wholes(a6) = Wholes(a1 * a6) /\ Wholes(a0) \otimes Wholes(a6) = Wholes(a0 * a6)
    BY ONLY <1>4, WholeByWhole
  <2> QED
    BY <1>11, <2>1, <2>2, Zenon
<1> DEFINE p == a1 * a10
           k == a0 * a6
<1>13. MatrixRotateZYX(euler)
         = Turning(<< Wholes(a0), 0 - Wholes(p), Wholes(a8) + 0 >>,
                   << Wholes(a1), Wholes(a5) + 0, 0 - Wholes(k) >>,
                   << -0, Wholes(a6), Wholes(a10) >>)
  <2>1. MatrixRotateZYX(euler)
          = Turning(<< Wholes(a0) \otimes Unit,
                       (Wholes(a0) \otimes 0) \otimes Wholes(a6) - Wholes(a10) \otimes Wholes(a1),
                       Wholes(a1) \otimes Wholes(a6) + (Wholes(a0) \otimes Wholes(a10)) \otimes 0 >>,
                    << Unit \otimes Wholes(a1),
                       Wholes(a0) \otimes Wholes(a10) + (Wholes(a1) \otimes 0) \otimes Wholes(a6),
                       (Wholes(a10) \otimes Wholes(a1)) \otimes 0 - Wholes(a0) \otimes Wholes(a6) >>,
                    << -0, Unit \otimes Wholes(a6), Unit \otimes Wholes(a10) >>)
    BY <1>10, Zenon DEF MatrixRotateZYX
  <2>2. /\ Wholes(a0) \otimes Unit = Wholes(a0) /\ Unit \otimes Wholes(a1) = Wholes(a1)
        /\ Unit \otimes Wholes(a6) = Wholes(a6) /\ Unit \otimes Wholes(a10) = Wholes(a10)
        /\ Wholes(a0) \otimes 0 = 0 /\ 0 \otimes Wholes(a6) = 0 /\ Wholes(a1) \otimes 0 = 0
        /\ Wholes(a0 * a10) \otimes 0 = 0 /\ Wholes(a1 * a10) \otimes 0 = 0
    BY ONLY <1>4, <1>11, TimesKnown, Zenon
  <2>3. a0 * a10 = a5 /\ a1 * a6 = a8
    BY <1>9
  <2> QED
    BY <1>12, <2>1, <2>2, <2>3, Zenon
<1>14. /\ 0 - Wholes(p) = Wholes(a4) /\ 0 - Wholes(k) = Wholes(a9)
       /\ Wholes(a8) + 0 = Wholes(a8) /\ Wholes(a5) + 0 = Wholes(a5)
  <2>1. p \in Int /\ k \in Int /\ a4 = -p /\ a9 = -k
    BY <1>9, <1>11
  <2> HIDE DEF p, k
  <2> QED
    BY <1>4, <2>1, Parts DEF Wholes
<1>15. -0 = 0
  BY NegatedZero
<1> DEFINE R == Turning(<< Wholes(a0), Wholes(a4), Wholes(a8) >>,
                        << Wholes(a1), Wholes(a5), Wholes(a9) >>,
                        << 0, Wholes(a6), Wholes(a10) >>)
<1>16. MatrixRotateZYX(euler) = R
  BY <1>13, <1>14, <1>15, Zenon
<1>17. /\ R = [i \in 0..15 |-> R[i]]
       /\ R[0] = Wholes(a0) /\ R[4] = Wholes(a4) /\ R[8] = Wholes(a8)
       /\ R[1] = Wholes(a1) /\ R[5] = Wholes(a5) /\ R[9] = Wholes(a9)
       /\ R[2] = 0 /\ R[6] = Wholes(a6) /\ R[10] = Wholes(a10)
       /\ R[3] = 0 /\ R[7] = 0 /\ R[11] = 0 /\ R[12] = 0 /\ R[13] = 0 /\ R[14] = 0 /\ R[15] = Unit
  BY DEF Turning, Rows
<1> HIDE DEF R
<1>18. /\ K[0] = a0 /\ K[1] = a1 /\ K[2] = 0 /\ K[4] = a4 /\ K[5] = a5 /\ K[6] = a6
       /\ K[8] = a8 /\ K[9] = a9 /\ K[10] = a10
  BY <1>8 DEF a0, a1, a2, a4, a5, a6, a8, a9, a10
<1>19. \A i \in 0..15 : R[i] = Wholes(K[i])
  BY <1>2, <1>6, <1>17, <1>18, HalvesKnown
<1> QED
  BY <1>2, <1>16, <1>17, <1>19 DEF InWholes, euler

(* asinf of a whole sine is its own sine.                                  *)
LEMMA WholeSineIs ==
  \A s : asinf(s).sin = s
BY DEF asinf

(* Of a whole row of length 1, one entry is not 0.                         *)
LEMMA OneOfRow ==
  ASSUME NEW a \in Int, NEW b \in Int, NEW c \in Int, a * a + b * b + c * c = 1, c # 0
  PROVE  a = 0 /\ b = 0 /\ (-c) * (-c) = 1
<1>1. c * c >= 1 /\ a * a >= 0 /\ b * b >= 0 /\ (-c) * (-c) = c * c
  OBVIOUS
<1>2. a * a = 0 /\ b * b = 0 /\ c * c = 1
  BY <1>1
<1> QED
  BY <1>1, <1>2

(* If it is one, the x axis is turned to an end of the z axis: the sine of *)
(* the angle about y is all that counts, and it is in m2.                  *)
LEMMA RigidLocked ==
  ASSUME Rigid, QuaternionToEuler(q).y.cos = 0
  PROVE  \A i \in 0..2 : MatrixRotateZYX(QuaternionToEuler(q))[i] = m[i]
<1>1. PICK n \in Counts, M \in Matrices :
        q = Attitude(n) /\ m = InWholes(M) /\ Turns(n, M) /\ Rotates(M)
  BY RigidRotates
<1> DEFINE a0 == M[0]
           a1 == M[1]
           a2 == M[2]
           a6 == M[6]
           a10 == M[10]
           euler == QuaternionToEuler(q)
<1>2. /\ a0 \in Int /\ a1 \in Int /\ a2 \in Int /\ a6 \in Int /\ a10 \in Int
      /\ -a2 \in Int
  BY MatrixTypes
<1>3. euler = [x |-> atan2f(Wholes(a6), Wholes(a10)), y |-> asinf(Wholes(-a2)),
               z |-> atan2f(Wholes(a1), Wholes(a0))]
  BY <1>1, EulerOfAttitude
<1>4. /\ a0 * a0 + a1 * a1 + a2 * a2 = 1
      /\ m[0] = Wholes(a0) /\ m[1] = Wholes(a1) /\ m[2] = Wholes(a2)
  BY <1>1 DEF Rotates, InWholes
<1>5. euler.y.cos = 0
  BY DEF euler
<1> HIDE DEF a0, a1, a2, a6, a10, euler
(* Otherwise the cosine would be 1.                                        *)
<1>6. a2 # 0
  <2> SUFFICES ASSUME a2 = 0 PROVE FALSE
    OBVIOUS
  <2>1. Wholes(-a2) = 0
    BY <1>2, Parts DEF Wholes
  <2>2. euler.y.cos = Unit
    BY <1>3, <2>1, WholeSine
  <2> QED
    BY <1>5, <2>2, Parts
<1>7. a0 = 0 /\ a1 = 0
  BY <1>2, <1>4, <1>6, OneOfRow
<1>8. Wholes(0) = 0 /\ Wholes(a0) = 0 /\ Wholes(a1) = 0
  BY <1>7, HalvesKnown
<1>9. /\ euler.z = [cos |-> Unit, sin |-> 0]
      /\ euler.y.sin = Wholes(-a2)
  <2>1. atan2f(0, 0) = [cos |-> Unit, sin |-> 0]
    <3>1. Root(0 * 0 + 0 * 0) = 0
      <4>1. 0 \in 0..2 * Unit /\ 0 * 0 + 0 * 0 = 0 * 0
        BY Parts
      <4> QED
        BY ONLY <4>1, RootIs
    <3> QED
      BY <3>1 DEF atan2f
  <2> QED
    BY <1>3, <1>8, <2>1, WholeSineIs
<1> DEFINE r == MatrixRotateZYX(euler)
<1>10. /\ r[0] = euler.z.cos \otimes euler.y.cos
       /\ r[1] = euler.y.cos \otimes euler.z.sin
       /\ r[2] = -euler.y.sin
  BY DEF MatrixRotateZYX, Turning, Rows
<1> HIDE DEF r
<1>11. r[0] = 0 /\ r[1] = 0
  <2>1. Unit \otimes 0 = 0 /\ 0 \otimes 0 = 0
    BY HalvesKnown, TimesKnown
  <2> QED
    BY <1>5, <1>9, <1>10, <2>1
<1>12. r[2] = Wholes(a2)
  <2>1. -Wholes(-a2) = Wholes(a2)
    BY <1>2, Parts DEF Wholes
  <2> QED
    BY <1>9, <1>10, <2>1
<1> QED
  BY <1>4, <1>8, <1>11, <1>12 DEF r, euler

(* Heading and rotation of the angles.                                     *)
LEMMA RigidEuler ==
  ASSUME Rigid
  PROVE  EulerKeepsHeading
<1>1. CASE QuaternionToEuler(q).y.cos = 0
  BY <1>1, RigidLocked DEF EulerKeepsHeading
<1>2. CASE QuaternionToEuler(q).y.cos # 0
  <2>1. PICK n \in Counts, M \in Matrices :
          q = Attitude(n) /\ m = InWholes(M) /\ Turns(n, M)
    BY DEF Rigid
  <2>2. PICK K \in Matrices : Turns(n, K) /\ QuaternionToMatrix(q) = InWholes(K)
    BY <2>1, AttitudeTurns
  <2>3. K[0] = M[0] /\ K[1] = M[1] /\ K[2] = M[2]
    <3>1. 4 * K[0] = 4 * M[0] /\ 4 * K[1] = 4 * M[1] /\ 4 * K[2] = 4 * M[2]
      BY <2>1, <2>2, Zenon DEF Turns
    <3> QED
      BY <3>1, MatrixTypes
  <2>4. \A i \in 0..2 : InWholes(K)[i] = m[i]
    BY <2>1, <2>3 DEF InWholes
  <2> QED
    BY <1>2, <2>2, <2>4, RigidUnlocked DEF EulerKeepsHeading
<1> QED
  BY <1>1, <1>2
-----------------------------------------------------------------------------
(* The inverse of camera and projection.                                   *)

(* The transpose, which the initializers of Vector3Unproject make.         *)
Flipped(E) == [i \in 0..15 |-> E[4 * (i % 4) + i \div 4]]

(* The inverse of a rigid motion and a lens, in the order of its           *)
(* initializer; g is 1 / a, and h is 1 / (cf - de).                        *)
Undone(V, M, c, d, e, f, g, h) ==
  /\ V[0] = Wholes(g * M[0]) /\ V[1] = Wholes(M[4])
  /\ V[2] = h * (f * M[8] - e * M[12]) /\ V[3] = h * (c * M[12] - d * M[8])
  /\ V[4] = Wholes(g * M[1]) /\ V[5] = Wholes(M[5])
  /\ V[6] = h * (f * M[9] - e * M[13]) /\ V[7] = h * (c * M[13] - d * M[9])
  /\ V[8] = Wholes(g * M[2]) /\ V[9] = Wholes(M[6])
  /\ V[10] = h * (f * M[10] - e * M[14]) /\ V[11] = h * (c * M[14] - d * M[10])
  /\ V[12] = 0 /\ V[13] = 0 /\ V[14] = h * (-e) /\ V[15] = h * c

(* What is left of the entries of the adjoint when the determinant, a * k, *)
(* is divided out.                                                         *)
Divided(a, g, h, k) ==
  \A n \in Int : /\ Ratio(Wholes(k * n), a * k) = Wholes(g * n)
                 /\ Ratio((a * k) * n, a * k) = Wholes(n)
                 /\ Ratio(a * n, a * k) = h * n

(* Dividing by the determinant of a lens.                                  *)
LEMMA LensRatios ==
  ASSUME NEW a \in Int, NEW g \in Int, NEW h \in Int, NEW k \in Int, g * a = Unit, h * k = Unit
  PROVE  Divided(a, g, h, k)
<1>1. a # 0 /\ k # 0
  BY Parts
<1>2. a * k \in Int /\ a * k # 0
  BY <1>1
<1>3. ASSUME NEW n \in Int
      PROVE  /\ Wholes(k * n) * Unit = Wholes(g * n) * (a * k)
             /\ ((a * k) * n) * Unit = Wholes(n) * (a * k)
             /\ (a * n) * Unit = (h * n) * (a * k)
             /\ Wholes(k * n) \in Int /\ Wholes(g * n) \in Int /\ (a * k) * n \in Int
             /\ Wholes(n) \in Int /\ a * n \in Int /\ h * n \in Int
  <2>1. ((k * n) * Unit) * (g * a) = ((g * n) * Unit) * (a * k)
    BY Parts
  <2>2. ((k * n) * Unit) * Unit = ((g * n) * Unit) * (a * k)
    BY <2>1
  <2>3. ((a * k) * n) * Unit = (n * Unit) * (a * k)
    BY Parts
  <2>4. (a * n) * (h * k) = (h * n) * (a * k)
    OBVIOUS
  <2>5. (a * n) * Unit = (h * n) * (a * k)
    BY <2>4
  <2>6. k * n \in Int /\ g * n \in Int
    OBVIOUS
  <2> QED
    BY <2>2, <2>3, <2>5, <2>6, WholeTimes DEF Wholes
<1>4. ASSUME NEW n \in Int
      PROVE  /\ Ratio(Wholes(k * n), a * k) = Wholes(g * n)
             /\ Ratio((a * k) * n, a * k) = Wholes(n)
             /\ Ratio(a * n, a * k) = h * n
  <2> DEFINE y == a * k
             x1 == Wholes(k * n)
             x2 == y * n
             x3 == a * n
             z1 == Wholes(g * n)
             z2 == Wholes(n)
             z3 == h * n
  <2>1. /\ x1 * Unit = z1 * y /\ x2 * Unit = z2 * y /\ x3 * Unit = z3 * y
        /\ x1 \in Int /\ z1 \in Int /\ x2 \in Int /\ z2 \in Int /\ x3 \in Int /\ z3 \in Int
        /\ y \in Int /\ y # 0
    BY <1>2, <1>3
  <2>2. Ratio(x1, y) = z1 /\ Ratio(x2, y) = z2 /\ Ratio(x3, y) = z3
    <3> HIDE DEF x1, x2, x3, y, z1, z2, z3
    <3> QED
      BY <2>1, Quotient
  <2> QED
    BY <2>2
<1> QED
  BY <1>4 DEF Divided

(* MatrixInvert of the transpose: the minors of the first two rows are     *)
(* those of the rotation, and of the last two those of the rotation times  *)
(* cf - de.                                                                *)
LEMMA InvertLens ==
  ASSUME NEW M \in Matrices, Rotates(M), NEW a \in Int, NEW c \in Int, NEW d \in Int,
         NEW e \in Int, NEW f \in Int, NEW g \in Int, NEW h \in Int,
         g * a = Unit, h * (c * f - d * e) = Unit
  PROVE  Undone(MatrixInvert(Listed(Mixed(Composed(Reversed(M), Lens(a, c, d, e, f))))), M, c, d, e, f, g, h)
<1> DEFINE C == Reversed(M)
           E == Composed(C, Lens(a, c, d, e, f))
           I == Flipped(E)
           V == MatrixInvert(Listed(Mixed(E)))
           a0 == M[0]
           a1 == M[1]
           a2 == M[2]
           a4 == M[4]
           a5 == M[5]
           a6 == M[6]
           a8 == M[8]
           a9 == M[9]
           a10 == M[10]
           t0 == M[12]
           t1 == M[13]
           t2 == M[14]
           r0 == C[12]
           r1 == C[13]
           r2 == C[14]
           k == c * f - d * e
<1>1. /\ a0 \in Int /\ a1 \in Int /\ a2 \in Int /\ a4 \in Int
      /\ a5 \in Int /\ a6 \in Int /\ a8 \in Int /\ a9 \in Int
      /\ a10 \in Int /\ t0 \in Int /\ t1 \in Int /\ t2 \in Int
  BY MatrixTypes
<1>2. /\ a5 * a10 - a6 * a9 = a0 /\ a6 * a8 - a4 * a10 = a1
      /\ a4 * a9 - a5 * a8 = a2 /\ a2 * a9 - a1 * a10 = a4
      /\ a0 * a10 - a2 * a8 = a5 /\ a1 * a8 - a0 * a9 = a6
      /\ a1 * a6 - a2 * a5 = a8 /\ a2 * a4 - a0 * a6 = a9
      /\ a0 * a5 - a1 * a4 = a10 /\ a8 * a8 + a9 * a9 + a10 * a10 = 1
  BY DEF Rotates
<1>3. /\ a0 * a0 + a4 * a4 + a8 * a8 = 1 /\ a1 * a1 + a5 * a5 + a9 * a9 = 1
      /\ a2 * a2 + a6 * a6 + a10 * a10 = 1 /\ a0 * a1 + a4 * a5 + a8 * a9 = 0
      /\ a0 * a2 + a4 * a6 + a8 * a10 = 0 /\ a1 * a2 + a5 * a6 + a9 * a10 = 0
  BY DEF Rotates
<1>4. /\ C \in Matrices /\ Framed(C) /\ C[0] = a0
      /\ C[1] = a4 /\ C[2] = a8 /\ C[4] = a1
      /\ C[5] = a5 /\ C[6] = a9 /\ C[8] = a2
      /\ C[9] = a6 /\ C[10] = a10 /\ r0 = -(t0 * a0 + t1 * a1 + t2 * a2)
      /\ r1 = -(t0 * a4 + t1 * a5 + t2 * a6) /\ r2 = -(t0 * a8 + t1 * a9 + t2 * a10)
  BY ReversedEntries DEF Framed
<1>5. E \in Matrices /\ Imaged(E, C, a, c, d, e, f)
  BY <1>4, ThroughLens
<1> HIDE DEF C, E, k, a0, a1, a2, a4, a5, a6, a8, a9, a10, t0, t1, t2, r0, r1, r2
<1>6. /\ I \in Matrices /\ I[0] = a * a0 /\ I[1] = a * a1 /\ I[2] = a * a2
      /\ I[3] = a * r0 /\ I[4] = a4 /\ I[5] = a5 /\ I[6] = a6
      /\ I[7] = r1 /\ I[8] = c * a8 /\ I[9] = c * a9 /\ I[10] = c * a10
      /\ I[11] = c * r2 + d /\ I[12] = e * a8 /\ I[13] = e * a9 /\ I[14] = e * a10
      /\ I[15] = e * r2 + f
  <2>1. \A i \in 0..15 : 4 * (i % 4) + i \div 4 \in 0..15
    OBVIOUS
  <2>2. I \in Matrices
    BY <1>5, <2>1 DEF Flipped, Matrices
  <2>3. /\ I[0] = E[0] /\ I[1] = E[4] /\ I[2] = E[8] /\ I[3] = E[12]
        /\ I[4] = E[1] /\ I[5] = E[5] /\ I[6] = E[9] /\ I[7] = E[13]
        /\ I[8] = E[2] /\ I[9] = E[6] /\ I[10] = E[10] /\ I[11] = E[14]
        /\ I[12] = E[3] /\ I[13] = E[7] /\ I[14] = E[11] /\ I[15] = E[15]
    BY DEF Flipped
  <2>4. /\ E[0] = a * C[0] /\ E[1] = C[1] /\ E[2] = c * C[2] /\ E[3] = e * C[2]
        /\ E[4] = a * C[4] /\ E[5] = C[5] /\ E[6] = c * C[6] /\ E[7] = e * C[6]
        /\ E[8] = a * C[8] /\ E[9] = C[9] /\ E[10] = c * C[10] /\ E[11] = e * C[10]
        /\ E[12] = a * r0 /\ E[13] = r1 /\ E[14] = c * r2 + d /\ E[15] = e * r2 + f
    BY ONLY <1>5 DEF Imaged, r0, r1, r2
  <2> HIDE DEF I
  <2> QED
    BY ONLY <1>4, <2>2, <2>3, <2>4, Zenon
<1>7. Listed(Mixed(E)) = [i \in 0..15 |-> IF i < 4 THEN I[i] ELSE Wholes(I[i])]
  <2>1. Listed(Mixed(E)) = [i \in 0..15 |-> Mixed(E)[4 * (i % 4) + i \div 4]]
    BY DEF Listed, Rows
  <2>2. \A i \in 0..15 : /\ 4 * (i % 4) + i \div 4 \in 0..15
                         /\ (4 * (i % 4) + i \div 4) % 4 = 0 <=> i < 4
    OBVIOUS
  <2>3. \A i \in 0..15 : Mixed(E)[4 * (i % 4) + i \div 4] = IF i < 4 THEN I[i] ELSE Wholes(I[i])
    BY <2>2 DEF Mixed, Flipped
  <2> QED
    BY <2>1, <2>3
<1>8. /\ r0 \in Int /\ r1 \in Int /\ r2 \in Int /\ k \in Int /\ k = c * f - d * e
      /\ g * a = Unit /\ h * k = Unit /\ a * k \in Int
  BY <1>1, <1>4 DEF k
<1>9. /\ r0 * a0 + r1 * a4 + r2 * a8 = -t0
      /\ r0 * a1 + r1 * a5 + r2 * a9 = -t1
      /\ r0 * a2 + r1 * a6 + r2 * a10 = -t2
  <2>1. /\ r0 * a0 + r1 * a4 + r2 * a8
             = -(t0 * (a0 * a0 + a4 * a4 + a8 * a8) + t1 * (a0 * a1 + a4 * a5 + a8 * a9)
                   + t2 * (a0 * a2 + a4 * a6 + a8 * a10))
        /\ r0 * a1 + r1 * a5 + r2 * a9
             = -(t0 * (a0 * a1 + a4 * a5 + a8 * a9) + t1 * (a1 * a1 + a5 * a5 + a9 * a9)
                   + t2 * (a1 * a2 + a5 * a6 + a9 * a10))
        /\ r0 * a2 + r1 * a6 + r2 * a10
             = -(t0 * (a0 * a2 + a4 * a6 + a8 * a10) + t1 * (a1 * a2 + a5 * a6 + a9 * a10)
                   + t2 * (a2 * a2 + a6 * a6 + a10 * a10))
    BY <1>1, <1>4
  <2>2. /\ r0 * a0 + r1 * a4 + r2 * a8 = -(t0 * 1 + t1 * 0 + t2 * 0)
        /\ r0 * a1 + r1 * a5 + r2 * a9 = -(t0 * 0 + t1 * 1 + t2 * 0)
        /\ r0 * a2 + r1 * a6 + r2 * a10 = -(t0 * 0 + t1 * 0 + t2 * 1)
    BY <1>3, <2>1
  <2> QED
    BY <1>1, <2>2
<1> HIDE DEF I
<1> DEFINE b0 == I[0] * I[5] - I[1] * I[4]
           b1 == I[0] * I[6] - I[2] * I[4]
           b2 == I[0] * I[7] - I[3] * I[4]
           b3 == I[1] * I[6] - I[2] * I[5]
           b4 == I[1] * I[7] - I[3] * I[5]
           b5 == I[2] * I[7] - I[3] * I[6]
           b6 == I[8] * I[13] - I[9] * I[12]
           b7 == I[8] * I[14] - I[10] * I[12]
           b8 == I[8] * I[15] - I[11] * I[12]
           b9 == I[9] * I[14] - I[10] * I[13]
           b10 == I[9] * I[15] - I[11] * I[13]
           b11 == I[10] * I[15] - I[11] * I[14]
           D == b0 * b11 - b1 * b10 + b2 * b9 + b3 * b8 - b4 * b7 + b5 * b6
<1>10. /\ b0 = a * a10
       /\ b1 = -(a * a9)
       /\ b2 = a * (a0 * r1 - r0 * a4)
       /\ b3 = a * a8
       /\ b4 = a * (a1 * r1 - r0 * a5)
       /\ b5 = a * (a2 * r1 - r0 * a6)
       /\ b6 = 0
       /\ b7 = 0
       /\ b8 = k * a8
       /\ b9 = 0
       /\ b10 = k * a9
       /\ b11 = k * a10
  <2>1. /\ b0 = (a * a0) * a5 - (a * a1) * a4
        /\ b1 = (a * a0) * a6 - (a * a2) * a4
        /\ b2 = (a * a0) * r1 - (a * r0) * a4
        /\ b3 = (a * a1) * a6 - (a * a2) * a5
        /\ b4 = (a * a1) * r1 - (a * r0) * a5
        /\ b5 = (a * a2) * r1 - (a * r0) * a6
        /\ b6 = (c * a8) * (e * a9) - (c * a9) * (e * a8)
        /\ b7 = (c * a8) * (e * a10) - (c * a10) * (e * a8)
        /\ b8 = (c * a8) * (e * r2 + f) - (c * r2 + d) * (e * a8)
        /\ b9 = (c * a9) * (e * a10) - (c * a10) * (e * a9)
        /\ b10 = (c * a9) * (e * r2 + f) - (c * r2 + d) * (e * a9)
        /\ b11 = (c * a10) * (e * r2 + f) - (c * r2 + d) * (e * a10)
    BY <1>6
  <2>2. /\ (a * a0) * a5 - (a * a1) * a4 = a * (a0 * a5 - a1 * a4)
        /\ (a * a0) * a6 - (a * a2) * a4 = -(a * (a2 * a4 - a0 * a6))
        /\ (a * a0) * r1 - (a * r0) * a4 = a * (a0 * r1 - r0 * a4)
        /\ (a * a1) * a6 - (a * a2) * a5 = a * (a1 * a6 - a2 * a5)
        /\ (a * a1) * r1 - (a * r0) * a5 = a * (a1 * r1 - r0 * a5)
        /\ (a * a2) * r1 - (a * r0) * a6 = a * (a2 * r1 - r0 * a6)
    BY <1>1, <1>8
  <2>3. /\ (c * a8) * (e * a9) - (c * a9) * (e * a8) = 0
        /\ (c * a8) * (e * a10) - (c * a10) * (e * a8) = 0
        /\ (c * a8) * (e * r2 + f) - (c * r2 + d) * (e * a8) = k * a8
        /\ (c * a9) * (e * a10) - (c * a10) * (e * a9) = 0
        /\ (c * a9) * (e * r2 + f) - (c * r2 + d) * (e * a9) = k * a9
        /\ (c * a10) * (e * r2 + f) - (c * r2 + d) * (e * a10) = k * a10
    BY <1>1, <1>8
  <2> QED
    BY ONLY <1>2, <2>1, <2>2, <2>3, Zenon
<1> HIDE DEF b0, b1, b2, b3, b4, b5, b6, b7, b8, b9, b10, b11
<1>11. D = a * k
  <2>1. D = (a * a10) * (k * a10) - (-(a * a9)) * (k * a9) + b2 * 0 + (a * a8) * (k * a8) - b4 * 0 + b5 * 0
    BY <1>10
  <2>2. b2 \in Int /\ b4 \in Int /\ b5 \in Int
    BY <1>1, <1>8, <1>10
  <2>3. D = (a * k) * (a8 * a8 + a9 * a9 + a10 * a10)
    BY <1>1, <1>8, <2>1, <2>2
  <2> QED
    BY <1>2, <1>8, <2>3
<1> HIDE DEF D
<1> DEFINE n0 == I[5] * b11 - I[6] * b10 + I[7] * b9
           n1 == I[1] * b11 - I[2] * b10 + I[3] * b9
           n2 == I[13] * b5 - I[14] * b4 + I[15] * b3
           n3 == I[9] * b5 - I[10] * b4 + I[11] * b3
           n4 == I[4] * b11 - I[6] * b8 + I[7] * b7
           n5 == I[0] * b11 - I[2] * b8 + I[3] * b7
           n6 == I[12] * b5 - I[14] * b2 + I[15] * b1
           n7 == I[8] * b5 - I[10] * b2 + I[11] * b1
           n8 == I[4] * b10 - I[5] * b8 + I[7] * b6
           n9 == I[0] * b10 - I[1] * b8 + I[3] * b6
           n10 == I[12] * b4 - I[13] * b2 + I[15] * b0
           n11 == I[8] * b4 - I[9] * b2 + I[11] * b0
           n12 == I[4] * b9 - I[5] * b7 + I[6] * b6
           n13 == I[0] * b9 - I[1] * b7 + I[2] * b6
           n14 == I[12] * b3 - I[13] * b1 + I[14] * b0
           n15 == I[8] * b3 - I[9] * b1 + I[10] * b0
<1>12. /\ n0 = k * a0
       /\ n1 = (a * k) * (-a4)
       /\ n2 = a * (f * a8 - e * t0)
       /\ n3 = a * (-(c * t0 - d * a8))
       /\ n4 = k * (-a1)
       /\ n5 = (a * k) * a5
       /\ n6 = a * (-(f * a9 - e * t1))
       /\ n7 = a * (c * t1 - d * a9)
       /\ n8 = k * a2
       /\ n9 = (a * k) * (-a6)
       /\ n10 = a * (f * a10 - e * t2)
       /\ n11 = a * (-(c * t2 - d * a10))
       /\ n12 = 0
       /\ n13 = 0
       /\ n14 = a * e
       /\ n15 = a * c
  <2>1. /\ n0 = a5 * (k * a10) - a6 * (k * a9) + r1 * 0
        /\ n1 = (a * a1) * (k * a10) - (a * a2) * (k * a9) + (a * r0) * 0
        /\ n2 = (e * a9) * (a * (a2 * r1 - r0 * a6)) - (e * a10) * (a * (a1 * r1 - r0 * a5)) + (e * r2 + f) * (a * a8)
        /\ n3 = (c * a9) * (a * (a2 * r1 - r0 * a6)) - (c * a10) * (a * (a1 * r1 - r0 * a5)) + (c * r2 + d) * (a * a8)
        /\ n4 = a4 * (k * a10) - a6 * (k * a8) + r1 * 0
        /\ n5 = (a * a0) * (k * a10) - (a * a2) * (k * a8) + (a * r0) * 0
        /\ n6 = (e * a8) * (a * (a2 * r1 - r0 * a6)) - (e * a10) * (a * (a0 * r1 - r0 * a4)) + (e * r2 + f) * (-(a * a9))
        /\ n7 = (c * a8) * (a * (a2 * r1 - r0 * a6)) - (c * a10) * (a * (a0 * r1 - r0 * a4)) + (c * r2 + d) * (-(a * a9))
        /\ n8 = a4 * (k * a9) - a5 * (k * a8) + r1 * 0
        /\ n9 = (a * a0) * (k * a9) - (a * a1) * (k * a8) + (a * r0) * 0
        /\ n10 = (e * a8) * (a * (a1 * r1 - r0 * a5)) - (e * a9) * (a * (a0 * r1 - r0 * a4)) + (e * r2 + f) * (a * a10)
        /\ n11 = (c * a8) * (a * (a1 * r1 - r0 * a5)) - (c * a9) * (a * (a0 * r1 - r0 * a4)) + (c * r2 + d) * (a * a10)
        /\ n12 = a4 * 0 - a5 * 0 + a6 * 0
        /\ n13 = (a * a0) * 0 - (a * a1) * 0 + (a * a2) * 0
        /\ n14 = (e * a8) * (a * a8) - (e * a9) * (-(a * a9)) + (e * a10) * (a * a10)
        /\ n15 = (c * a8) * (a * a8) - (c * a9) * (-(a * a9)) + (c * a10) * (a * a10)
    BY <1>6, <1>10
  <2>2. /\ a5 * (k * a10) - a6 * (k * a9) + r1 * 0
             = k * (a5 * a10 - a6 * a9)
        /\ (a * a1) * (k * a10) - (a * a2) * (k * a9) + (a * r0) * 0
             = (a * k) * (-(a2 * a9 - a1 * a10))
        /\ (e * a9) * (a * (a2 * r1 - r0 * a6)) - (e * a10) * (a * (a1 * r1 - r0 * a5)) + (e * r2 + f) * (a * a8)
             = a * (e * (r0 * (a5 * a10 - a6 * a9) + r1 * (a2 * a9 - a1 * a10) + r2 * a8) + f * a8)
        /\ (c * a9) * (a * (a2 * r1 - r0 * a6)) - (c * a10) * (a * (a1 * r1 - r0 * a5)) + (c * r2 + d) * (a * a8)
             = a * (c * (r0 * (a5 * a10 - a6 * a9) + r1 * (a2 * a9 - a1 * a10) + r2 * a8) + d * a8)
    BY <1>1, <1>8
  <2>3. /\ a4 * (k * a10) - a6 * (k * a8) + r1 * 0
             = k * (-(a6 * a8 - a4 * a10))
        /\ (a * a0) * (k * a10) - (a * a2) * (k * a8) + (a * r0) * 0
             = (a * k) * (a0 * a10 - a2 * a8)
        /\ (e * a8) * (a * (a2 * r1 - r0 * a6)) - (e * a10) * (a * (a0 * r1 - r0 * a4)) + (e * r2 + f) * (-(a * a9))
             = a * (-(e * (r0 * (a6 * a8 - a4 * a10) + r1 * (a0 * a10 - a2 * a8) + r2 * a9) + f * a9))
        /\ (c * a8) * (a * (a2 * r1 - r0 * a6)) - (c * a10) * (a * (a0 * r1 - r0 * a4)) + (c * r2 + d) * (-(a * a9))
             = a * (-(c * (r0 * (a6 * a8 - a4 * a10) + r1 * (a0 * a10 - a2 * a8) + r2 * a9) + d * a9))
    BY <1>1, <1>8
  <2>4. /\ a4 * (k * a9) - a5 * (k * a8) + r1 * 0
             = k * (a4 * a9 - a5 * a8)
        /\ (a * a0) * (k * a9) - (a * a1) * (k * a8) + (a * r0) * 0
             = (a * k) * (-(a1 * a8 - a0 * a9))
        /\ (e * a8) * (a * (a1 * r1 - r0 * a5)) - (e * a9) * (a * (a0 * r1 - r0 * a4)) + (e * r2 + f) * (a * a10)
             = a * (e * (r0 * (a4 * a9 - a5 * a8) + r1 * (a1 * a8 - a0 * a9) + r2 * a10) + f * a10)
        /\ (c * a8) * (a * (a1 * r1 - r0 * a5)) - (c * a9) * (a * (a0 * r1 - r0 * a4)) + (c * r2 + d) * (a * a10)
             = a * (c * (r0 * (a4 * a9 - a5 * a8) + r1 * (a1 * a8 - a0 * a9) + r2 * a10) + d * a10)
    BY <1>1, <1>8
  <2>5. /\ a4 * 0 - a5 * 0 + a6 * 0
             = 0
        /\ (a * a0) * 0 - (a * a1) * 0 + (a * a2) * 0
             = 0
        /\ (e * a8) * (a * a8) - (e * a9) * (-(a * a9)) + (e * a10) * (a * a10)
             = a * (e * (a8 * a8 + a9 * a9 + a10 * a10))
        /\ (c * a8) * (a * a8) - (c * a9) * (-(a * a9)) + (c * a10) * (a * a10)
             = a * (c * (a8 * a8 + a9 * a9 + a10 * a10))
    BY <1>1, <1>8
  <2>6. /\ n0 = k * a0
        /\ n1 = (a * k) * (-a4)
        /\ n2 = a * (e * (r0 * a0 + r1 * a4 + r2 * a8) + f * a8)
        /\ n3 = a * (c * (r0 * a0 + r1 * a4 + r2 * a8) + d * a8)
    BY <1>2, <2>1, <2>2
  <2>7. /\ n4 = k * (-a1)
        /\ n5 = (a * k) * a5
        /\ n6 = a * (-(e * (r0 * a1 + r1 * a5 + r2 * a9) + f * a9))
        /\ n7 = a * (-(c * (r0 * a1 + r1 * a5 + r2 * a9) + d * a9))
    BY <1>2, <2>1, <2>3
  <2>8. /\ n8 = k * a2
        /\ n9 = (a * k) * (-a6)
        /\ n10 = a * (e * (r0 * a2 + r1 * a6 + r2 * a10) + f * a10)
        /\ n11 = a * (c * (r0 * a2 + r1 * a6 + r2 * a10) + d * a10)
    BY <1>2, <2>1, <2>4
  <2>9. /\ n12 = 0
        /\ n13 = 0
        /\ n14 = a * (e * 1)
        /\ n15 = a * (c * 1)
    BY <1>2, <2>1, <2>5
  <2>10. /\ n2 = a * (e * (-t0) + f * a8)
         /\ n3 = a * (c * (-t0) + d * a8)
         /\ n6 = a * (-(e * (-t1) + f * a9))
         /\ n7 = a * (-(c * (-t1) + d * a9))
         /\ n10 = a * (e * (-t2) + f * a10)
         /\ n11 = a * (c * (-t2) + d * a10)
    BY <1>9, <2>6, <2>7, <2>8
  <2>11. /\ n2 = a * (f * a8 - e * t0)
         /\ n3 = a * (-(c * t0 - d * a8))
         /\ n6 = a * (-(f * a9 - e * t1))
         /\ n7 = a * (c * t1 - d * a9)
         /\ n10 = a * (f * a10 - e * t2)
         /\ n11 = a * (-(c * t2 - d * a10))
    BY <1>1, <2>10
  <2>12. n14 = a * e /\ n15 = a * c
    BY <2>9
  <2> QED
    BY <2>6, <2>7, <2>8, <2>9, <2>11, <2>12
<1>13. I \in Matrices
  BY <1>6
<1> DEFINE X == Listed(Mixed(E))
<1>14. X = [i \in 0..15 |-> IF i < 4 THEN I[i] ELSE Wholes(I[i])]
  BY <1>7
<1> HIDE DEF X
<1>15. LET Y == MatrixInvert(X)
       IN  /\ Y[0] = Ratio(Wholes(n0), D)
           /\ Y[1] = -Ratio(n1, D)
           /\ Y[2] = Ratio(n2, D)
           /\ Y[3] = -Ratio(n3, D)
           /\ Y[4] = -Ratio(Wholes(n4), D)
           /\ Y[5] = Ratio(n5, D)
           /\ Y[6] = -Ratio(n6, D)
           /\ Y[7] = Ratio(n7, D)
           /\ Y[8] = Ratio(Wholes(n8), D)
           /\ Y[9] = -Ratio(n9, D)
           /\ Y[10] = Ratio(n10, D)
           /\ Y[11] = -Ratio(n11, D)
           /\ Y[12] = -Ratio(Wholes(n12), D)
           /\ Y[13] = Ratio(n13, D)
           /\ Y[14] = -Ratio(n14, D)
           /\ Y[15] = Ratio(n15, D)
  <2>1. Inverted(MatrixInvert(X), I)
    BY <1>13, <1>14, InvertEntries
  <2> QED
    BY ONLY <2>1 DEF Inverted, D, b0, b1, b2, b3, b4, b5, b6, b7, b8, b9, b10, b11,
                     n0, n1, n2, n3, n4, n5, n6, n7, n8, n9, n10, n11, n12, n13, n14, n15
<1>16. /\ V[0] = Ratio(Wholes(n0), D)
       /\ V[1] = -Ratio(n1, D)
       /\ V[2] = Ratio(n2, D)
       /\ V[3] = -Ratio(n3, D)
       /\ V[4] = -Ratio(Wholes(n4), D)
       /\ V[5] = Ratio(n5, D)
       /\ V[6] = -Ratio(n6, D)
       /\ V[7] = Ratio(n7, D)
       /\ V[8] = Ratio(Wholes(n8), D)
       /\ V[9] = -Ratio(n9, D)
       /\ V[10] = Ratio(n10, D)
       /\ V[11] = -Ratio(n11, D)
       /\ V[12] = -Ratio(Wholes(n12), D)
       /\ V[13] = Ratio(n13, D)
       /\ V[14] = -Ratio(n14, D)
       /\ V[15] = Ratio(n15, D)
  BY <1>15 DEF X
<1> HIDE DEF V, n0, n1, n2, n3, n4, n5, n6, n7, n8, n9, n10, n11, n12, n13, n14, n15
<1> DEFINE x2 == f * a8 - e * t0
           x3 == c * t0 - d * a8
           x6 == f * a9 - e * t1
           x7 == c * t1 - d * a9
           x10 == f * a10 - e * t2
           x11 == c * t2 - d * a10
<1>17. /\ x2 \in Int /\ -x2 \in Int /\ x3 \in Int /\ -x3 \in Int
       /\ x6 \in Int /\ -x6 \in Int /\ x7 \in Int /\ -x7 \in Int
       /\ x10 \in Int /\ -x10 \in Int /\ x11 \in Int /\ -x11 \in Int
       /\ -a4 \in Int /\ -a1 \in Int
       /\ -a6 \in Int /\ 0 \in Int
  BY <1>1
<1> HIDE DEF x2, x3, x6, x7, x10, x11
<1>18. \A n \in Int :
         /\ Ratio(Wholes(k * n), D) = Wholes(g * n)
         /\ Ratio((a * k) * n, D) = Wholes(n)
         /\ Ratio(a * n, D) = h * n
  <2>1. a \in Int /\ g \in Int /\ h \in Int
    OBVIOUS
  <2>2. \A n \in Int : /\ Ratio(Wholes(k * n), a * k) = Wholes(g * n)
                       /\ Ratio((a * k) * n, a * k) = Wholes(n)
                       /\ Ratio(a * n, a * k) = h * n
    <3>1. Divided(a, g, h, k)
      BY ONLY <1>8, <2>1, LensRatios, Zenon
    <3> QED
      BY ONLY <3>1 DEF Divided
  <2> QED
    BY ONLY <1>11, <2>2, Zenon
<1>19. /\ Ratio(Wholes(k * a0), D) = Wholes(g * a0)
       /\ Ratio((a * k) * (-a4), D) = Wholes(-a4)
       /\ Ratio(a * x2, D) = h * x2
       /\ Ratio(a * (-x3), D) = h * (-x3)
       /\ Ratio(Wholes(k * (-a1)), D) = Wholes(g * (-a1))
       /\ Ratio((a * k) * a5, D) = Wholes(a5)
       /\ Ratio(a * (-x6), D) = h * (-x6)
       /\ Ratio(a * x7, D) = h * x7
       /\ Ratio(Wholes(k * a2), D) = Wholes(g * a2)
       /\ Ratio((a * k) * (-a6), D) = Wholes(-a6)
       /\ Ratio(a * x10, D) = h * x10
       /\ Ratio(a * (-x11), D) = h * (-x11)
       /\ Ratio(Wholes(k * 0), D) = Wholes(g * 0)
       /\ Ratio(a * 0, D) = h * 0
       /\ Ratio(a * e, D) = h * e
       /\ Ratio(a * c, D) = h * c
  BY ONLY <1>1, <1>17, <1>18, Zenon
<1>20. /\ Wholes(n0) = Wholes(k * a0)
       /\ n1 = (a * k) * (-a4)
       /\ n2 = a * x2
       /\ n3 = a * (-x3)
       /\ Wholes(n4) = Wholes(k * (-a1))
       /\ n5 = (a * k) * a5
       /\ n6 = a * (-x6)
       /\ n7 = a * x7
       /\ Wholes(n8) = Wholes(k * a2)
       /\ n9 = (a * k) * (-a6)
       /\ n10 = a * x10
       /\ n11 = a * (-x11)
       /\ Wholes(n12) = Wholes(k * 0)
       /\ n13 = a * 0
       /\ n14 = a * e
       /\ n15 = a * c
  BY <1>1, <1>8, <1>12 DEF x2, x3, x6, x7, x10, x11
<1>21. /\ -Wholes(-a4) = Wholes(a4)
       /\ -h * (-x3) = h * x3
       /\ -Wholes(g * (-a1)) = Wholes(g * a1)
       /\ -h * (-x6) = h * x6
       /\ -Wholes(-a6) = Wholes(a6)
       /\ -h * (-x11) = h * x11
  BY <1>1, <1>8, <1>17, Parts DEF Wholes
<1>22. -(h * e) = h * (-e)
  BY <1>8
<1>23. -Wholes(g * 0) = 0 /\ h * 0 = 0
  BY <1>8, NegatedZero, HalvesKnown
<1>24. /\ V[0] = Wholes(g * a0)
       /\ V[1] = Wholes(a4)
       /\ V[2] = h * x2
       /\ V[3] = h * x3
       /\ V[4] = Wholes(g * a1)
       /\ V[5] = Wholes(a5)
       /\ V[6] = h * x6
       /\ V[7] = h * x7
       /\ V[8] = Wholes(g * a2)
       /\ V[9] = Wholes(a6)
       /\ V[10] = h * x10
       /\ V[11] = h * x11
       /\ V[12] = 0
       /\ V[13] = 0
       /\ V[14] = h * (-e)
       /\ V[15] = h * c
  BY ONLY <1>16, <1>19, <1>20, <1>21, <1>22, <1>23, Zenon
<1> QED
  BY ONLY <1>24 DEF Undone, V, x2, x3, x6, x7, x10, x11, a0, a1, a2, a4, a5, a6, a8,
       a9, a10, t0, t1, t2, E, C
-----------------------------------------------------------------------------
(* A point on its way to the screen.                                       *)

(* Vector3Transform of a point with whole coordinates.                     *)
LEMMA TransformWholes ==
  ASSUME NEW M \in Matrices, NEW x \in Int, NEW y \in Int, NEW z \in Int
  PROVE  Vector3Transform(WholeVector(x, y, z), InWholes(M))
           = WholeVector(M[0] * x + M[4] * y + M[8] * z + M[12],
                         M[1] * x + M[5] * y + M[9] * z + M[13],
                         M[2] * x + M[6] * y + M[10] * z + M[14])
<1> DEFINE v == WholeVector(x, y, z)
<1>1. /\ v.x = Wholes(x) /\ v.y = Wholes(y) /\ v.z = Wholes(z)
      /\ Wholes(x) \in Int /\ Wholes(y) \in Int /\ Wholes(z) \in Int
  BY WholeTimes DEF WholeVector, Vector
<1> HIDE DEF v
<1>2. Vector3Transform(v, InWholes(M))
        = Vector(M[0] * Wholes(x) + M[4] * Wholes(y) + M[8] * Wholes(z) + Wholes(M[12]),
                 M[1] * Wholes(x) + M[5] * Wholes(y) + M[9] * Wholes(z) + Wholes(M[13]),
                 M[2] * Wholes(x) + M[6] * Wholes(y) + M[10] * Wholes(z) + Wholes(M[14]))
  BY <1>1, TransformEntries
<1> DEFINE Sums(i, j, k, l) ==
             i * Wholes(x) + j * Wholes(y) + k * Wholes(z) + Wholes(l) = Wholes(i * x + j * y + k * z + l)
<1>3. \A i, j, k, l \in Int : Sums(i, j, k, l)
  BY Parts DEF Wholes
<1> HIDE DEF Sums
<1>4. Sums(M[0], M[4], M[8], M[12]) /\ Sums(M[1], M[5], M[9], M[13]) /\ Sums(M[2], M[6], M[10], M[14])
  BY MatrixTypes, <1>3
<1> QED
  BY <1>2, <1>4 DEF WholeVector, v, Sums

(* The camera sees a point of the body where the body has it.              *)
LEMMA SeenAgain ==
  ASSUME NEW M \in Matrices, Rotates(M), NEW x \in Int, NEW y \in Int, NEW z \in Int
  PROVE  QuaternionTransform(Quaternion(Wholes(M[0] * x + M[4] * y + M[8] * z + M[12]),
                                        Wholes(M[1] * x + M[5] * y + M[9] * z + M[13]),
                                        Wholes(M[2] * x + M[6] * y + M[10] * z + M[14]), Unit),
                             InWholes(Reversed(M)))
           = Quaternion(Wholes(x), Wholes(y), Wholes(z), Unit)
<1> DEFINE C == Reversed(M)
           a0 == M[0]
           a1 == M[1]
           a2 == M[2]
           a4 == M[4]
           a5 == M[5]
           a6 == M[6]
           a8 == M[8]
           a9 == M[9]
           a10 == M[10]
           t0 == M[12]
           t1 == M[13]
           t2 == M[14]
           p0 == a0 * x + a4 * y + a8 * z + t0
           p1 == a1 * x + a5 * y + a9 * z + t1
           p2 == a2 * x + a6 * y + a10 * z + t2
           p == Quaternion(Wholes(p0), Wholes(p1), Wholes(p2), Unit)
<1>1. /\ a0 \in Int /\ a1 \in Int /\ a2 \in Int /\ a4 \in Int
      /\ a5 \in Int /\ a6 \in Int /\ a8 \in Int /\ a9 \in Int
      /\ a10 \in Int /\ t0 \in Int /\ t1 \in Int /\ t2 \in Int
  BY MatrixTypes
<1>2. /\ a0 * a0 + a1 * a1 + a2 * a2 = 1 /\ a4 * a4 + a5 * a5 + a6 * a6 = 1
      /\ a8 * a8 + a9 * a9 + a10 * a10 = 1 /\ a0 * a4 + a1 * a5 + a2 * a6 = 0
      /\ a0 * a8 + a1 * a9 + a2 * a10 = 0 /\ a4 * a8 + a5 * a9 + a6 * a10 = 0
  BY DEF Rotates
<1>3. /\ C \in Matrices /\ C[0] = a0 /\ C[1] = a4 /\ C[2] = a8 /\ C[3] = 0 /\ C[4] = a1
      /\ C[5] = a5 /\ C[6] = a9 /\ C[7] = 0 /\ C[8] = a2 /\ C[9] = a6 /\ C[10] = a10 /\ C[11] = 0
      /\ C[12] = -(t0 * a0 + t1 * a1 + t2 * a2) /\ C[13] = -(t0 * a4 + t1 * a5 + t2 * a6)
      /\ C[14] = -(t0 * a8 + t1 * a9 + t2 * a10) /\ C[15] = 1
  BY ReversedEntries
<1>4. p.x = Wholes(p0) /\ p.y = Wholes(p1) /\ p.z = Wholes(p2) /\ p.w = Unit /\ Unit = Wholes(1)
  BY HalvesKnown DEF Quaternion
<1>5. p0 \in Int /\ p1 \in Int /\ p2 \in Int /\ 1 \in Int
  BY <1>1
<1> HIDE DEF C, p, p0, p1, p2
<1> DEFINE Sum(i) == C[i] * p0 + C[i + 4] * p1 + C[i + 8] * p2 + C[i + 12] * 1
<1>6. ASSUME NEW i \in 0..3
      PROVE  InWholes(C)[i] \otimes p.x + InWholes(C)[i + 4] \otimes p.y
               + InWholes(C)[i + 8] \otimes p.z + InWholes(C)[i + 12] \otimes p.w = Wholes(Sum(i))
  <2>1. /\ i \in 0..15 /\ i + 4 \in 0..15 /\ i + 8 \in 0..15 /\ i + 12 \in 0..15
    OBVIOUS
  <2>2. /\ InWholes(C)[i] = Wholes(C[i]) /\ InWholes(C)[i + 4] = Wholes(C[i + 4])
        /\ InWholes(C)[i + 8] = Wholes(C[i + 8]) /\ InWholes(C)[i + 12] = Wholes(C[i + 12])
        /\ C[i] \in Int /\ C[i + 4] \in Int /\ C[i + 8] \in Int /\ C[i + 12] \in Int
    BY <1>3, <2>1 DEF InWholes, Matrices
  <2>3. /\ Wholes(C[i]) \otimes Wholes(p0) = Wholes(C[i] * p0)
        /\ Wholes(C[i + 4]) \otimes Wholes(p1) = Wholes(C[i + 4] * p1)
        /\ Wholes(C[i + 8]) \otimes Wholes(p2) = Wholes(C[i + 8] * p2)
        /\ Wholes(C[i + 12]) \otimes Wholes(1) = Wholes(C[i + 12] * 1)
    BY <1>5, <2>2, WholeByWhole
  <2>4. Wholes(C[i] * p0) + Wholes(C[i + 4] * p1) + Wholes(C[i + 8] * p2) + Wholes(C[i + 12] * 1)
          = Wholes(Sum(i))
    <3> DEFINE k0 == C[i] * p0
               k1 == C[i + 4] * p1
               k2 == C[i + 8] * p2
               k3 == C[i + 12] * 1
    <3>1. k0 \in Int /\ k1 \in Int /\ k2 \in Int /\ k3 \in Int
      BY <1>5, <2>2
    <3> HIDE DEF k0, k1, k2, k3
    <3>2. Wholes(k0) + Wholes(k1) + Wholes(k2) + Wholes(k3) = Wholes(k0 + k1 + k2 + k3)
      BY <3>1, Parts DEF Wholes
    <3> QED
      BY <3>2 DEF k0, k1, k2, k3
  <2> QED
    BY <1>4, <2>2, <2>3, <2>4
<1>7. Sum(0) = x /\ Sum(1) = y /\ Sum(2) = z /\ Sum(3) = 1
  <2>1. /\ Sum(0) = C[0] * p0 + C[4] * p1 + C[8] * p2 + C[12] * 1
        /\ Sum(1) = C[1] * p0 + C[5] * p1 + C[9] * p2 + C[13] * 1
        /\ Sum(2) = C[2] * p0 + C[6] * p1 + C[10] * p2 + C[14] * 1
        /\ Sum(3) = C[3] * p0 + C[7] * p1 + C[11] * p2 + C[15] * 1
    OBVIOUS
  <2> HIDE DEF Sum, a0, a1, a2, a4, a5, a6, a8, a9, a10, t0, t1, t2
  <2>2. /\ Sum(0) = a0 * p0 + a1 * p1 + a2 * p2 + (-(t0 * a0 + t1 * a1 + t2 * a2)) * 1
        /\ Sum(1) = a4 * p0 + a5 * p1 + a6 * p2 + (-(t0 * a4 + t1 * a5 + t2 * a6)) * 1
        /\ Sum(2) = a8 * p0 + a9 * p1 + a10 * p2 + (-(t0 * a8 + t1 * a9 + t2 * a10)) * 1
        /\ Sum(3) = 0 * p0 + 0 * p1 + 0 * p2 + 1 * 1
    BY ONLY <1>3, <2>1
  <2>3. /\ Sum(0) = (a0 * a0 + a1 * a1 + a2 * a2) * x + (a0 * a4 + a1 * a5 + a2 * a6) * y
                      + (a0 * a8 + a1 * a9 + a2 * a10) * z
        /\ Sum(1) = (a0 * a4 + a1 * a5 + a2 * a6) * x + (a4 * a4 + a5 * a5 + a6 * a6) * y
                      + (a4 * a8 + a5 * a9 + a6 * a10) * z
        /\ Sum(2) = (a0 * a8 + a1 * a9 + a2 * a10) * x + (a4 * a8 + a5 * a9 + a6 * a10) * y
                      + (a8 * a8 + a9 * a9 + a10 * a10) * z
    BY <1>1, <2>2 DEF p0, p1, p2
  <2>4. /\ Sum(0) = 1 * x + 0 * y + 0 * z
        /\ Sum(1) = 0 * x + 1 * y + 0 * z
        /\ Sum(2) = 0 * x + 0 * y + 1 * z
    BY ONLY <1>2, <2>3
  <2>5. Sum(3) = 1
    BY <1>5, <2>2
  <2> QED
    BY <2>4, <2>5
<1> HIDE DEF Sum
<1>8. QuaternionTransform(p, InWholes(C))
        = Quaternion(Wholes(Sum(0)), Wholes(Sum(1)), Wholes(Sum(2)), Wholes(Sum(3)))
  BY <1>6 DEF QuaternionTransform
<1> QED
  BY <1>4, <1>7, <1>8 DEF p, p0, p1, p2, C

(* What a lens makes of a point.                                           *)
Projected(a, c, d, e, f, x, y, z) ==
  QuaternionTransform(Quaternion(Wholes(x), Wholes(y), Wholes(z), Unit), Mixed(Lens(a, c, d, e, f)))
    = Quaternion(a * x, Wholes(y), Wholes(c * z + d), Wholes(e * z + f))

(* QuaternionTransform by a lens.                                          *)
LEMMA LensTransform ==
  ASSUME NEW a \in Int, NEW c \in Int, NEW d \in Int, NEW e \in Int, NEW f \in Int,
         NEW x \in Int, NEW y \in Int, NEW z \in Int
  PROVE  Projected(a, c, d, e, f, x, y, z)
<1> DEFINE L == Mixed(Lens(a, c, d, e, f))
           p == Quaternion(Wholes(x), Wholes(y), Wholes(z), Unit)
<1>1. /\ L[0] = a /\ L[4] = Wholes(0) /\ L[8] = Wholes(0) /\ L[12] = Wholes(0)
      /\ L[1] = Wholes(0) /\ L[5] = Wholes(1) /\ L[9] = Wholes(0) /\ L[13] = Wholes(0)
      /\ L[2] = Wholes(0) /\ L[6] = Wholes(0) /\ L[10] = Wholes(c) /\ L[14] = Wholes(d)
      /\ L[3] = Wholes(0) /\ L[7] = Wholes(0) /\ L[11] = Wholes(e) /\ L[15] = Wholes(f)
  BY HalvesKnown DEF Mixed, Lens
<1>2. p.x = Wholes(x) /\ p.y = Wholes(y) /\ p.z = Wholes(z) /\ p.w = Wholes(1)
  BY HalvesKnown DEF Quaternion
<1> HIDE DEF L, p
<1>3. QuaternionTransform(p, L)
        = Quaternion(
            a \otimes Wholes(x) + Wholes(0) \otimes Wholes(y) + Wholes(0) \otimes Wholes(z) + Wholes(0) \otimes Wholes(1),
            Wholes(0) \otimes Wholes(x) + Wholes(1) \otimes Wholes(y) + Wholes(0) \otimes Wholes(z)
              + Wholes(0) \otimes Wholes(1),
            Wholes(0) \otimes Wholes(x) + Wholes(0) \otimes Wholes(y) + Wholes(c) \otimes Wholes(z)
              + Wholes(d) \otimes Wholes(1),
            Wholes(0) \otimes Wholes(x) + Wholes(0) \otimes Wholes(y) + Wholes(e) \otimes Wholes(z)
              + Wholes(f) \otimes Wholes(1))
  <2> DEFINE Entry(i) == L[i] \otimes p.x + L[i + 4] \otimes p.y + L[i + 8] \otimes p.z + L[i + 12] \otimes p.w
  <2>1. QuaternionTransform(p, L) = Quaternion(Entry(0), Entry(1), Entry(2), Entry(3))
    BY DEF QuaternionTransform
  <2>2. /\ Entry(0) = L[0] \otimes p.x + L[4] \otimes p.y + L[8] \otimes p.z + L[12] \otimes p.w
        /\ Entry(1) = L[1] \otimes p.x + L[5] \otimes p.y + L[9] \otimes p.z + L[13] \otimes p.w
        /\ Entry(2) = L[2] \otimes p.x + L[6] \otimes p.y + L[10] \otimes p.z + L[14] \otimes p.w
        /\ Entry(3) = L[3] \otimes p.x + L[7] \otimes p.y + L[11] \otimes p.z + L[15] \otimes p.w
    OBVIOUS
  <2> HIDE DEF Entry
  <2> QED
    BY ONLY <1>1, <1>2, <2>1, <2>2, Zenon
<1>4. /\ a \otimes Wholes(x) = a * x
      /\ \A i \in Int : /\ Wholes(0) \otimes Wholes(i) = 0 /\ Wholes(1) \otimes Wholes(i) = Wholes(i)
                        /\ Wholes(i) \otimes Wholes(1) = Wholes(i) /\ Wholes(i) \in Int
      /\ Wholes(c) \otimes Wholes(z) = Wholes(c * z) /\ Wholes(e) \otimes Wholes(z) = Wholes(e * z)
  <2>1. a \otimes Wholes(x) = a * x
    BY ByWhole
  <2>2. Wholes(c) \otimes Wholes(z) = Wholes(c * z) /\ Wholes(e) \otimes Wholes(z) = Wholes(e * z)
    BY WholeByWhole
  <2>3. ASSUME NEW i \in Int
        PROVE  /\ Wholes(0) \otimes Wholes(i) = 0 /\ Wholes(1) \otimes Wholes(i) = Wholes(i)
               /\ Wholes(i) \otimes Wholes(1) = Wholes(i) /\ Wholes(i) \in Int
    <3>1. 0 * i = 0 /\ 1 * i = i /\ i * 1 = i /\ 0 \in Int /\ 1 \in Int
      OBVIOUS
    <3>2. /\ Wholes(0) \otimes Wholes(i) = Wholes(0 * i) /\ Wholes(1) \otimes Wholes(i) = Wholes(1 * i)
          /\ Wholes(i) \otimes Wholes(1) = Wholes(i * 1)
      BY <3>1, WholeByWhole, Zenon
    <3> QED
      BY <3>1, <3>2, WholeTimes, HalvesKnown
  <2> QED
    BY <2>1, <2>2, <2>3
<1>5. /\ Wholes(c * z) + Wholes(d) = Wholes(c * z + d)
      /\ Wholes(e * z) + Wholes(f) = Wholes(e * z + f)
      /\ Wholes(c * z) \in Int /\ Wholes(e * z) \in Int /\ a * x \in Int
  BY Parts DEF Wholes
<1>6. QuaternionTransform(p, L)
        = Quaternion(a * x + 0 + 0 + 0, 0 + Wholes(y) + 0 + 0, 0 + 0 + Wholes(c * z) + Wholes(d),
                     0 + 0 + Wholes(e * z) + Wholes(f))
  BY ONLY <1>3, <1>4, 1 \in Int, Zenon
<1>7. /\ a * x + 0 + 0 + 0 = a * x /\ 0 + Wholes(y) + 0 + 0 = Wholes(y)
      /\ 0 + 0 + Wholes(c * z) + Wholes(d) = Wholes(c * z) + Wholes(d)
      /\ 0 + 0 + Wholes(e * z) + Wholes(f) = Wholes(e * z) + Wholes(f)
  BY <1>4, <1>5
<1> QED
  <2>1. QuaternionTransform(p, L) = Quaternion(a * x, Wholes(y), Wholes(c * z + d), Wholes(e * z + f))
    BY ONLY <1>5, <1>6, <1>7, Zenon
  <2> QED
    BY ONLY <2>1 DEF L, p, Projected
-----------------------------------------------------------------------------
(* And back.                                                               *)

(* One coordinate of the point, taken back through the inverse, in w       *)
(* times.                                                                  *)
RowBack(b0, b4, b8, t, a, c, d, e, f, g, h, x, y, z, w, X, Y, Z) ==
  ((g * b0) * X + b4 * Y + (h * (f * b8 - e * t)) * Z + h * (c * t - d * b8)) * w
    = Wholes(b0 * x + b4 * y + b8 * z + t)

(* In w times the coordinate only the determinant of the lens is left.     *)
LEMMA RowUndone ==
  ASSUME NEW b0 \in Int, NEW b4 \in Int, NEW b8 \in Int, NEW t \in Int,
         NEW a \in Int, NEW c \in Int, NEW d \in Int, NEW e \in Int, NEW f \in Int,
         NEW g \in Int, NEW h \in Int, g * a = Unit, h * (c * f - d * e) = Unit,
         NEW x \in Int, NEW y \in Int, NEW z \in Int, NEW w \in Int, w = e * z + f,
         NEW X \in Int, NEW Y \in Int, NEW Z \in Int,
         X * w = a * x, Y * w = Unit * y, Z * w = c * z + d
  PROVE  RowBack(b0, b4, b8, t, a, c, d, e, f, g, h, x, y, z, w, X, Y, Z)
<1> DEFINE S == ((g * b0) * X + b4 * Y + (h * (f * b8 - e * t)) * Z + h * (c * t - d * b8)) * w
<1>1. S = (g * b0) * (X * w) + b4 * (Y * w) + (h * (f * b8 - e * t)) * (Z * w) + (h * (c * t - d * b8)) * w
  OBVIOUS
<1>2. S = (g * b0) * (a * x) + b4 * (Unit * y) + (h * (f * b8 - e * t)) * (c * z + d)
            + (h * (c * t - d * b8)) * (e * z + f)
  BY ONLY <1>1, X * w = a * x, Y * w = Unit * y, Z * w = c * z + d, w = e * z + f
<1> HIDE DEF S
<1>3. (h * (f * b8 - e * t)) * (c * z + d) + (h * (c * t - d * b8)) * (e * z + f)
        = (h * (c * f - d * e)) * (b8 * z + t)
  OBVIOUS
<1>4. (g * b0) * (a * x) = (g * a) * (b0 * x)
  OBVIOUS
<1> DEFINE k1 == (h * (f * b8 - e * t)) * (c * z + d)
           k2 == (h * (c * t - d * b8)) * (e * z + f)
           k3 == b0 * x
           k4 == b8 * z
           k5 == b4 * y
<1>5. /\ k1 \in Int /\ k2 \in Int /\ k3 \in Int /\ k4 \in Int /\ k5 \in Int
      /\ k1 + k2 = Unit * (k4 + t) /\ S = Unit * k3 + b4 * (Unit * y) + k1 + k2
  BY <1>2, <1>3, <1>4
<1>6. b4 * (Unit * y) = Unit * k5
  BY Parts
<1> HIDE DEF k1, k2, k3, k4, k5
<1>7. S = (k3 + k5 + k4 + t) * Unit
  BY <1>5, <1>6, Parts
<1> QED
  BY <1>7 DEF S, Wholes, k3, k4, k5, RowBack

(* The fourth coordinate, in w times.                                      *)
ScaleBack(c, e, h, Z, w) == ((h * (-e)) * Z + h * c) * w = Unit

(* The fourth coordinate is 1 / w.                                         *)
LEMMA ScaleUndone ==
  ASSUME NEW c \in Int, NEW d \in Int, NEW e \in Int, NEW f \in Int,
         NEW h \in Int, h * (c * f - d * e) = Unit,
         NEW z \in Int, NEW w \in Int, w = e * z + f, NEW Z \in Int, Z * w = c * z + d
  PROVE  ScaleBack(c, e, h, Z, w)
<1> DEFINE S == ((h * (-e)) * Z + h * c) * w
<1>1. S = (h * (-e)) * (Z * w) + (h * c) * w
  OBVIOUS
<1>2. S = (h * (-e)) * (c * z + d) + (h * c) * (e * z + f)
  BY ONLY <1>1, Z * w = c * z + d, w = e * z + f
<1>3. (h * (-e)) * (c * z + d) + (h * c) * (e * z + f) = h * (c * f - d * e)
  OBVIOUS
<1> QED
  BY <1>2, <1>3 DEF ScaleBack

(* A common multiple of two numbers that is known of both.                 *)
SharedMultiple(n, k, p, w) == n * w = Wholes(p) /\ k * w = Unit

(* The quotient of such two numbers.                                       *)
LEMMA SharedQuotient ==
  ASSUME NEW n \in Int, NEW k \in Int, NEW p \in Int, NEW w \in Int,
         SharedMultiple(n, k, p, w)
  PROVE  Ratio(n, k) = Wholes(p)
<1>1. n * w = Wholes(p) /\ k * w = Unit
  BY DEF SharedMultiple
<1>2. Wholes(p) \in Int /\ w # 0 /\ k # 0
  <2>1. 0 * w = 0 /\ k * 0 = 0 /\ Unit # 0
    BY Parts
  <2>2. w # 0 /\ k # 0
    BY ONLY <1>1, <2>1, Zenon
  <2> QED
    BY <2>2, WholeTimes
<1>3. (n * Unit) * w = (Wholes(p) * k) * w
  <2>1. (n * Unit) * w = (n * w) * Unit
    BY Parts
  <2>2. (Wholes(p) * k) * w = Wholes(p) * (k * w)
    BY <1>2
  <2> QED
    BY <1>1, <2>1, <2>2
<1>4. n * Unit = Wholes(p) * k
  <2> DEFINE i == n * Unit
             j == Wholes(p) * k
  <2>1. i \in Int /\ j \in Int /\ i * w = j * w
    BY <1>2, <1>3, Parts
  <2> HIDE DEF i, j
  <2>2. i = j
    BY <1>2, <2>1
  <2> QED
    BY <2>2 DEF i, j
<1> QED
  BY <1>2, <1>4, Quotient

(* A lens (a, c, d, e, f) takes the point (x, y, z) to (X, Y, Z) of the    *)
(* screen: w times X, Y and Z is what the lens makes of x, y and z.        *)
OnScreen(a, c, d, e, f, x, y, z, X, Y, Z) ==
  LET w == e * z + f
  IN  w # 0 /\ X * w = a * x /\ Y * w = Unit * y /\ Z * w = c * z + d

(* ProjectionUndone, of one point and one projection.                      *)
Returned(v, projection) ==
  LET p == Vector3Transform(v, m)
      c == QuaternionTransform(QuaternionTransform(Quaternion(p.x, p.y, p.z, Unit), Camera), projection)
      screen == Vector(Ratio(c.x, c.w), Ratio(c.y, c.w), Ratio(c.z, c.w))
  IN  Vector3Unproject(screen, projection, Camera) = p

(* Vector3Unproject takes a projected point back.                          *)
LEMMA UnprojectReturns ==
  ASSUME NEW M \in Matrices, Rotates(M), m = InWholes(M),
         NEW a \in Int, NEW c \in Int, NEW d \in Int, NEW e \in Int, NEW f \in Int,
         NEW g \in Int, NEW h \in Int, g * a = Unit, h * (c * f - d * e) = Unit,
         NEW x \in Int, NEW y \in Int, NEW z \in Int, NEW X \in Int, NEW Y \in Int, NEW Z \in Int,
         OnScreen(a, c, d, e, f, x, y, z, X, Y, Z)
  PROVE  Returned(WholeVector(x, y, z), Mixed(Lens(a, c, d, e, f)))
<1> DEFINE C == Reversed(M)
           L == Mixed(Lens(a, c, d, e, f))
           v == WholeVector(x, y, z)
           w == e * z + f
           a0 == M[0]
           a1 == M[1]
           a2 == M[2]
           a4 == M[4]
           a5 == M[5]
           a6 == M[6]
           a8 == M[8]
           a9 == M[9]
           a10 == M[10]
           t0 == M[12]
           t1 == M[13]
           t2 == M[14]
           p0 == a0 * x + a4 * y + a8 * z + t0
           p1 == a1 * x + a5 * y + a9 * z + t1
           p2 == a2 * x + a6 * y + a10 * z + t2
           p == WholeVector(p0, p1, p2)
<1>1. /\ a0 \in Int /\ a1 \in Int /\ a2 \in Int /\ a4 \in Int
      /\ a5 \in Int /\ a6 \in Int /\ a8 \in Int /\ a9 \in Int
      /\ a10 \in Int /\ t0 \in Int /\ t1 \in Int /\ t2 \in Int
  BY MatrixTypes
<1>2. /\ w \in Int /\ w # 0 /\ X * w = a * x /\ Y * w = Unit * y /\ Z * w = c * z + d
      /\ Unit \in Int /\ a * x \in Int /\ c * z + d \in Int
  BY Parts DEF OnScreen
<1>3. p0 \in Int /\ p1 \in Int /\ p2 \in Int
  BY <1>1
<1>4. Camera = InWholes(C)
  BY CameraReversed
<1>5. Vector3Transform(v, m) = p
  BY TransformWholes
<1>6. p.x = Wholes(p0) /\ p.y = Wholes(p1) /\ p.z = Wholes(p2)
  BY DEF WholeVector, Vector
<1>7. QuaternionTransform(Quaternion(p.x, p.y, p.z, Unit), InWholes(C))
        = Quaternion(Wholes(x), Wholes(y), Wholes(z), Unit)
  <2>1. QuaternionTransform(Quaternion(Wholes(p0), Wholes(p1), Wholes(p2), Unit), InWholes(C))
          = Quaternion(Wholes(x), Wholes(y), Wholes(z), Unit)
    BY SeenAgain
  <2> HIDE DEF p0, p1, p2, C, p
  <2> QED
    BY <1>6, <2>1
<1> DEFINE seen == QuaternionTransform(
                     QuaternionTransform(Quaternion(p.x, p.y, p.z, Unit), InWholes(C)), L)
           screen == Vector(Ratio(seen.x, seen.w), Ratio(seen.y, seen.w), Ratio(seen.z, seen.w))
<1> HIDE DEF p, p0, p1, p2, C
<1>8. seen = Quaternion(a * x, Wholes(y), Wholes(c * z + d), Wholes(w))
  <2>1. QuaternionTransform(Quaternion(Wholes(x), Wholes(y), Wholes(z), Unit), L)
          = Quaternion(a * x, Wholes(y), Wholes(c * z + d), Wholes(w))
    <3>1. Projected(a, c, d, e, f, x, y, z)
      BY LensTransform
    <3> QED
      BY ONLY <3>1 DEF Projected, L, w
  <2> HIDE DEF L, w
  <2> QED
    BY ONLY <1>7, <2>1, Zenon DEF seen
<1> HIDE DEF L, seen, w
<1>9. Ratio(a * x, Wholes(w)) = X /\ Ratio(Wholes(y), Wholes(w)) = Y
      /\ Ratio(Wholes(c * z + d), Wholes(w)) = Wholes(Z)
  <2>1. Wholes(w) \in Int /\ Wholes(w) # 0 /\ Wholes(y) \in Int /\ Wholes(Z) \in Int
        /\ Wholes(c * z + d) \in Int
    BY <1>2, Parts DEF Wholes
  <2>2. (a * x) * Unit = X * Wholes(w)
    <3>1. X * (w * Unit) = (X * w) * Unit
      BY <1>2
    <3> QED
      BY <1>2, <3>1 DEF Wholes
  <2>3. Wholes(y) * Unit = Y * Wholes(w)
    <3>1. Y * (w * Unit) = (Y * w) * Unit /\ (y * Unit) * Unit = (Unit * y) * Unit
      BY <1>2
    <3> QED
      BY <1>2, <3>1 DEF Wholes
  <2>4. Wholes(c * z + d) * Unit = Wholes(Z) * Wholes(w)
    <3> DEFINE k == c * z + d
    <3>1. k \in Int /\ Z * w = k
      BY <1>2
    <3> HIDE DEF k
    <3>2. (Z * Unit) * (w * Unit) = ((Z * w) * Unit) * Unit
      BY <1>2
    <3> QED
      BY <3>1, <3>2 DEF Wholes, k
  <2> QED
    BY <1>2, <2>1, <2>2, <2>3, <2>4, Quotient
<1>10. screen = Vector(X, Y, Wholes(Z))
  BY <1>8, <1>9 DEF Quaternion
<1> DEFINE E == Composed(C, Lens(a, c, d, e, f))
           V == MatrixInvert(Listed(Mixed(E)))
<1>11. MatrixMultiply(InWholes(C), L) = Mixed(E)
  <2>1. C \in Matrices /\ Lens(a, c, d, e, f) \in Matrices
    BY ReversedEntries, LensTypes DEF C
  <2> QED
    BY <2>1, MixedTimes DEF L
<1>12. Undone(V, M, c, d, e, f, g, h)
  BY InvertLens DEF C
<1> HIDE DEF V, E, screen
<1> DEFINE x0 == h * (f * a8 - e * t0)
           x1 == h * (c * t0 - d * a8)
           x2 == h * (f * a9 - e * t1)
           x3 == h * (c * t1 - d * a9)
           x4 == h * (f * a10 - e * t2)
           x5 == h * (c * t2 - d * a10)
           n0 == (g * a0) * X + a4 * Y + x0 * Z + x1
           n1 == (g * a1) * X + a5 * Y + x2 * Z + x3
           n2 == (g * a2) * X + a6 * Y + x4 * Z + x5
           n3 == (h * (-e)) * Z + h * c
           back == QuaternionTransform(Quaternion(screen.x, screen.y, screen.z, Unit), Listed(V))
<1>13. /\ V[0] = Wholes(g * a0) /\ V[1] = Wholes(a4) /\ V[2] = x0 /\ V[3] = x1
       /\ V[4] = Wholes(g * a1) /\ V[5] = Wholes(a5) /\ V[6] = x2 /\ V[7] = x3
       /\ V[8] = Wholes(g * a2) /\ V[9] = Wholes(a6) /\ V[10] = x4 /\ V[11] = x5
       /\ V[12] = 0 /\ V[13] = 0 /\ V[14] = h * (-e) /\ V[15] = h * c
  BY ONLY <1>12 DEF Undone
<1>14. /\ g * a0 \in Int /\ g * a1 \in Int /\ g * a2 \in Int
       /\ x0 \in Int /\ x1 \in Int /\ x2 \in Int /\ x3 \in Int /\ x4 \in Int /\ x5 \in Int
       /\ h * (-e) \in Int /\ h * c \in Int
  BY <1>1
<1>15. /\ n0 * w = Wholes(p0) /\ n1 * w = Wholes(p1) /\ n2 * w = Wholes(p2)
  <2> HIDE DEF a0, a1, a2, a4, a5, a6, a8, a9, a10, t0, t1, t2
  <2>1. g * a = Unit /\ h * (c * f - d * e) = Unit /\ w = e * z + f
    BY DEF w
  <2>2. /\ RowBack(a0, a4, a8, t0, a, c, d, e, f, g, h, x, y, z, w, X, Y, Z)
        /\ RowBack(a1, a5, a9, t1, a, c, d, e, f, g, h, x, y, z, w, X, Y, Z)
        /\ RowBack(a2, a6, a10, t2, a, c, d, e, f, g, h, x, y, z, w, X, Y, Z)
    BY <1>1, <1>2, <2>1, RowUndone
  <2> QED
    BY <2>2 DEF RowBack, p0, p1, p2
<1>16. n3 * w = Unit
  <2>1. h * (c * f - d * e) = Unit /\ w = e * z + f
    BY DEF w
  <2>2. ScaleBack(c, e, h, Z, w)
    BY <1>2, <2>1, ScaleUndone
  <2> QED
    BY <2>2 DEF ScaleBack
<1>17. back = Quaternion(n0, n1, n2, n3)
  <2> HIDE DEF a0, a1, a2, a4, a5, a6, a8, a9, a10, t0, t1, t2, x0, x1, x2, x3, x4, x5
  <2> DEFINE s == Quaternion(screen.x, screen.y, screen.z, Unit)
             W == Listed(V)
  <2>1. s.x = X /\ s.y = Y /\ s.z = Wholes(Z) /\ s.w = Wholes(1)
    BY <1>10, HalvesKnown DEF Quaternion, Vector
  <2>2. /\ W[0] = V[0] /\ W[4] = V[1] /\ W[8] = V[2] /\ W[12] = V[3]
        /\ W[1] = V[4] /\ W[5] = V[5] /\ W[9] = V[6] /\ W[13] = V[7]
        /\ W[2] = V[8] /\ W[6] = V[9] /\ W[10] = V[10] /\ W[14] = V[11]
        /\ W[3] = V[12] /\ W[7] = V[13] /\ W[11] = V[14] /\ W[15] = V[15]
    BY DEF Listed, Rows
  <2> HIDE DEF s, W
  <2> DEFINE Entry(i) == W[i] \otimes s.x + W[i + 4] \otimes s.y + W[i + 8] \otimes s.z + W[i + 12] \otimes s.w
  <2>3. QuaternionTransform(s, W) = Quaternion(Entry(0), Entry(1), Entry(2), Entry(3))
    BY DEF QuaternionTransform
  <2>4. /\ Entry(0) = W[0] \otimes s.x + W[4] \otimes s.y + W[8] \otimes s.z + W[12] \otimes s.w
        /\ Entry(1) = W[1] \otimes s.x + W[5] \otimes s.y + W[9] \otimes s.z + W[13] \otimes s.w
        /\ Entry(2) = W[2] \otimes s.x + W[6] \otimes s.y + W[10] \otimes s.z + W[14] \otimes s.w
        /\ Entry(3) = W[3] \otimes s.x + W[7] \otimes s.y + W[11] \otimes s.z + W[15] \otimes s.w
    OBVIOUS
  <2> HIDE DEF Entry
  <2>5. /\ Entry(0) = Wholes(g * a0) \otimes X + Wholes(a4) \otimes Y + x0 \otimes Wholes(Z) + x1 \otimes Wholes(1)
        /\ Entry(1) = Wholes(g * a1) \otimes X + Wholes(a5) \otimes Y + x2 \otimes Wholes(Z) + x3 \otimes Wholes(1)
        /\ Entry(2) = Wholes(g * a2) \otimes X + Wholes(a6) \otimes Y + x4 \otimes Wholes(Z) + x5 \otimes Wholes(1)
        /\ Entry(3) = Wholes(0) \otimes X + Wholes(0) \otimes Y + (h * (-e)) \otimes Wholes(Z)
                        + (h * c) \otimes Wholes(1)
    BY ONLY <1>13, <2>1, <2>2, <2>4, HalvesKnown, Zenon
  <2>6. \A i, j \in Int : Wholes(i) \otimes j = i * j /\ j \otimes Wholes(i) = j * i
    BY ByWhole, WholeTimes
  <2>7. /\ Entry(0) = (g * a0) * X + a4 * Y + x0 * Z + x1 * 1
        /\ Entry(1) = (g * a1) * X + a5 * Y + x2 * Z + x3 * 1
        /\ Entry(2) = (g * a2) * X + a6 * Y + x4 * Z + x5 * 1
        /\ Entry(3) = 0 * X + 0 * Y + (h * (-e)) * Z + (h * c) * 1
    <3> DEFINE k0 == g * a0
               k1 == g * a1
               k2 == g * a2
               k3 == h * (-e)
               k4 == h * c
    <3>1. /\ k0 \in Int /\ k1 \in Int /\ k2 \in Int /\ k3 \in Int /\ k4 \in Int
          /\ X \in Int /\ Y \in Int /\ Z \in Int /\ 0 \in Int /\ 1 \in Int
      BY <1>14
    <3> HIDE DEF k0, k1, k2, k3, k4
    <3>2. /\ Wholes(k0) \otimes X = k0 * X /\ Wholes(k1) \otimes X = k1 * X /\ Wholes(k2) \otimes X = k2 * X
          /\ Wholes(a4) \otimes Y = a4 * Y /\ Wholes(a5) \otimes Y = a5 * Y /\ Wholes(a6) \otimes Y = a6 * Y
          /\ Wholes(0) \otimes X = 0 * X /\ Wholes(0) \otimes Y = 0 * Y
      BY ONLY <1>1, <2>6, <3>1
    <3>3. /\ x0 \otimes Wholes(Z) = x0 * Z /\ x2 \otimes Wholes(Z) = x2 * Z /\ x4 \otimes Wholes(Z) = x4 * Z
          /\ k3 \otimes Wholes(Z) = k3 * Z
          /\ x1 \otimes Wholes(1) = x1 * 1 /\ x3 \otimes Wholes(1) = x3 * 1 /\ x5 \otimes Wholes(1) = x5 * 1
          /\ k4 \otimes Wholes(1) = k4 * 1
      BY ONLY <1>14, <2>6, <3>1
    <3>4. /\ Entry(0) = Wholes(k0) \otimes X + Wholes(a4) \otimes Y + x0 \otimes Wholes(Z) + x1 \otimes Wholes(1)
          /\ Entry(1) = Wholes(k1) \otimes X + Wholes(a5) \otimes Y + x2 \otimes Wholes(Z) + x3 \otimes Wholes(1)
          /\ Entry(2) = Wholes(k2) \otimes X + Wholes(a6) \otimes Y + x4 \otimes Wholes(Z) + x5 \otimes Wholes(1)
          /\ Entry(3) = Wholes(0) \otimes X + Wholes(0) \otimes Y + k3 \otimes Wholes(Z) + k4 \otimes Wholes(1)
      BY ONLY <2>5 DEF k0, k1, k2, k3, k4
    <3>5. /\ Entry(0) = k0 * X + a4 * Y + x0 * Z + x1 * 1
          /\ Entry(1) = k1 * X + a5 * Y + x2 * Z + x3 * 1
          /\ Entry(2) = k2 * X + a6 * Y + x4 * Z + x5 * 1
          /\ Entry(3) = 0 * X + 0 * Y + k3 * Z + k4 * 1
      BY ONLY <3>2, <3>3, <3>4, Zenon
    <3> QED
      BY ONLY <3>5 DEF k0, k1, k2, k3, k4
  <2>8. Entry(0) = n0 /\ Entry(1) = n1 /\ Entry(2) = n2 /\ Entry(3) = n3
    BY <1>1, <1>14, <2>7
  <2> QED
    BY <2>3, <2>8 DEF s, W
<1>18. /\ n0 \in Int /\ n1 \in Int /\ n2 \in Int /\ n3 \in Int
  BY <1>1, <1>14
<1> HIDE DEF n0, n1, n2, n3, back
<1>19. Ratio(n0, n3) = Wholes(p0) /\ Ratio(n1, n3) = Wholes(p1) /\ Ratio(n2, n3) = Wholes(p2)
  <2>1. SharedMultiple(n0, n3, p0, w) /\ SharedMultiple(n1, n3, p1, w) /\ SharedMultiple(n2, n3, p2, w)
    BY <1>15, <1>16 DEF SharedMultiple
  <2> QED
    BY <1>2, <1>3, <1>18, <2>1, SharedQuotient
<1>20. Vector3Unproject(screen, L, InWholes(C))
         = Vector(Ratio(back.x, back.w), Ratio(back.y, back.w), Ratio(back.z, back.w))
  BY <1>11 DEF Vector3Unproject, back, V
<1>21. Vector3Unproject(screen, L, InWholes(C)) = p
  BY <1>17, <1>19, <1>20 DEF p, WholeVector, Quaternion
<1> QED
  BY <1>4, <1>5, <1>21 DEF Returned, screen, seen, L, v
-----------------------------------------------------------------------------
(* The invariants.                                                         *)

(* The coordinates of the points are whole.                                *)
LEMMA PointsWhole ==
  ASSUME NEW v \in Points
  PROVE  \E x \in {-1, 0, 1}, y \in {-1, 1}, z \in {-2, -1} : v = WholeVector(x, y, z)
<1>1. /\ v = [x |-> v.x, y |-> v.y, z |-> v.z]
      /\ v.x \in {-Unit, 0, Unit} /\ v.y \in {-Unit, Unit} /\ v.z \in {-2 * Unit, -Unit}
  BY DEF Points
<1>2. /\ Wholes(-1) = -Unit /\ Wholes(0) = 0 /\ Wholes(1) = Unit /\ Wholes(-2) = -2 * Unit
  BY Parts DEF Wholes
<1>3. PICK x \in {-1, 0, 1} : v.x = Wholes(x)
  BY <1>1, <1>2
<1>4. PICK y \in {-1, 1} : v.y = Wholes(y)
  BY <1>1, <1>2
<1>5. PICK z \in {-2, -1} : v.z = Wholes(z)
  BY <1>1, <1>2
<1> QED
  BY <1>1, <1>3, <1>4, <1>5 DEF WholeVector, Vector

(* The frustum has w = -z and determinant -4, the box w = 1 and            *)
(* determinant -1 in units of Unit and of Half.                            *)
LEMMA RigidProjectionUndone ==
  ASSUME Rigid
  PROVE  ProjectionUndone
<1>1. PICK M \in Matrices : m = InWholes(M) /\ Rotates(M)
  BY RigidRotates
<1> DEFINE frustum == MatrixFrustum(-Unit, Unit, -Unit, Unit, Unit, 2 * Unit)
           ortho   == MatrixOrtho(-2 * Unit, 2 * Unit, -Unit, Unit, Unit, 3 * Unit)
<1>2. ASSUME NEW v \in Points
      PROVE  Returned(v, frustum) /\ Returned(v, ortho)
  <2>1. PICK x \in {-1, 0, 1}, y \in {-1, 1}, z \in {-2, -1} : v = WholeVector(x, y, z)
    BY PointsWhole
  <2>2. x \in Int /\ y \in Int /\ z \in Int /\ Unit \in Int /\ Half \in Int
    BY Parts
  <2>3. Returned(v, frustum)
    <3> DEFINE h == -(Unit \div 4)
    <3>1. /\ Unit \in Int /\ -3 \in Int /\ -4 \in Int /\ -1 \in Int /\ 0 \in Int /\ 1 \in Int
          /\ h \in Int /\ 1 * Unit = Unit /\ h * ((-3) * 0 - (-4) * (-1)) = Unit
      BY Parts
    <3>2. \E X, Y, Z \in Int : OnScreen(Unit, -3, -4, -1, 0, x, y, z, X, Y, Z)
      <4>1. CASE z = -1
        <5>1. OnScreen(Unit, -3, -4, -1, 0, x, y, z, Unit * x, Unit * y, -1)
          BY <2>2, <4>1 DEF OnScreen
        <5> QED
          BY <2>2, <5>1
      <4>2. CASE z = -2
        <5>1. (Half * x) * 2 = Unit * x /\ (Half * y) * 2 = Unit * y
          BY <2>2, Parts
        <5>2. (-1) * z + 0 = 2 /\ 1 * 2 = (-3) * z + (-4)
          BY <4>2
        <5>3. OnScreen(Unit, -3, -4, -1, 0, x, y, z, Half * x, Half * y, 1)
          BY <5>1, <5>2 DEF OnScreen
        <5> QED
          BY <2>2, <5>3
      <4> QED
        BY <4>1, <4>2
    <3>3. PICK X, Y, Z \in Int : OnScreen(Unit, -3, -4, -1, 0, x, y, z, X, Y, Z)
      BY <3>2
    <3> HIDE DEF h
    <3>4. Returned(WholeVector(x, y, z), Mixed(Lens(Unit, -3, -4, -1, 0)))
      BY <1>1, <2>2, <3>1, <3>3, UnprojectReturns
    <3> QED
      BY <2>1, <3>4, ProjectionsMixed
  <2>4. Returned(v, ortho)
    <3> DEFINE h == -Unit
    <3>1. /\ -1 \in Int /\ -2 \in Int /\ 0 \in Int /\ 1 \in Int /\ 2 \in Int
          /\ h \in Int /\ 2 * Half = Unit /\ h * ((-1) * 1 - (-2) * 0) = Unit
      BY Parts
    <3>2. OnScreen(Half, -1, -2, 0, 1, x, y, z, Half * x, Unit * y, (-1) * z + (-2))
      <4>1. 0 * z + 1 = 1
        BY <2>2
      <4>2. (Half * x) * 1 = Half * x /\ (Unit * y) * 1 = Unit * y
            /\ ((-1) * z + (-2)) * 1 = (-1) * z + (-2)
        BY <2>2
      <4> QED
        BY <4>1, <4>2 DEF OnScreen
    <3>3. PICK X, Y, Z \in Int : OnScreen(Half, -1, -2, 0, 1, x, y, z, X, Y, Z)
      BY <2>2, <3>2
    <3> HIDE DEF h
    <3>4. Returned(WholeVector(x, y, z), Mixed(Lens(Half, -1, -2, 0, 1)))
      BY <1>1, <2>2, <3>1, <3>3, UnprojectReturns
    <3> QED
      BY <2>1, <3>4, ProjectionsMixed
  <2> QED
    BY <2>3, <2>4
<1>3. \A projection \in Projections, v \in Points : Returned(v, projection)
  BY <1>2 DEF Projections
<1> QED
  BY <1>3 DEF ProjectionUndone, Returned

(* However the motions were put together, Vector3Transform by the matrix   *)
(* takes a point where Vector3RotateByQuaternion and the place take it.    *)
THEOREM PointsAgreeHolds == Spec => []PointsAgree
<1>1. Rigid => PointsAgree
  BY RigidPointsAgree
<1> QED
  BY <1>1, RigidHolds, PTL

(* MatrixLookAt from the body is the MatrixInvert of its matrix.           *)
THEOREM ViewUndoesHolds == Spec => []ViewUndoes
<1>1. Rigid => ViewUndoes
  BY RigidViewUndoes
<1> QED
  BY <1>1, RigidHolds, PTL

(* What camera and projection put on the screen, Vector3Unproject takes    *)
(* back, by the two initializers that put rows for columns.                *)
THEOREM ProjectionUndoneHolds == Spec => []ProjectionUndone
<1>1. Rigid => ProjectionUndone
  BY RigidProjectionUndone
<1> QED
  BY <1>1, RigidHolds, PTL

(* MatrixDeterminant of a rigid motion is 1, and camera and projection     *)
(* have the determinant of the projection.                                 *)
THEOREM VolumeKeptHolds == Spec => []VolumeKept
<1>1. Rigid => VolumeKept
  BY RigidVolumeKept
<1> QED
  BY <1>1, RigidHolds, PTL

(* The angles of QuaternionToEuler keep, by MatrixRotateZYX, the heading   *)
(* of the body in every attitude, locked or not, and all of its rotation   *)
(* unless the angle about y is a right angle.                              *)
THEOREM EulerKeepsHeadingHolds == Spec => []EulerKeepsHeading
<1>1. Rigid => EulerKeepsHeading
  BY RigidEuler
<1> QED
  BY <1>1, RigidHolds, PTL
=============================================================================
