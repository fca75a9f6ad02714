--------------------------- MODULE DynArrayProofs ---------------------------
(***************************************************************************)
(* The arrays of the bridge are the sequences their caller has made of     *)
(* them, and own their buffers, for any number and size of arrays.         *)
(***************************************************************************)
EXTENDS DynArray, SequenceTheorems, WellFoundedInduction, TLAPS

(* The caller has none of the habits the arrays do not bear.               *)
Careful == Careless = {}

(* The array has a buffer of its own.                                      *)
Owner(da) == da.capacity >= 2

Types == [size : 0..MaxSize, capacity : -1..(2 * MaxSize),
          data : {Null} \cup {Buffer(b) : b \in Blocks}
            \cup {Held(x) : x \in Items}]

(* What an array in use can be: empty, with a buffer of its own, with the  *)
(* buffer of another one, or a single item.                                *)
Shape(a, da) ==
  \/ da = Empty
  \/ Owner(da) /\ da.size <= da.capacity /\ \E b \in Blocks : da.data = Buffer(b)
  \/ a \in IntArrays /\ da.capacity = -1 /\ da.size > 0
       /\ \E b \in Blocks : da.data = Buffer(b)
  \/ a \in PtrArrays /\ Singleton /\ da.capacity = 1 /\ da.size = 1
       /\ \E x \in Items : da.data = Held(x)

(* The buffer of an owner is as long as its capacity.                      *)
Fits(a, da, hp) ==
  /\ da \in Types /\ Shape(a, da)
  /\ \A b \in Blocks : Owner(da) /\ da.data = Buffer(b) => Len(hp[b]) = da.capacity

(* A copy has the buffer of an array that is no shorter.                   *)
Lent(c, o) == o.data = c.data /\ Owner(o) /\ c.size <= o.size

(* What is read of an array that has no name yet.                          *)
Elements(da, hp) == PtrElements([da |-> da, heap |-> hp])

(* No buffer has two owners, copies have that of an int array in use, a    *)
(* buffer without an owner is free, and the elements are the contents.     *)
Sound(ar, lv, hp, cn) ==
  /\ lv \subseteq Arrays
  /\ hp \in [Blocks -> Seq(Items \cup {NULL})]
  /\ \A a \in lv : Fits(a, ar[a], hp)
  /\ \A a \in lv, c \in lv :
       Owner(ar[a]) /\ Owner(ar[c]) /\ ar[a].data = ar[c].data => a = c
  /\ \A c \in lv : IsCopy(ar[c]) => \E o \in lv \cap IntArrays : Lent(ar[c], ar[o])
  /\ \A b \in Blocks : hp[b] # <<>> =>
       \E a \in lv : Owner(ar[a]) /\ ar[a].data = Buffer(b)
  /\ \A a \in lv : cn[a] \in Seq(Items) /\ cn[a] = Elements(ar[a], hp)

(* The inductive invariant.                                                *)
ArrayInv ==
  /\ TypeOK
  /\ Sound(arrays, live, heap, contents)
  /\ contents \in [Arrays -> Seq(Items)]
  /\ \A a \in Arrays \ live : contents[a] = <<>>
  /\ returned = promised

-----------------------------------------------------------------------------
(* Growth.                                                                 *)

(* Induction, over the set of the numbers something holds for.             *)
LEMMA Induct ==
  ASSUME NEW S, 0 \in S, \A n \in Nat : n \in S => n + 1 \in S
  PROVE  Nat \subseteq S
<1> SUFFICES ASSUME Nat \ S # {} PROVE FALSE
  OBVIOUS
<1> DEFINE R == OpToRel(<, Nat)
<1>1. IsWellFoundedOn(R, Nat)
  BY NatLessThanWellFounded
<1> HIDE DEF R
<1>2. PICK n \in Nat \ S : \A m \in Nat \ S : <<m, n>> \notin R
  BY <1>1, WFMin
<1>3. n - 1 \in Nat /\ n - 1 < n
  BY <1>2
<1>4. n - 1 \notin Nat \ S
  BY <1>2, <1>3 DEF R, OpToRel
<1> QED
  BY <1>2, <1>3, <1>4

(* The capacities of dyn_array_ensure_capacity_internal, round by round.   *)
Doubling(f, capacity, n) ==
  f = [k \in 0..n |-> IF k = 0 THEN IF capacity <= 0 THEN 2 ELSE capacity
                      ELSE IF f[k - 1] >= n THEN f[k - 1] ELSE 2 * f[k - 1]]

(* There are such capacities, for any number of rounds.                    *)
LEMMA DoublingExists ==
  ASSUME NEW capacity \in Int, NEW n \in Nat
  PROVE  \E f : Doubling(f, capacity, n)
<1> DEFINE Body(f, k) == IF k = 0 THEN IF capacity <= 0 THEN 2 ELSE capacity
                         ELSE IF f[k - 1] >= n THEN f[k - 1] ELSE 2 * f[k - 1]
           Solution(m, f) == f = [k \in 0..m |-> Body(f, k)]
           S == {m \in Nat : \E f : Solution(m, f)}
<1>1. 0 \in S
  <2>1. Solution(0, [k \in 0..0 |-> IF capacity <= 0 THEN 2 ELSE capacity])
    OBVIOUS
  <2> QED
    BY <2>1
<1>2. ASSUME NEW m \in Nat, m \in S
      PROVE  m + 1 \in S
  <2>1. PICK f : Solution(m, f)
    BY <1>2
  <2> DEFINE g == [k \in 0..(m + 1) |-> IF k = m + 1 THEN Body(f, k) ELSE f[k]]
  <2>2. \A k \in 0..m : f[k] = Body(f, k)
    BY <2>1
  <2>3. ASSUME NEW k \in 0..(m + 1) PROVE g[k] = Body(g, k)
    <3>1. k = 0 \/ (k # 0 /\ k - 1 \in 0..m /\ g[k - 1] = f[k - 1])
      OBVIOUS
    <3>2. Body(g, k) = Body(f, k)
      BY <3>1
    <3>3. g[k] = Body(f, k)
      BY <2>2
    <3> QED
      BY ONLY <3>2, <3>3
  <2>4. Solution(m + 1, g)
    BY <2>3
  <2> HIDE DEF Solution, g
  <2> QED
    BY <2>4
<1>3. n \in S
  <2> HIDE DEF S
  <2> QED
    BY <1>1, <1>2, Induct
<1> QED
  BY <1>3 DEF Doubling

(* The capacity suffices, and less than half of it would not.              *)
LEMMA GrownFacts ==
  ASSUME NEW capacity \in Int, NEW n \in Nat, capacity < n, n > 0
  PROVE  /\ Grown(capacity, n) \in Nat
         /\ Grown(capacity, n) >= n /\ Grown(capacity, n) <= 2 * n
         /\ Grown(capacity, n) >= 2
<1> DEFINE f == CHOOSE f : Doubling(f, capacity, n)
<1>1. Doubling(f, capacity, n)
  BY DoublingExists
<1>2. Grown(capacity, n) = f[n]
  BY DEF Grown, Doubling
<1> HIDE DEF f
<1> DEFINE S == {k \in Nat : k <= n => /\ f[k] \in Nat /\ f[k] <= 2 * n /\ f[k] > 0
                                       /\ f[k] >= n \/ f[k] > k
                                       /\ f[k] >= 2 \/ f[k] < n}
<1>3. 0 \in S
  BY <1>1 DEF Doubling
<1>4. ASSUME NEW k \in Nat, k \in S PROVE k + 1 \in S
  <2> SUFFICES ASSUME k + 1 <= n PROVE k + 1 \in S
    OBVIOUS
  <2>1. f[k + 1] = IF f[k] >= n THEN f[k] ELSE 2 * f[k]
    <3>1. k + 1 \in 0..n /\ k + 1 # 0 /\ (k + 1) - 1 = k
      OBVIOUS
    <3> QED
      BY ONLY <1>1, <3>1 DEF Doubling
  <2>2. /\ f[k] \in Nat /\ f[k] <= 2 * n /\ f[k] > 0
        /\ f[k] >= n \/ f[k] > k
        /\ f[k] >= 2 \/ f[k] < n
    BY <1>4
  <2> QED
    BY <2>1, <2>2
<1>5. n \in S
  <2> HIDE DEF S
  <2> QED
    BY <1>3, <1>4, Induct
<1> QED
  BY <1>2, <1>5

-----------------------------------------------------------------------------
(* The elements of an array.                                               *)

Cells == Seq(Items \cup {NULL})

(* Buffers, items and null are told apart.                                 *)
LEMMA DataFacts ==
  /\ \A b : Buffer(b)[1] = "buffer" /\ Buffer(b)[2] = b /\ Buffer(b) # Null
  /\ \A b, c : Buffer(b) = Buffer(c) => b = c
  /\ \A x : Held(x)[1] = "item" /\ Held(x)[2] = x
  /\ \A b, x : Buffer(b) # Held(x)
  /\ Null[1] = "null"
<1>1. /\ \A b : Buffer(b)[1] = "buffer" /\ Buffer(b)[2] = b
      /\ \A x : Held(x)[1] = "item" /\ Held(x)[2] = x
      /\ Null[1] = "null"
  BY DEF Buffer, Held, Null
<1>2. \A b, c : Buffer(b) = Buffer(c) => b = c
  BY <1>1
<1>3. \A b, x : Buffer(b) # Held(x)
  BY <1>1
<1>4. \A b : Buffer(b) # Null
  BY <1>1
<1> QED
  BY <1>1, <1>2, <1>3, <1>4

(* Those of an array with a buffer, its own or not.                        *)
LEMMA BufferElements ==
  ASSUME NEW da, NEW hp, da.capacity # 1, NEW b, da.data = Buffer(b),
         hp[b] \in Cells, da.size \in Nat, da.size <= Len(hp[b])
  PROVE  Elements(da, hp) = [i \in 1..da.size |-> hp[b][i]]
<1> DEFINE s == [da |-> da, heap |-> hp]
<1>1. \A i \in 1..da.size : i \in DOMAIN hp[b]
  BY DEF Cells
<1>2. \A i \in 1..da.size : PtrElement(s, i) = hp[b][i]
  BY <1>1, DataFacts DEF PtrElement, IsSingle, Element
<1> QED
  BY <1>2 DEF Elements, PtrElements

(* The single item of an array without a buffer.                           *)
LEMMA SingleElements ==
  ASSUME NEW da, NEW hp, Singleton, da.capacity = 1, da.size = 1,
         NEW x, da.data = Held(x)
  PROVE  Elements(da, hp) = <<x>>
<1> DEFINE s == [da |-> da, heap |-> hp]
<1>1. PtrElement(s, 1) = x
  BY DataFacts DEF PtrElement, IsSingle
<1>2. Elements(da, hp) = [i \in 1..1 |-> PtrElement(s, i)]
  BY DEF Elements, PtrElements
<1>3. \A i \in 1..1 : PtrElement(s, i) = x
  BY <1>1
<1> QED
  BY <1>2, <1>3

(* An array of size 0 has no elements.                                     *)
LEMMA NoElements ==
  ASSUME NEW da, NEW hp, da.size = 0
  PROVE  Elements(da, hp) = <<>>
BY DEF Elements, PtrElements

(* What is read is what a call has written.                                *)
LEMMA ReadElement ==
  ASSUME NEW da, NEW hp, NEW e, e = Elements(da, hp), e \in Seq(Items),
         da.size \in Nat
  PROVE  /\ Len(e) = da.size
         /\ \A i \in 1..da.size :
              PtrElement([da |-> da, heap |-> hp], i) = e[i] /\ e[i] \in Items
<1>1. /\ DOMAIN e = 1..da.size
      /\ \A i \in 1..da.size : PtrElement([da |-> da, heap |-> hp], i) = e[i]
  BY DEF Elements, PtrElements
<1>2. Len(e) = da.size
  <2>1. Len(e) \in Nat /\ DOMAIN e = 1..Len(e)
    BY LenProperties
  <2>2. 1..Len(e) = 1..da.size
    BY <1>1, <2>1
  <2>3. /\ Len(e) > 0 => Len(e) \in 1..da.size
        /\ da.size > 0 => da.size \in 1..Len(e)
    BY ONLY <2>1, <2>2, da.size \in Nat
  <2> QED
    BY ONLY <2>1, <2>3, da.size \in Nat
<1> QED
  BY <1>1, <1>2, ElementOfSeq

-----------------------------------------------------------------------------
(* One array changes.                                                      *)

(* The buffers when da becomes r and hp becomes h2: those of others stay,  *)
(* r has its own or takes a free one, and what da leaves is freed.         *)
Swap(da, hp, r, h2) ==
  /\ h2 \in [Blocks -> Cells]
  /\ \A b \in Blocks :
       LET before == Owner(da) /\ da.data = Buffer(b)
           after  == Owner(r) /\ r.data = Buffer(b)
       IN  \/ ~before /\ ~after /\ h2[b] = hp[b]
           \/ after /\ (before \/ hp[b] = <<>>)
           \/ before /\ ~after /\ h2[b] = <<>>

(* The array before the change; init begins with an empty one.             *)
Old(ar, lv, a) == IF a \in lv THEN ar[a] ELSE Empty

(* The copies of an array stay copies.                                     *)
KeepsCopies(ar, lv, hp, a, r, h2) ==
  \A c \in lv \ {a} :
    IsCopy(ar[c]) /\ Owner(Old(ar, lv, a)) /\ ar[c].data = Old(ar, lv, a).data =>
      /\ Lent(ar[c], r) /\ a \in IntArrays
      /\ \A b \in Blocks : ar[c].data = Buffer(b) =>
           \A i \in 1..ar[c].size : h2[b][i] = hp[b][i]

Changes(ar, lv, hp, a, r, h2, e) ==
  /\ a \in Arrays
  /\ Fits(a, r, h2)
  /\ Swap(Old(ar, lv, a), hp, r, h2)
  /\ KeepsCopies(ar, lv, hp, a, r, h2)
  /\ IsCopy(r) => \E o \in (lv \cap IntArrays) \ {a} : Lent(r, ar[o])
  /\ e \in Seq(Items) /\ e = Elements(r, h2)

(* A copy lies in the buffer of its owner.                                 *)
LEMMA CopyFacts ==
  ASSUME NEW ar, NEW lv, NEW hp, NEW cn, Sound(ar, lv, hp, cn),
         NEW c \in lv, IsCopy(ar[c])
  PROVE  \E o \in lv \cap IntArrays, b \in Blocks :
           /\ Lent(ar[c], ar[o]) /\ ar[c].data = Buffer(b)
           /\ ar[o].data = Buffer(b)
           /\ Len(hp[b]) = ar[o].capacity /\ ar[o].capacity \in Nat
           /\ ar[c].size \in Nat /\ ar[c].size <= Len(hp[b])
           /\ ar[c].capacity = -1
<1>1. PICK o \in lv \cap IntArrays : Lent(ar[c], ar[o])
  BY DEF Sound
<1>2. Fits(c, ar[c], hp) /\ Fits(o, ar[o], hp)
  BY DEF Sound
<1>3. /\ ar[c].size \in Nat /\ ar[o].size \in Nat /\ ar[c].capacity \in Int
      /\ ar[o].capacity \in Int
  BY <1>2, ArrayAssumption DEF Fits, Types
<1>4. ar[c].capacity = -1 /\ ar[o].size <= ar[o].capacity
  BY <1>1, <1>2, <1>3 DEF Fits, Shape, IsCopy, Owner, Lent, Empty
<1>5. PICK b \in Blocks : ar[o].data = Buffer(b)
  BY <1>1, <1>2, <1>3 DEF Fits, Shape, Owner, Lent, Empty
<1>6. Len(hp[b]) = ar[o].capacity
  BY <1>1, <1>2, <1>5 DEF Fits, Lent
<1> QED
  BY <1>1, <1>3, <1>4, <1>5, <1>6 DEF Lent, Owner

(* The other arrays do not see the change.                                 *)
LEMMA OthersKept ==
  ASSUME NEW ar, NEW lv, NEW hp, NEW cn, Sound(ar, lv, hp, cn),
         NEW a, NEW r, NEW h2, NEW e, Changes(ar, lv, hp, a, r, h2, e),
         NEW c \in lv \ {a}
  PROVE  Fits(c, ar[c], h2) /\ Elements(ar[c], h2) = cn[c]
<1> DEFINE da == Old(ar, lv, a)
<1>1. /\ Fits(c, ar[c], hp) /\ cn[c] = Elements(ar[c], hp)
      /\ ar[c].size \in Nat /\ ar[c].capacity \in Int
      /\ hp \in [Blocks -> Cells] /\ h2 \in [Blocks -> Cells]
  <2>1. Fits(c, ar[c], hp) /\ cn[c] = Elements(ar[c], hp)
          /\ hp \in [Blocks -> Cells]
    BY DEF Sound, Cells
  <2>2. h2 \in [Blocks -> Cells]
    BY DEF Changes, Swap
  <2>3. ar[c].size \in 0..MaxSize /\ ar[c].capacity \in -1..(2 * MaxSize)
    BY <2>1 DEF Fits, Types
  <2> QED
    BY <2>1, <2>2, <2>3, ArrayAssumption
<1>2. ASSUME NEW o \in lv, o # a, NEW b \in Blocks, Owner(ar[o]),
             ar[o].data = Buffer(b)
      PROVE  h2[b] = hp[b]
  <2>1. ~(Owner(da) /\ da.data = Buffer(b))
    BY <1>2 DEF Sound, Old, Empty, Owner
  <2>2. Fits(o, ar[o], hp)
    BY DEF Sound
  <2>3. Len(hp[b]) # 0
    BY <1>2, <2>2 DEF Fits, Owner, Types
  <2>4. hp[b] # <<>>
    BY <2>3
  <2> QED
    BY <2>1, <2>4 DEF Changes, Swap
<1>3. CASE Owner(ar[c])
  <2>1. PICK b \in Blocks : ar[c].data = Buffer(b)
    BY <1>1, <1>3 DEF Fits, Shape, Owner, Empty
  <2>2. h2[b] = hp[b] /\ Len(hp[b]) = ar[c].capacity /\ ar[c].size <= ar[c].capacity
    <3>1. h2[b] = hp[b]
      BY <1>2, <1>3, <2>1
    <3> QED
      BY <1>1, <1>3, <2>1, <3>1 DEF Fits, Shape, Owner, Empty
  <2>3. Fits(c, ar[c], h2)
    BY <1>1, <2>1, <2>2, DataFacts DEF Fits
  <2>4. Elements(ar[c], h2) = Elements(ar[c], hp)
    <3>1. ar[c].capacity # 1
      BY <1>1, <1>3 DEF Owner
    <3> QED
      BY <1>1, <2>1, <2>2, <3>1, BufferElements
  <2> QED
    BY <1>1, <2>3, <2>4
<1>4. CASE IsCopy(ar[c])
  <2>1. PICK o \in lv \cap IntArrays, b \in Blocks :
          /\ Lent(ar[c], ar[o]) /\ ar[c].data = Buffer(b)
          /\ ar[o].data = Buffer(b)
          /\ Len(hp[b]) = ar[o].capacity /\ ar[o].capacity \in Nat
          /\ ar[c].size \in Nat /\ ar[c].size <= Len(hp[b])
          /\ ar[c].capacity = -1
    BY <1>4, CopyFacts
  <2>2. Fits(c, ar[c], h2)
    BY <1>1, <1>4 DEF Fits, IsCopy, Owner
  <2>3. /\ \A i \in 1..ar[c].size : h2[b][i] = hp[b][i]
        /\ ar[c].size <= Len(h2[b])
    <3>1. CASE o = a
      <4>1. da = ar[o] /\ Owner(da)
        BY <2>1, <3>1 DEF Old, Lent
      <4>2. Lent(ar[c], r) /\ \A i \in 1..ar[c].size : h2[b][i] = hp[b][i]
        BY <1>4, <2>1, <4>1 DEF Changes, KeepsCopies
      <4>3. Owner(r) /\ r.data = Buffer(b) /\ ar[c].size <= r.size
        BY <2>1, <4>2 DEF Lent
      <4>4. Len(h2[b]) = r.capacity /\ r.size <= r.capacity
        BY <4>3 DEF Changes, Fits, Shape, Owner, Empty, Types
      <4>5. r.size \in Nat /\ r.capacity \in Int
        BY ArrayAssumption DEF Changes, Fits, Types
      <4> QED
        BY <1>1, <4>2, <4>3, <4>4, <4>5
    <3>2. CASE o # a
      BY <1>2, <2>1, <3>2 DEF Lent
    <3> QED
      BY <3>1, <3>2
  <2>4. Elements(ar[c], h2) = Elements(ar[c], hp)
    <3>1. /\ Elements(ar[c], h2) = [i \in 1..ar[c].size |-> h2[b][i]]
          /\ Elements(ar[c], hp) = [i \in 1..ar[c].size |-> hp[b][i]]
      <4>1. /\ hp[b] \in Cells /\ h2[b] \in Cells /\ ar[c].capacity # 1
            /\ ar[c].data = Buffer(b) /\ ar[c].size <= Len(hp[b])
            /\ ar[c].size \in Nat
        BY <1>1, <2>1
      <4>2. Elements(ar[c], hp) = [i \in 1..ar[c].size |-> hp[b][i]]
        BY ONLY <4>1, BufferElements
      <4>3. ar[c].size <= Len(h2[b])
        BY <2>3
      <4>4. Elements(ar[c], h2) = [i \in 1..ar[c].size |-> h2[b][i]]
        BY ONLY <4>1, <4>3, BufferElements
      <4> QED
        BY <4>2, <4>4
    <3> QED
      BY <2>3, <3>1
  <2> QED
    BY <1>1, <2>2, <2>4
<1>5. CASE ~Owner(ar[c]) /\ ~IsCopy(ar[c])
  <2>1. Fits(c, ar[c], h2)
    BY <1>1, <1>5 DEF Fits
  <2>2. CASE ar[c] = Empty
    <3>1. ar[c].size = 0
      BY <2>2 DEF Empty
    <3> QED
      BY <1>1, <2>1, <3>1, NoElements
  <2>3. CASE ar[c] # Empty
    <3>1. PICK x \in Items : /\ Singleton /\ ar[c].capacity = 1
                             /\ ar[c].size = 1
                             /\ ar[c].data = Held(x)
      BY <1>1, <1>5, <2>3 DEF Fits, Shape, IsCopy
    <3> QED
      BY <1>1, <2>1, <3>1, SingleElements
  <2> QED
    BY <2>2, <2>3
<1> QED
  BY <1>3, <1>4, <1>5

(* A change keeps the arrays sound.                                        *)
LEMMA ChangeSound ==
  ASSUME NEW ar, NEW lv, NEW hp, NEW cn, Sound(ar, lv, hp, cn),
         DOMAIN ar = Arrays, DOMAIN cn = Arrays,
         NEW a, NEW r, NEW h2, NEW e, Changes(ar, lv, hp, a, r, h2, e),
         NEW ar2, ar2 = [ar EXCEPT ![a] = r], NEW cn2, cn2 = [cn EXCEPT ![a] = e]
  PROVE  Sound(ar2, lv \cup {a}, h2, cn2)
<1> DEFINE da == Old(ar, lv, a)
           lv2 == lv \cup {a}
<1>1. /\ a \in Arrays /\ Fits(a, r, h2) /\ Swap(da, hp, r, h2)
      /\ h2 \in [Blocks -> Cells] /\ e \in Seq(Items) /\ e = Elements(r, h2)
  BY DEF Changes, Swap
<1>2. /\ ar2[a] = r /\ cn2[a] = e
      /\ \A c \in lv \ {a} : ar2[c] = ar[c] /\ cn2[c] = cn[c]
  BY <1>1 DEF Sound
<1>3. /\ lv2 \subseteq Arrays /\ h2 \in [Blocks -> Seq(Items \cup {NULL})]
  BY <1>1 DEF Sound, Cells
<1>4. /\ \A c \in lv2 : Fits(c, ar2[c], h2)
      /\ \A c \in lv2 : cn2[c] \in Seq(Items) /\ cn2[c] = Elements(ar2[c], h2)
  <2>1. ASSUME NEW c \in lv \ {a}
        PROVE  /\ Fits(c, ar2[c], h2)
               /\ cn2[c] \in Seq(Items) /\ cn2[c] = Elements(ar2[c], h2)
    <3>1. Fits(c, ar[c], h2) /\ Elements(ar[c], h2) = cn[c]
      BY OthersKept
    <3>2. cn[c] \in Seq(Items)
      BY DEF Sound
    <3> QED
      BY <1>2, <3>1, <3>2
  <2> QED
    BY <1>1, <1>2, <2>1
<1>5. ASSUME NEW c \in lv \ {a}, Owner(ar[c]), Owner(r)
      PROVE  ar[c].data # r.data
  <2>1. Fits(c, ar[c], hp)
    BY DEF Sound
  <2>2. PICK b \in Blocks : ar[c].data = Buffer(b)
    BY <1>5, <2>1 DEF Fits, Shape, Owner, Empty
  <2>3. ~(Owner(da) /\ da.data = Buffer(b))
    BY <1>5, <2>2 DEF Sound, Old, Empty, Owner
  <2>4. hp[b] # <<>>
    <3>1. Len(hp[b]) # 0
      BY <1>5, <2>1, <2>2 DEF Fits, Owner, Types
    <3> QED
      BY <3>1
  <2> QED
    BY <1>1, <1>5, <2>2, <2>3, <2>4 DEF Swap
<1>6. \A c \in lv2, o \in lv2 :
        Owner(ar2[c]) /\ Owner(ar2[o]) /\ ar2[c].data = ar2[o].data => c = o
  <2>1. \A c \in lv, o \in lv :
          Owner(ar[c]) /\ Owner(ar[o]) /\ ar[c].data = ar[o].data => c = o
    BY DEF Sound
  <2> QED
    BY <1>2, <1>5, <2>1
<1>7. ASSUME NEW c \in lv2, IsCopy(ar2[c])
      PROVE  \E o \in lv2 \cap IntArrays : Lent(ar2[c], ar2[o])
  <2>1. CASE c = a
    BY <1>2, <1>7, <2>1 DEF Changes
  <2>2. CASE c # a
    <3>1. c \in lv \ {a} /\ IsCopy(ar[c]) /\ ar2[c] = ar[c]
      BY <1>2, <1>7, <2>2
    <3>2. PICK o \in lv \cap IntArrays : Lent(ar[c], ar[o])
      BY <3>1 DEF Sound
    <3>3. CASE o = a
      <4>1. Lent(ar[c], r) /\ a \in IntArrays
        BY <3>1, <3>2, <3>3 DEF Changes, KeepsCopies, Old, Lent
      <4> QED
        BY <1>2, <3>1, <4>1
    <3>4. CASE o # a
      BY <1>2, <3>1, <3>2, <3>4
    <3> QED
      BY <3>3, <3>4
  <2> QED
    BY <2>1, <2>2
<1>8. ASSUME NEW b \in Blocks, h2[b] # <<>>
      PROVE  \E c \in lv2 : Owner(ar2[c]) /\ ar2[c].data = Buffer(b)
  <2>1. CASE Owner(r) /\ r.data = Buffer(b)
    BY <1>2, <2>1
  <2>2. CASE ~(Owner(r) /\ r.data = Buffer(b))
    <3>1. h2[b] = hp[b] /\ ~(Owner(da) /\ da.data = Buffer(b))
      BY <1>1, <1>8, <2>2 DEF Swap
    <3>2. PICK c \in lv : Owner(ar[c]) /\ ar[c].data = Buffer(b)
      BY <1>8, <3>1 DEF Sound
    <3>3. c # a
      BY <3>1, <3>2 DEF Old
    <3> QED
      BY <1>2, <3>2, <3>3
  <2> QED
    BY <2>1, <2>2
<1> QED
  BY <1>3, <1>4, <1>6, <1>7, <1>8 DEF Sound

(* An array without a buffer is not missed.                                *)
LEMMA DropSound ==
  ASSUME NEW ar, NEW lv, NEW hp, NEW cn, Sound(ar, lv, hp, cn),
         NEW a, ~Owner(ar[a]), NEW ar2, NEW cn2,
         \A c \in lv \ {a} : ar2[c] = ar[c] /\ cn2[c] = cn[c]
  PROVE  Sound(ar2, lv \ {a}, hp, cn2)
<1>1. ASSUME NEW c \in lv \ {a}, IsCopy(ar2[c])
      PROVE  \E o \in (lv \ {a}) \cap IntArrays : Lent(ar2[c], ar2[o])
  <2>1. PICK o \in lv \cap IntArrays : Lent(ar[c], ar[o])
    BY <1>1 DEF Sound
  <2>2. o # a
    BY <2>1 DEF Lent
  <2> QED
    BY <2>1, <2>2
<1>2. ASSUME NEW b \in Blocks, hp[b] # <<>>
      PROVE  \E c \in lv \ {a} : Owner(ar2[c]) /\ ar2[c].data = Buffer(b)
  <2>1. PICK c \in lv : Owner(ar[c]) /\ ar[c].data = Buffer(b)
    BY <1>2 DEF Sound
  <2> QED
    BY <2>1
<1>3. /\ \A c \in lv \ {a} : Fits(c, ar2[c], hp)
      /\ \A c \in lv \ {a} : cn2[c] \in Seq(Items) /\ cn2[c] = Elements(ar2[c], hp)
      /\ lv \ {a} \subseteq Arrays /\ hp \in [Blocks -> Seq(Items \cup {NULL})]
  BY DEF Sound
<1>4. \A c \in lv \ {a}, o \in lv \ {a} :
        Owner(ar2[c]) /\ Owner(ar2[o]) /\ ar2[c].data = ar2[o].data => c = o
  BY DEF Sound
<1> QED
  BY <1>1, <1>2, <1>3, <1>4 DEF Sound

-----------------------------------------------------------------------------
(* What the functions make of an array and the heap.                       *)

(* Room for n elements in the buffer b of r; the elements are kept.        *)
Roomy(da, hp, n, e, r, h2, b) ==
  /\ r \in Types /\ Owner(r) /\ r.size = da.size /\ r.capacity >= n
  /\ b \in Blocks /\ r.data = Buffer(b) /\ Len(h2[b]) = r.capacity
  /\ Swap(da, hp, r, h2)
  /\ \A i \in 1..da.size : h2[b][i] = e[i]
  /\ da.capacity >= n => r = da /\ h2 = hp

(* An array as it is between the calls.                                    *)
Stands(a, da, hp, e) ==
  /\ Fits(a, da, hp) /\ hp \in [Blocks -> Cells]
  /\ e \in Seq(Items) /\ e = Elements(da, hp)
  /\ IsCopy(da) => \A b \in Blocks : da.data = Buffer(b) => da.size <= Len(hp[b])

(* Its size and capacity.                                                  *)
LEMMA StandTypes ==
  ASSUME NEW a, NEW da, NEW hp, NEW e, Stands(a, da, hp, e)
  PROVE  /\ da.size \in 0..MaxSize /\ da.capacity \in -1..(2 * MaxSize)
         /\ da.size \in Nat /\ da.capacity \in Int /\ da \in Types
         /\ hp \in [Blocks -> Cells] /\ MaxSize \in Nat
BY ArrayAssumption DEF Stands, Fits, Types

(* What is read of it.                                                     *)
LEMMA StandElements ==
  ASSUME NEW a, NEW da, NEW hp, NEW e, Stands(a, da, hp, e)
  PROVE  /\ Len(e) = da.size
         /\ \A i \in 1..da.size :
              PtrElement([da |-> da, heap |-> hp], i) = e[i] /\ e[i] \in Items
<1>1. da.size \in Nat /\ e = Elements(da, hp) /\ e \in Seq(Items)
  BY StandTypes DEF Stands
<1> QED
  BY ONLY <1>1, ReadElement

(* Its buffer, if it has one of its own.                                   *)
LEMMA StandOwner ==
  ASSUME NEW a, NEW da, NEW hp, NEW e, Stands(a, da, hp, e), Owner(da)
  PROVE  \E b \in Blocks : /\ da.data = Buffer(b) /\ da.size <= da.capacity
                           /\ Len(hp[b]) = da.capacity /\ hp[b] \in Cells
                           /\ \A i \in 1..da.size : hp[b][i] = e[i]
<1>1. da.size \in Nat /\ da.capacity \in Int /\ da.capacity # 1
  BY StandTypes DEF Owner
<1>2. PICK b \in Blocks : da.data = Buffer(b)
  BY <1>1 DEF Stands, Fits, Shape, Owner, Empty
<1>3. da.size <= da.capacity
  BY <1>1 DEF Stands, Fits, Shape, Owner, Empty
<1>4. Len(hp[b]) = da.capacity /\ hp[b] \in Cells
  BY <1>2 DEF Stands, Fits
<1>5. e = [i \in 1..da.size |-> hp[b][i]]
  BY <1>1, <1>2, <1>3, <1>4, BufferElements DEF Stands
<1>6. \A i \in 1..da.size : hp[b][i] = e[i]
  BY <1>5
<1> QED
  BY <1>2, <1>3, <1>4, <1>6

(* A new buffer with the elements, and the old one freed if it was owned.  *)
LEMMA MovedFacts ==
  ASSUME NEW a, NEW da, NEW hp, NEW e, Stands(a, da, hp, e),
         \E b \in Blocks : hp[b] = <<>>,
         NEW n \in 1..MaxSize, da.size <= n, da.capacity < n,
         NEW keep \in BOOLEAN, keep <=> da.capacity <= 0
  PROVE  \E r, h2, b : /\ Moved([da |-> da, heap |-> hp], n, keep)
                            = [da |-> r, heap |-> h2]
                       /\ Roomy(da, hp, n, e, r, h2, b)
<1> DEFINE s == [da |-> da, heap |-> hp]
           C == Grown(da.capacity, n)
           new == CHOOSE b \in Blocks : hp[b] = <<>>
           cells == [i \in 1..C |-> IF i <= da.size THEN PtrElement(s, i) ELSE NULL]
           base == IF keep THEN hp ELSE Freed(s)
           h2 == [base EXCEPT ![new] = cells]
           r == [da EXCEPT !.capacity = C, !.data = Buffer(new)]
<1>1. /\ da.size \in Nat /\ da.capacity \in Int /\ n \in Nat /\ n > 0
      /\ hp \in [Blocks -> Cells] /\ da \in Types /\ MaxSize \in Nat
  BY StandTypes
<1>2. C \in Nat /\ C >= n /\ C <= 2 * MaxSize /\ C >= 2
  <2>1. C \in Nat /\ C >= n /\ C <= 2 * n /\ C >= 2
    BY <1>1, GrownFacts
  <2> HIDE DEF C
  <2> QED
    BY <1>1, <2>1
<1>3. new \in Blocks /\ hp[new] = <<>>
  OBVIOUS
<1>4. Moved(s, n, keep) = [da |-> r, heap |-> h2]
  BY DEF Moved
<1> HIDE DEF new, C
<1>5. /\ cells \in Cells /\ Len(cells) = C
      /\ \A i \in 1..da.size : cells[i] = e[i]
  <2>1. \A i \in 1..da.size : PtrElement(s, i) = e[i] /\ e[i] \in Items
    BY StandElements
  <2>2. \A i \in 1..C : (IF i <= da.size THEN PtrElement(s, i) ELSE NULL)
          \in Items \cup {NULL}
    BY <1>1, <2>1
  <2>3. cells \in [1..C -> Items \cup {NULL}]
    BY <2>2
  <2>4. \A i \in 1..da.size : i \in 1..C /\ i <= da.size
    BY <1>1, <1>2
  <2>5. \A i \in 1..da.size : cells[i] = e[i]
    BY <2>1, <2>4
  <2> HIDE DEF cells
  <2> QED
    BY <1>2, <2>3, <2>5 DEF Cells
<1>6. /\ base \in [Blocks -> Cells]
      /\ \A b \in Blocks :
           base[b] = IF Owner(da) /\ da.data = Buffer(b) THEN <<>> ELSE hp[b]
  <2>1. <<>> \in Cells
    BY DEF Cells
  <2>2. CASE Owner(da)
    <3>1. PICK b \in Blocks : da.data = Buffer(b)
      BY <2>2, StandOwner
    <3>2. base = [hp EXCEPT ![b] = <<>>]
      <4>1. keep = FALSE
        BY <1>1, <2>2 DEF Owner
      <4>2. Freed(s) = [hp EXCEPT ![b] = <<>>]
        BY <3>1, DataFacts DEF Freed
      <4> QED
        BY <4>1, <4>2
    <3>3. \A c \in Blocks : da.data = Buffer(c) <=> c = b
      BY <3>1, DataFacts
    <3> HIDE DEF base
    <3> QED
      BY <1>1, <2>1, <2>2, <3>2, <3>3
  <2>3. CASE ~Owner(da)
    <3>1. base = hp
      <4>1. CASE da.capacity <= 0
        BY <4>1
      <4>2. CASE da.capacity > 0
        <5>1. \E x \in Items : da.data = Held(x)
          BY <1>1, <2>3, <4>2 DEF Stands, Fits, Shape, Empty, Owner
        <5> QED
          BY <1>1, <4>2, <5>1, DataFacts DEF Freed
      <4> QED
        BY <1>1, <4>1, <4>2
    <3> HIDE DEF base
    <3> QED
      BY <1>1, <2>3, <3>1
  <2> QED
    BY <2>2, <2>3
<1> HIDE DEF cells, base
<1>7. /\ h2 \in [Blocks -> Cells] /\ h2[new] = cells
      /\ \A b \in Blocks \ {new} : h2[b] = base[b]
  BY <1>3, <1>5, <1>6
<1> HIDE DEF h2
<1>8. r.size = da.size /\ r.capacity = C /\ r.data = Buffer(new) /\ r \in Types
  <2>1. C \in -1..(2 * MaxSize) /\ Buffer(new) \in {Buffer(b) : b \in Blocks}
    BY <1>1, <1>2, <1>3
  <2> QED
    BY ONLY <1>1, <2>1 DEF Types
<1> HIDE DEF r
<1>9. Swap(da, hp, r, h2)
  <2>1. ~(Owner(da) /\ da.data = Buffer(new))
    <3> SUFFICES ASSUME Owner(da), da.data = Buffer(new) PROVE FALSE
      OBVIOUS
    <3>1. Len(hp[new]) = da.capacity
      BY <1>3 DEF Stands, Fits
    <3> QED
      BY <1>1, <1>3, <3>1 DEF Owner
  <2>2. \A b \in Blocks : r.data = Buffer(b) <=> b = new
    BY <1>8, DataFacts
  <2> QED
    BY <1>1, <1>2, <1>3, <1>6, <1>7, <1>8, <2>1, <2>2 DEF Swap, Owner
<1>10. Roomy(da, hp, n, e, r, h2, new)
  BY <1>1, <1>2, <1>3, <1>5, <1>7, <1>8, <1>9 DEF Roomy, Owner
<1> QED
  BY <1>4, <1>10

(* dyn_array_ensure_capacity makes room in a buffer.                       *)
LEMMA EnsureFacts ==
  ASSUME NEW a, NEW da, NEW hp, NEW e, Stands(a, da, hp, e),
         NEW n \in 1..MaxSize, n <= da.capacity \/ \E b \in Blocks : hp[b] = <<>>,
         Owner(da) \/ (da.size <= n /\ da.capacity < n)
  PROVE  \E r, h2, b : /\ ensure_capacity([da |-> da, heap |-> hp], n)
                            = [da |-> r, heap |-> h2]
                       /\ Roomy(da, hp, n, e, r, h2, b)
<1>1. da.capacity \in Int /\ da \in Types /\ hp \in [Blocks -> Cells] /\ n \in Int
  BY StandTypes
<1>2. CASE n <= da.capacity
  <2>1. PICK b \in Blocks : /\ da.data = Buffer(b) /\ da.size <= da.capacity
                            /\ Len(hp[b]) = da.capacity /\ hp[b] \in Cells
                            /\ \A i \in 1..da.size : hp[b][i] = e[i]
    BY <1>1, <1>2, StandOwner
  <2>2. Owner(da)
    BY <1>1, <1>2
  <2>3. Swap(da, hp, da, hp)
    BY <1>1 DEF Swap
  <2>4. Roomy(da, hp, n, e, da, hp, b)
    BY <1>1, <1>2, <2>1, <2>2, <2>3 DEF Roomy
  <2>5. ensure_capacity([da |-> da, heap |-> hp], n) = [da |-> da, heap |-> hp]
    BY <1>2 DEF ensure_capacity
  <2> QED
    BY <2>4, <2>5
<1>3. CASE ~(n <= da.capacity)
  <2> DEFINE keep == da.capacity <= 0
  <2>1. ensure_capacity([da |-> da, heap |-> hp], n)
          = Moved([da |-> da, heap |-> hp], n, keep)
    BY <1>3 DEF ensure_capacity
  <2>2. keep \in BOOLEAN /\ (keep <=> da.capacity <= 0) /\ da.capacity < n
    BY <1>1, <1>3
  <2>3. da.size <= n
    <3>1. CASE Owner(da)
      <4>1. da.size <= da.capacity /\ da.size \in Nat
        BY <3>1, StandOwner, StandTypes
      <4> QED
        BY <1>1, <2>2, <4>1
    <3> QED
      BY <3>1
  <2>4. \E b \in Blocks : hp[b] = <<>>
    BY <1>3
  <2> HIDE DEF keep
  <2> QED
    BY <2>1, <2>2, <2>3, <2>4, MovedFacts
<1> QED
  BY <1>2, <1>3

(* A buffer of its own is all an array needs.                              *)
LEMMA OwnerFits ==
  ASSUME NEW a, NEW r \in Types, Owner(r), NEW b \in Blocks, r.data = Buffer(b),
         r.size <= r.capacity, NEW h2, h2[b] \in Cells, Len(h2[b]) = r.capacity
  PROVE  /\ Fits(a, r, h2)
         /\ Elements(r, h2) = [j \in 1..r.size |-> h2[b][j]]
<1>1. r.size \in Nat /\ r.capacity \in Int /\ r.capacity # 1
  BY ArrayAssumption DEF Types, Owner
<1>2. \A c \in Blocks : r.data = Buffer(c) => c = b
  BY DataFacts
<1>3. Fits(a, r, h2)
  BY <1>2 DEF Fits, Shape
<1>4. Elements(r, h2) = [j \in 1..r.size |-> h2[b][j]]
  BY <1>1, BufferElements
<1> QED
  BY <1>3, <1>4

(* An owner writes into its buffer, and sets its size.                     *)
LEMMA SwapAgain ==
  ASSUME NEW da, NEW hp, NEW r, NEW h2, Swap(da, hp, r, h2), Owner(r),
         NEW b \in Blocks, r.data = Buffer(b), NEW xs \in Cells,
         NEW r3, r3.capacity = r.capacity, r3.data = r.data
  PROVE  /\ Swap(da, hp, r3, [h2 EXCEPT ![b] = xs])
         /\ [h2 EXCEPT ![b] = xs][b] = xs
<1> DEFINE h3 == [h2 EXCEPT ![b] = xs]
<1>1. /\ h3 \in [Blocks -> Cells] /\ h3[b] = xs
      /\ \A c \in Blocks \ {b} : h3[c] = h2[c]
  BY DEF Swap
<1> HIDE DEF h3
<1>2. /\ Owner(r3) /\ \A c \in Blocks : r3.data = Buffer(c) <=> c = b
      /\ \A c \in Blocks : r.data = Buffer(c) <=> c = b
  BY DataFacts DEF Owner
<1>3. Swap(da, hp, r3, h3)
  BY <1>1, <1>2 DEF Swap
<1> QED
  BY <1>1, <1>3 DEF h3

(* The buffer b with x at i.                                               *)
Wrote(a, da, hp, r, h2, b, i, x, h3) ==
  /\ Written([da |-> r, heap |-> h2], i, x) = [da |-> r, heap |-> h3]
  /\ Fits(a, r, h3) /\ Swap(da, hp, r, h3)
  /\ Elements(r, h3) = [j \in 1..r.size |-> IF j = i THEN x ELSE h2[b][j]]
  /\ \A j \in 1..r.capacity : h3[b][j] = IF j = i THEN x ELSE h2[b][j]

(* A write into an array's own buffer is seen by the array.                *)
LEMMA WriteFacts ==
  ASSUME NEW a, NEW da, NEW hp, NEW r \in Types, NEW h2, Swap(da, hp, r, h2),
         Owner(r),
         NEW b \in Blocks, r.data = Buffer(b), r.size <= r.capacity,
         Len(h2[b]) = r.capacity, NEW i \in 1..r.capacity, NEW x \in Items
  PROVE  \E h3 : Wrote(a, da, hp, r, h2, b, i, x, h3)
<1> DEFINE xs == [h2[b] EXCEPT ![i] = x]
           h3 == [h2 EXCEPT ![b] = xs]
<1>1. h2[b] \in Cells /\ i \in 1..Len(h2[b]) /\ i \in DOMAIN h2[b]
  BY DEF Swap, Cells
<1>2. /\ xs \in Cells /\ Len(xs) = r.capacity
      /\ \A j \in 1..r.capacity : xs[j] = IF j = i THEN x ELSE h2[b][j]
  <2>1. x \in Items \cup {NULL} /\ h2[b] \in Seq(Items \cup {NULL})
    BY <1>1 DEF Cells
  <2> DEFINE old == h2[b]
  <2>2. old \in Seq(Items \cup {NULL}) /\ Len(old) = r.capacity
    BY ONLY <2>1, Len(h2[b]) = r.capacity
  <2> HIDE DEF old
  <2>3. i \in 1..Len(old)
    BY ONLY <2>2, i \in 1..r.capacity
  <2>4. /\ [old EXCEPT ![i] = x] \in Seq(Items \cup {NULL})
        /\ Len([old EXCEPT ![i] = x]) = Len(old)
        /\ \A j \in 1..Len(old) :
             [old EXCEPT ![i] = x][j] = IF j = i THEN x ELSE old[j]
    BY ONLY <2>1, <2>2, <2>3, ExceptSeq
  <2> DEFINE new == [old EXCEPT ![i] = x]
  <2> HIDE DEF new
  <2>5. /\ new \in Cells /\ Len(new) = r.capacity
        /\ \A j \in 1..r.capacity : new[j] = IF j = i THEN x ELSE old[j]
    BY ONLY <2>2, <2>4 DEF Cells, new
  <2>6. xs = new
    BY DEF old, new
  <2> HIDE DEF xs
  <2>7. /\ xs \in Cells /\ Len(xs) = r.capacity
        /\ \A j \in 1..r.capacity : xs[j] = IF j = i THEN x ELSE old[j]
    BY ONLY <2>5, <2>6
  <2> QED
    BY ONLY <2>7 DEF old
<1>3. Written([da |-> r, heap |-> h2], i, x) = [da |-> r, heap |-> h3]
  <2> DEFINE s == [da |-> r, heap |-> h2]
  <2>1. s.da = r /\ s.heap = h2
    OBVIOUS
  <2>2. (s.da.data)[1] = "buffer" /\ (s.da.data)[2] = b
    BY DataFacts
  <2>3. i \in DOMAIN (s.heap)[(s.da.data)[2]]
    BY ONLY <1>1, <2>1, <2>2
  <2>4. [s EXCEPT !.heap[b][i] = x] = [da |-> r, heap |-> h3]
    OBVIOUS
  <2> HIDE DEF s, h3
  <2>5. Written(s, i, x) = [s EXCEPT !.heap[b][i] = x]
    BY ONLY <2>2, <2>3 DEF Written
  <2> QED
    BY ONLY <2>4, <2>5 DEF s
<1> HIDE DEF xs
<1>4. Swap(da, hp, r, h3) /\ h3[b] = xs
  BY <1>2, SwapAgain
<1> HIDE DEF h3
<1>5. Fits(a, r, h3) /\ Elements(r, h3) = [j \in 1..r.size |-> h3[b][j]]
  BY <1>2, <1>4, OwnerFits
<1>6. r.size \in Nat /\ r.capacity \in Int
  BY ArrayAssumption DEF Types
<1>7. \A j \in 1..r.size : h3[b][j] = IF j = i THEN x ELSE h2[b][j]
  BY <1>2, <1>4, <1>6
<1>8. Elements(r, h3) = [j \in 1..r.size |-> IF j = i THEN x ELSE h2[b][j]]
  BY <1>5, <1>7
<1>9. \A j \in 1..r.capacity : h3[b][j] = IF j = i THEN x ELSE h2[b][j]
  BY <1>2, <1>4
<1> QED
  BY <1>3, <1>4, <1>5, <1>8, <1>9 DEF Wrote

(* What an add makes of a sequence.                                        *)
LEMMA AppendIs ==
  ASSUME NEW e \in Seq(Items), NEW x \in Items
  PROVE  /\ Append(e, x) =
              [j \in 1..(Len(e) + 1) |-> IF j = Len(e) + 1 THEN x ELSE e[j]]
         /\ Append(e, x) \in Seq(Items)
<1>1. /\ Append(e, x) \in Seq(Items) /\ Len(Append(e, x)) = Len(e) + 1
      /\ Len(e) \in Nat
      /\ \A j \in 1..Len(e) : Append(e, x)[j] = e[j]
      /\ Append(e, x)[Len(e) + 1] = x
  BY AppendProperties, LenProperties
<1> DEFINE f == Append(e, x)
<1> HIDE DEF f
<1>2. /\ f \in [1..Len(f) -> Items] /\ Len(f) = Len(e) + 1
      /\ \A j \in 1..(Len(e) + 1) : f[j] = IF j = Len(e) + 1 THEN x ELSE e[j]
  <2>1. /\ f \in Seq(Items) /\ Len(f) = Len(e) + 1 /\ Len(e) \in Nat
        /\ \A j \in 1..Len(e) : f[j] = e[j]
        /\ f[Len(e) + 1] = x
    BY ONLY <1>1 DEF f
  <2>2. f \in [1..Len(f) -> Items]
    BY ONLY <2>1, LenProperties
  <2>3. ASSUME NEW j \in 1..(Len(e) + 1)
        PROVE  f[j] = IF j = Len(e) + 1 THEN x ELSE e[j]
    <3>1. j = Len(e) + 1 \/ (j # Len(e) + 1 /\ j \in 1..Len(e))
      BY ONLY <2>1, j \in 1..(Len(e) + 1)
    <3> QED
      BY ONLY <2>1, <3>1
  <2> QED
    BY <2>1, <2>2, <2>3
<1>3. f = [j \in 1..(Len(e) + 1) |-> IF j = Len(e) + 1 THEN x ELSE e[j]]
  BY <1>2
<1> QED
  BY <1>1, <1>3 DEF f

(* What an add makes of an array: in place as long as there is room.       *)
Added(a, da, hp, e, x, r, h2) ==
  /\ Fits(a, r, h2) /\ Swap(da, hp, r, h2) /\ Owner(r) /\ r.size = da.size + 1
  /\ Elements(r, h2) = Append(e, x)
  /\ da.size < da.capacity =>
       /\ r.data = da.data
       /\ \A b \in Blocks : da.data = Buffer(b) =>
            \A i \in 1..da.size : h2[b][i] = hp[b][i]

(* add grows an array by x, in its own buffer or a new one.                *)
LEMMA AddFacts ==
  ASSUME NEW a, NEW da, NEW hp, NEW e, Stands(a, da, hp, e),
         da.size < da.capacity \/ \E b \in Blocks : hp[b] = <<>>,
         da.size < MaxSize, Owner(da) \/ da.capacity <= 0, NEW x \in Items
  PROVE  \E r, h2 : /\ add([da |-> da, heap |-> hp], x) = [da |-> r, heap |-> h2]
                    /\ Added(a, da, hp, e, x, r, h2)
<1> DEFINE s == [da |-> da, heap |-> hp]
           n == da.size + 1
<1>1. /\ da.size \in Nat /\ da.capacity \in Int /\ MaxSize \in Nat
      /\ n \in 1..MaxSize /\ da.size <= n /\ n \in Nat
      /\ Len(e) = da.size /\ e \in Seq(Items)
  <2>1. da.size \in Nat /\ da.capacity \in Int /\ MaxSize \in Nat
    BY StandTypes
  <2>2. Len(e) = da.size
    BY StandElements
  <2>3. e \in Seq(Items)
    BY DEF Stands
  <2> QED
    BY <2>1, <2>2, <2>3
<1>2. /\ Owner(da) \/ (da.size <= n /\ da.capacity < n)
      /\ n <= da.capacity \/ \E b \in Blocks : hp[b] = <<>>
  BY <1>1
<1>3. PICK r0, h0, b : /\ ensure_capacity(s, n) = [da |-> r0, heap |-> h0]
                       /\ Roomy(da, hp, n, e, r0, h0, b)
  <2> HIDE DEF n
  <2> QED
    BY <1>1, <1>2, EnsureFacts
<1> DEFINE r == [r0 EXCEPT !.size = @ + 1]
<1>4. /\ r0 \in Types /\ Owner(r0) /\ r0.size = da.size /\ r0.capacity >= n
      /\ b \in Blocks /\ r0.data = Buffer(b) /\ Len(h0[b]) = r0.capacity
      /\ Swap(da, hp, r0, h0) /\ \A i \in 1..da.size : h0[b][i] = e[i]
      /\ da.capacity >= n => r0 = da /\ h0 = hp
      /\ r0.capacity \in Int
  <2>1. Roomy(da, hp, n, e, r0, h0, b)
    BY <1>3
  <2>2. r0 \in Types => r0.capacity \in Int
    BY <1>1 DEF Types
  <2> HIDE DEF n
  <2> QED
    BY ONLY <2>1, <2>2 DEF Roomy
<1>5. /\ r \in Types /\ r.size = n /\ r.capacity = r0.capacity
      /\ r.data = r0.data
      /\ Owner(r)
  <2>1. r0.size + 1 \in 0..MaxSize
    BY <1>1, <1>4
  <2>2. r \in Types /\ r.size = r0.size + 1 /\ r.capacity = r0.capacity
          /\ r.data = r0.data
    BY ONLY <1>4, <2>1 DEF Types
  <2> QED
    BY <1>4, <2>2 DEF Owner
<1>6. add(s, x) = Written([da |-> r, heap |-> h0], n, x)
  BY <1>3 DEF add
<1> HIDE DEF r
<1>7. Swap(da, hp, r, h0)
  BY <1>4, <1>5 DEF Swap, Owner
<1>8. PICK h2 : /\ Written([da |-> r, heap |-> h0], n, x) = [da |-> r, heap |-> h2]
                /\ Fits(a, r, h2) /\ Swap(da, hp, r, h2)
                /\ Elements(r, h2)
                     = [j \in 1..r.size |-> IF j = n THEN x ELSE h0[b][j]]
                /\ \A j \in 1..r.capacity : h2[b][j] = IF j = n THEN x ELSE h0[b][j]
  <2>1. n \in 1..r.capacity /\ r.size <= r.capacity /\ Len(h0[b]) = r.capacity
    BY <1>1, <1>4, <1>5
  <2> HIDE DEF n
  <2> QED
    <3>1. \E h2 : Wrote(a, da, hp, r, h0, b, n, x, h2)
      BY ONLY <1>4, <1>5, <1>7, <2>1, x \in Items, WriteFacts
    <3> QED
      BY <3>1 DEF Wrote
<1>9. Elements(r, h2) = Append(e, x)
  <2>1. \A j \in 1..n : (IF j = n THEN x ELSE h0[b][j]) = IF j = n THEN x ELSE e[j]
    BY <1>1, <1>4
  <2>2. Append(e, x) = [j \in 1..n |-> IF j = n THEN x ELSE e[j]]
    BY <1>1, AppendIs
  <2> HIDE DEF n
  <2> QED
    BY <1>5, <1>8, <2>1, <2>2
<1>10. ASSUME da.size < da.capacity
       PROVE  /\ r.data = da.data
              /\ \A c \in Blocks : da.data = Buffer(c) =>
                   \A i \in 1..da.size : h2[c][i] = hp[c][i]
  <2>1. r0 = da /\ h0 = hp
    BY <1>1, <1>4, <1>10
  <2>2. \A c \in Blocks : da.data = Buffer(c) => c = b
    BY <1>4, <2>1, DataFacts
  <2>3. \A i \in 1..da.size : i \in 1..r.capacity /\ i # n
    BY <1>1, <1>4, <1>5
  <2> QED
    BY <1>5, <1>8, <2>1, <2>2, <2>3
<1>11. Added(a, da, hp, e, x, r, h2)
  BY <1>5, <1>8, <1>9, <1>10 DEF Added
<1> QED
  BY <1>6, <1>8, <1>11

(* What is left of an array: no buffer, and nothing if it had none.        *)
Left(da, hp, r, h2) ==
  /\ Swap(da, hp, Empty, h2)
  /\ r \in Types /\ r.size <= r.capacity
  /\ da.capacity <= 0 => r = Empty /\ h2 = hp

(* uninit frees the buffer of an owner, and no other.                      *)
LEMMA UninitFacts ==
  ASSUME NEW a, NEW da, NEW hp, NEW e, Stands(a, da, hp, e), ~IsSingle(da)
  PROVE  \E r, h2 : /\ uninit([da |-> da, heap |-> hp]) = [da |-> r, heap |-> h2]
                    /\ Left(da, hp, r, h2)
<1> DEFINE s == [da |-> da, heap |-> hp]
<1>1. /\ da.size \in Nat /\ da.capacity \in Int /\ da \in Types
      /\ hp \in [Blocks -> Cells] /\ MaxSize \in Nat
  BY StandTypes
<1>2. Empty \in Types /\ Empty.capacity = 0 /\ Empty.size = 0 /\ ~Owner(Empty)
  BY <1>1 DEF Empty, Types, Owner
<1>3. CASE da.capacity <= 0
  <2>1. Swap(da, hp, Empty, hp)
    BY <1>1, <1>2, <1>3 DEF Swap, Owner
  <2>2. IsCopy(da) \/ da = Empty
    BY <1>1, <1>3 DEF Stands, Fits, Shape, Owner, IsCopy
  <2>3. uninit(s) = [da |-> Empty, heap |-> hp]
    <3>1. CASE IsCopy(da)
      BY <3>1 DEF uninit
    <3>2. CASE ~IsCopy(da)
      BY <1>2, <2>2, <3>2 DEF uninit
    <3> QED
      BY <3>1, <3>2
  <2> QED
    BY <1>2, <2>1, <2>3 DEF Left
<1>4. CASE da.capacity > 0
  <2>1. Owner(da)
    BY <1>1, <1>4 DEF Stands, Fits, Shape, Owner, IsSingle, Empty
  <2>2. PICK b \in Blocks : da.data = Buffer(b) /\ da.size <= da.capacity
    BY <2>1, StandOwner
  <2> DEFINE r == [da EXCEPT !.data = Null]
             h2 == [hp EXCEPT ![b] = <<>>]
  <2>3. Freed(s) = h2
    BY <2>2, DataFacts DEF Freed
  <2>4. uninit(s) = [da |-> r, heap |-> h2]
    <3>1. ~IsCopy(da) /\ da.capacity # 0
      BY <1>1, <1>4 DEF IsCopy
    <3>2. uninit(s) = [da |-> r, heap |-> Freed(s)]
      BY <3>1 DEF uninit
    <3> QED
      BY ONLY <2>3, <3>2
  <2>5. r \in Types /\ r.size <= r.capacity
    BY <1>1, <2>2 DEF Types
  <2>6. Swap(da, hp, Empty, h2)
    <3>1. /\ h2 \in [Blocks -> Cells] /\ h2[b] = <<>>
          /\ \A c \in Blocks \ {b} : h2[c] = hp[c]
      <4>1. <<>> \in Cells
        BY DEF Cells
      <4> QED
        BY <1>1, <4>1
    <3>2. \A c \in Blocks : da.data = Buffer(c) <=> c = b
      BY <2>2, DataFacts
    <3> HIDE DEF h2
    <3> QED
      BY <1>2, <2>1, <3>1, <3>2 DEF Swap
  <2> HIDE DEF r, h2
  <2> QED
    BY <1>1, <1>4, <2>4, <2>5, <2>6 DEF Left
<1>5. da.capacity <= 0 \/ da.capacity > 0
  BY <1>1
<1> QED
  BY ONLY <1>3, <1>4, <1>5

-----------------------------------------------------------------------------
(* The calls.                                                              *)

(* Every array in use stands as the invariant says.                        *)
LEMMA Standing ==
  ASSUME ArrayInv, NEW a \in live
  PROVE  /\ Stands(a, arrays[a], heap, contents[a])
         /\ a \in Arrays /\ Old(arrays, live, a) = arrays[a]
<1>1. Sound(arrays, live, heap, contents)
  BY DEF ArrayInv
<1>2. /\ Fits(a, arrays[a], heap) /\ heap \in [Blocks -> Cells]
      /\ contents[a] \in Seq(Items) /\ contents[a] = Elements(arrays[a], heap)
  BY <1>1 DEF Sound, Cells
<1>3. ASSUME IsCopy(arrays[a]), NEW b \in Blocks, arrays[a].data = Buffer(b)
      PROVE  arrays[a].size <= Len(heap[b])
  <2>1. \E c \in Blocks : arrays[a].data = Buffer(c)
          /\ arrays[a].size <= Len(heap[c])
    BY <1>1, <1>3, CopyFacts
  <2> QED
    BY <1>3, <2>1, DataFacts
<1> QED
  BY <1>1, <1>2, <1>3 DEF Stands, Sound, Old

(* An array changes, and the arrays keep their promises.                   *)
LEMMA OneStep ==
  ASSUME ArrayInv, NEW a, NEW r, NEW h2, NEW e,
         Changes(arrays, live, heap, a, r, h2, e),
         arrays' = [arrays EXCEPT ![a] = r], heap' = h2, live' = live \cup {a},
         contents' = [contents EXCEPT ![a] = e],
         returned' = promised', returned' \in Items \cup {NULL}
  PROVE  ArrayInv'
<1>1. /\ arrays \in [Arrays -> Types] /\ contents \in [Arrays -> Seq(Items)]
      /\ \A c \in Arrays :
           IsCopy(arrays[c]) \/ arrays[c].size <= arrays[c].capacity
      /\ a \in Arrays /\ Fits(a, r, h2) /\ e \in Seq(Items)
  BY DEF ArrayInv, TypeOK, Types, Changes
<1>2. Sound(arrays', live', heap', contents')
  <2>1. Sound(arrays, live, heap, contents)
    BY DEF ArrayInv
  <2>2. DOMAIN arrays = Arrays /\ DOMAIN contents = Arrays
    BY <1>1
  <2> QED
    BY <2>1, <2>2, ChangeSound
<1>3. r \in Types /\ (IsCopy(r) \/ r.size <= r.capacity)
  <2>1. r \in Types /\ Shape(a, r)
    BY <1>1 DEF Fits
  <2> QED
    BY <2>1, ArrayAssumption DEF Shape, Owner, IsCopy, Empty
<1>4. /\ arrays' \in [Arrays -> Types]
      /\ \A c \in Arrays :
           IsCopy(arrays'[c]) \/ arrays'[c].size <= arrays'[c].capacity
  BY <1>1, <1>3
<1>5. TypeOK'
  <2>1. live' \subseteq Arrays /\ heap' \in [Blocks -> Seq(Items \cup {NULL})]
    BY <1>2 DEF Sound
  <2> QED
    BY <1>4, <2>1 DEF TypeOK, Types, IsCopy
<1>6. /\ contents' \in [Arrays -> Seq(Items)]
      /\ \A c \in Arrays \ live' : contents'[c] = <<>>
  BY <1>1 DEF ArrayInv
<1> QED
  BY <1>2, <1>5, <1>6 DEF ArrayInv

(* No copy sees what becomes of the array: it has none, or no buffer that  *)
(* others could have.                                                      *)
Alone(a) == MayChange(a) \/ a \in PtrArrays \/ ~Owner(arrays[a])

(* No copy sees what becomes of an array that is alone.                    *)
LEMMA AloneFacts ==
  ASSUME ArrayInv, NEW a \in live, Alone(a), NEW r, NEW h2
  PROVE  KeepsCopies(arrays, live, heap, a, r, h2)
<1> SUFFICES ASSUME NEW c \in live \ {a}, IsCopy(arrays[c]), Owner(arrays[a]),
                    arrays[c].data = arrays[a].data
             PROVE  FALSE
  BY DEF KeepsCopies, Old
<1>1. CASE MayChange(a)
  <2>1. arrays[a].capacity \in Int
    BY Standing, StandTypes
  <2>2. ~IsCopy(arrays[a])
    BY <2>1 DEF IsCopy, Owner
  <2> QED
    BY <1>1, <2>2 DEF MayChange, Shared
<1>2. CASE a \in PtrArrays
  <2>1. Sound(arrays, live, heap, contents)
    BY DEF ArrayInv
  <2>2. PICK o \in live \cap IntArrays : Lent(arrays[c], arrays[o])
    BY <2>1 DEF Sound
  <2>3. o = a
    BY <2>1, <2>2 DEF Sound, Lent
  <2> QED
    BY <1>2, <2>2, <2>3, ArrayAssumption
<1> QED
  BY <1>1, <1>2 DEF Alone

(* An array alone is replaced by one that is no copy.                      *)
LEMMA Replaced ==
  ASSUME ArrayInv, NEW a \in live, Alone(a), NEW r, NEW h2, NEW e,
         ~IsCopy(r), Fits(a, r, h2), Swap(arrays[a], heap, r, h2),
         e \in Seq(Items), e = Elements(r, h2),
         arrays' = [arrays EXCEPT ![a] = r], heap' = h2, live' = live,
         contents' = [contents EXCEPT ![a] = e],
         returned' = promised', returned' \in Items \cup {NULL}
  PROVE  ArrayInv'
<1>1. Changes(arrays, live, heap, a, r, h2, e)
  BY Standing, AloneFacts DEF Changes
<1>2. live' = live \cup {a}
  OBVIOUS
<1> QED
  BY <1>1, <1>2, OneStep

(* An array alone is gone.                                                 *)
LEMMA Gone ==
  ASSUME ArrayInv, NEW a \in live, Alone(a), NEW r \in Types, r.size <= r.capacity,
         NEW h2, Swap(arrays[a], heap, Empty, h2),
         arrays' = [arrays EXCEPT ![a] = r], heap' = h2, live' = live \ {a},
         contents' = [contents EXCEPT ![a] = <<>>], UNCHANGED <<returned, promised>>
  PROVE  ArrayInv'
<1> DEFINE ar == [arrays EXCEPT ![a] = Empty]
<1>1. /\ arrays \in [Arrays -> Types] /\ contents \in [Arrays -> Seq(Items)]
      /\ \A c \in Arrays :
           IsCopy(arrays[c]) \/ arrays[c].size <= arrays[c].capacity
      /\ a \in Arrays /\ live \subseteq Arrays
      /\ returned \in Items \cup {NULL} /\ returned = promised
      /\ \A c \in Arrays \ live : contents[c] = <<>>
      /\ Sound(arrays, live, heap, contents)
  BY DEF ArrayInv, TypeOK, Types
<1>2. Empty \in Types /\ Empty.size = 0 /\ ~Owner(Empty) /\ ~IsCopy(Empty)
  BY ArrayAssumption DEF Empty, Types, Owner, IsCopy
<1>3. Changes(arrays, live, heap, a, Empty, h2, <<>>)
  <2>1. Fits(a, Empty, h2)
    BY <1>2 DEF Fits, Shape
  <2>2. Elements(Empty, h2) = <<>> /\ <<>> \in Seq(Items)
    BY <1>2, NoElements
  <2> QED
    BY <1>2, <2>1, <2>2, Standing, AloneFacts DEF Changes
<1>4. Sound(ar, live, h2, contents')
  <2>1. live \cup {a} = live /\ DOMAIN arrays = Arrays /\ DOMAIN contents = Arrays
    BY <1>1
  <2>2. Sound(ar, live \cup {a}, h2, contents')
    BY <1>1, <1>3, <2>1, ChangeSound
  <2> HIDE DEF ar
  <2> QED
    BY <2>1, <2>2
<1>5. Sound(arrays', live', heap', contents')
  <2>1. ~Owner(ar[a]) /\ \A c \in live \ {a} : arrays'[c] = ar[c]
    BY <1>1, <1>2
  <2> HIDE DEF ar
  <2> QED
    BY <1>4, <2>1, DropSound
<1>6. TypeOK'
  <2>1. live' \subseteq Arrays /\ heap' \in [Blocks -> Seq(Items \cup {NULL})]
    BY <1>5 DEF Sound
  <2>2. /\ arrays' \in [Arrays -> Types]
        /\ \A c \in Arrays :
             IsCopy(arrays'[c]) \/ arrays'[c].size <= arrays'[c].capacity
    BY <1>1
  <2> QED
    BY <1>1, <2>1, <2>2 DEF TypeOK, Types, IsCopy
<1>7. /\ contents' \in [Arrays -> Seq(Items)]
      /\ \A c \in Arrays \ live' : contents'[c] = <<>>
  BY <1>1
<1> QED
  BY <1>1, <1>5, <1>6, <1>7 DEF ArrayInv

(* A new array is empty, and takes no buffer of others.                    *)
LEMMA InitStep ==
  ASSUME ArrayInv, NEW a \in Arrays, init(a)
  PROVE  ArrayInv'
<1>1. /\ contents \in [Arrays -> Seq(Items)] /\ contents[a] = <<>>
      /\ returned \in Items \cup {NULL} /\ returned = promised
      /\ heap \in [Blocks -> Cells]
  BY DEF ArrayInv, init, TypeOK, Cells
<1>2. Empty \in Types /\ Empty.size = 0 /\ ~Owner(Empty) /\ ~IsCopy(Empty)
  BY ArrayAssumption DEF Empty, Types, Owner, IsCopy
<1>3. Changes(arrays, live, heap, a, Empty, heap, <<>>)
  <2>1. Old(arrays, live, a) = Empty
    BY DEF Old, init
  <2>2. Fits(a, Empty, heap)
    BY <1>2 DEF Fits, Shape
  <2>3. Elements(Empty, heap) = <<>> /\ <<>> \in Seq(Items)
    BY <1>2, NoElements
  <2>4. Swap(Empty, heap, Empty, heap)
    BY <1>1, <1>2 DEF Swap
  <2>5. KeepsCopies(arrays, live, heap, a, Empty, heap)
    BY <1>2, <2>1 DEF KeepsCopies
  <2> QED
    BY <1>2, <2>1, <2>2, <2>3, <2>4, <2>5 DEF Changes
<1>4. contents' = [contents EXCEPT ![a] = <<>>] /\ promised' = promised
  BY <1>1 DEF init, Promise!Keep
<1> QED
  BY <1>1, <1>3, <1>4, OneStep DEF init

(* An array of ints is empty, an owner or a copy.                          *)
LEMMA IntShape ==
  ASSUME ArrayInv, NEW a \in live, a \in IntArrays
  PROVE  /\ ~IsSingle(arrays[a])
         /\ Owner(arrays[a]) \/ IsCopy(arrays[a]) \/ arrays[a] = Empty
         /\ IsCopy(arrays[a]) => arrays[a].size > 0 /\ arrays[a].capacity = -1
         /\ Owner(arrays[a]) => ~IsCopy(arrays[a])
<1>1. Fits(a, arrays[a], heap) /\ a \notin PtrArrays
  BY ArrayAssumption DEF ArrayInv, Sound
<1>2. arrays[a].capacity \in Int
  BY Standing, StandTypes
<1> QED
  BY <1>1, <1>2 DEF Fits, Shape, IsSingle, Owner, IsCopy, Empty

(* A get that returns what it promises changes nothing else.               *)
LEMMA Unchanged ==
  ASSUME ArrayInv, UNCHANGED <<arrays, live, heap, contents>>,
         returned' = promised', returned' \in Items \cup {NULL}
  PROVE  ArrayInv'
<1>1. TypeOK' /\ Sound(arrays', live', heap', contents')
  BY DEF ArrayInv, TypeOK, IsCopy
<1> QED
  BY <1>1 DEF ArrayInv

(* What was in the array stays there when it gets room.                    *)
LEMMA RoomyFits ==
  ASSUME NEW a, NEW da, NEW hp, NEW e, Stands(a, da, hp, e),
         NEW n \in Nat, da.size <= n,
         NEW r, NEW h2, NEW b, Roomy(da, hp, n, e, r, h2, b)
  PROVE  Fits(a, r, h2) /\ Elements(r, h2) = e /\ ~IsCopy(r) /\ r.size <= r.capacity
<1>1. /\ da.size \in Nat /\ Len(e) = da.size /\ e \in Seq(Items)
  BY StandTypes, StandElements DEF Stands
<1>2. /\ r \in Types /\ Owner(r) /\ b \in Blocks /\ r.data = Buffer(b)
      /\ h2[b] \in Cells /\ Len(h2[b]) = r.capacity /\ r.size = da.size
      /\ r.capacity >= n /\ \A i \in 1..da.size : h2[b][i] = e[i]
  BY DEF Roomy, Swap
<1>3. r.capacity \in Int /\ r.size <= r.capacity
  BY <1>1, <1>2, ArrayAssumption DEF Types
<1>4. Fits(a, r, h2) /\ Elements(r, h2) = [j \in 1..r.size |-> h2[b][j]]
  BY ONLY <1>2, <1>3, OwnerFits
<1>5. e \in [1..Len(e) -> Items]
  BY <1>1, LenProperties
<1>6. e = [j \in 1..da.size |-> e[j]]
  BY <1>1, <1>5
<1>7. [j \in 1..da.size |-> h2[b][j]] = [j \in 1..da.size |-> e[j]]
  BY ONLY <1>2
<1>8. ~IsCopy(r)
  BY <1>2, <1>3 DEF IsCopy, Owner
<1> QED
  BY ONLY <1>2, <1>3, <1>4, <1>6, <1>7, <1>8

(* empty keeps the buffer of an owner, and a copy lets go of it.           *)
LEMMA EmptyFacts ==
  ASSUME NEW a, NEW da, NEW hp, NEW e, Stands(a, da, hp, e), ~IsSingle(da)
  PROVE  \E r : /\ empty([da |-> da, heap |-> hp]) = [da |-> r, heap |-> hp]
                /\ Fits(a, r, hp) /\ Swap(da, hp, r, hp)
                /\ r.size = 0 /\ ~IsCopy(r)
<1>1. /\ da.size \in Nat /\ da.capacity \in Int /\ da \in Types
      /\ hp \in [Blocks -> Cells] /\ MaxSize \in Nat
  BY StandTypes
<1>2. Empty \in Types /\ Empty.capacity = 0 /\ Empty.size = 0 /\ ~Owner(Empty)
        /\ ~IsCopy(Empty)
  BY <1>1 DEF Empty, Types, Owner, IsCopy
<1>3. CASE Owner(da)
  <2> DEFINE r == [da EXCEPT !.size = 0]
  <2>1. PICK b \in Blocks : /\ da.data = Buffer(b) /\ Len(hp[b]) = da.capacity
                            /\ hp[b] \in Cells
    BY <1>3, StandOwner
  <2>2. r \in Types /\ r.size = 0 /\ r.capacity = da.capacity /\ r.data = da.data
    BY <1>1 DEF Types
  <2>3. ~IsCopy(da)
    BY <1>1, <1>3 DEF Owner, IsCopy
  <2>4. empty([da |-> da, heap |-> hp]) = [da |-> r, heap |-> hp]
    BY <2>3 DEF empty
  <2> HIDE DEF r
  <2>5. Fits(a, r, hp)
    <3>1. /\ Owner(r) /\ r.size <= r.capacity /\ r.data = Buffer(b)
          /\ Len(hp[b]) = r.capacity
      BY <1>1, <1>3, <2>1, <2>2 DEF Owner
    <3> QED
      BY ONLY <2>1, <2>2, <3>1, OwnerFits
  <2>6. Swap(da, hp, r, hp)
    BY <1>1, <2>2 DEF Swap, Owner
  <2> QED
    BY <1>1, <1>3, <2>2, <2>4, <2>5, <2>6 DEF Owner, IsCopy
<1>4. CASE ~Owner(da)
  <2>1. IsCopy(da) \/ da = Empty
    BY <1>1, <1>4 DEF Stands, Fits, Shape, Owner, IsCopy, IsSingle
  <2>2. empty([da |-> da, heap |-> hp]) = [da |-> Empty, heap |-> hp]
    <3>1. CASE IsCopy(da)
      BY <3>1 DEF empty
    <3>2. CASE da = Empty
      <4>1. [Empty EXCEPT !.size = 0] = Empty
        BY DEF Empty
      <4> QED
        BY <1>2, <3>2, <4>1 DEF empty
    <3> QED
      BY <2>1, <3>1, <3>2
  <2>3. Fits(a, Empty, hp)
    BY <1>2 DEF Fits, Shape
  <2>4. Swap(da, hp, Empty, hp)
    BY <1>1, <1>2, <1>4 DEF Swap
  <2> QED
    BY <1>2, <2>2, <2>3, <2>4
<1> QED
  BY <1>3, <1>4

(* An owner frees its buffer, a copy leaves that of the owner alone.       *)
LEMMA IntUninitStep ==
  ASSUME ArrayInv, NEW a \in IntArrays, int_uninit(a)
  PROVE  ArrayInv'
<1>1. a \in live /\ MayChange(a)
  BY DEF int_uninit, MayChange
<1>2. Stands(a, arrays[a], heap, contents[a]) /\ ~IsSingle(arrays[a])
  BY <1>1, Standing, IntShape
<1>3. PICK r, h2 : /\ uninit(Here(a)) = [da |-> r, heap |-> h2]
                   /\ Left(arrays[a], heap, r, h2)
  BY <1>2, UninitFacts DEF Here
<1>4. /\ arrays' = [arrays EXCEPT ![a] = r] /\ heap' = h2 /\ live' = live \ {a}
      /\ contents' = [contents EXCEPT ![a] = <<>>]
      /\ UNCHANGED <<returned, promised>>
  BY <1>3 DEF int_uninit, Becomes, Promise!Clear, Promise!Becomes
<1> QED
  BY <1>1, <1>3, <1>4, Gone DEF Alone, Left

(* An owner keeps its buffer, a copy becomes an array without one.         *)
LEMMA IntEmptyStep ==
  ASSUME ArrayInv, NEW a \in IntArrays, int_empty(a)
  PROVE  ArrayInv'
<1>1. a \in live /\ MayChange(a)
  BY DEF int_empty, MayChange
<1>2. Stands(a, arrays[a], heap, contents[a]) /\ ~IsSingle(arrays[a])
  BY <1>1, Standing, IntShape
<1>3. PICK r : /\ empty(Here(a)) = [da |-> r, heap |-> heap]
               /\ Fits(a, r, heap) /\ Swap(arrays[a], heap, r, heap)
               /\ r.size = 0 /\ ~IsCopy(r)
  BY <1>2, EmptyFacts DEF Here
<1>4. /\ arrays' = [arrays EXCEPT ![a] = r] /\ heap' = heap /\ live' = live
      /\ contents' = [contents EXCEPT ![a] = <<>>]
      /\ UNCHANGED <<returned, promised>>
  BY <1>3 DEF int_empty, Becomes, Promise!Clear, Promise!Becomes
<1>5. Elements(r, heap) = <<>> /\ <<>> \in Seq(Items)
  BY <1>3, NoElements
<1>6. returned' = promised' /\ returned' \in Items \cup {NULL}
  BY <1>4 DEF ArrayInv, TypeOK
<1> QED
  BY <1>1, <1>3, <1>4, <1>5, <1>6, Replaced DEF Alone

(* No copy is longer than the array it has the buffer of.                  *)
LEMMA CopyShorter ==
  ASSUME ArrayInv, NEW a \in live, Owner(arrays[a]), NEW c \in live,
         IsCopy(arrays[c]), arrays[c].data = arrays[a].data
  PROVE  arrays[c].size <= arrays[a].size /\ a \in IntArrays
<1>1. Sound(arrays, live, heap, contents)
  BY DEF ArrayInv
<1>2. PICK o \in live \cap IntArrays : Lent(arrays[c], arrays[o])
  BY <1>1 DEF Sound
<1>3. o = a
  BY <1>1, <1>2 DEF Sound, Lent
<1> QED
  BY <1>2, <1>3 DEF Lent

(* An add in place leaves the copies alone.                                *)
LEMMA AddKeepsCopies ==
  ASSUME ArrayInv, NEW a \in live, NEW x, NEW r, NEW h2,
         Added(a, arrays[a], heap, contents[a], x, r, h2),
         Alone(a) \/ arrays[a].size < arrays[a].capacity
  PROVE  KeepsCopies(arrays, live, heap, a, r, h2)
<1>1. CASE Alone(a)
  BY <1>1, AloneFacts
<1>2. CASE arrays[a].size < arrays[a].capacity
  <2> SUFFICES ASSUME NEW c \in live \ {a}, IsCopy(arrays[c]), Owner(arrays[a]),
                      arrays[c].data = arrays[a].data
               PROVE  /\ Lent(arrays[c], r) /\ a \in IntArrays
                      /\ \A b \in Blocks : arrays[c].data = Buffer(b) =>
                           \A i \in 1..arrays[c].size : h2[b][i] = heap[b][i]
    BY DEF KeepsCopies, Old
  <2>1. arrays[c].size <= arrays[a].size /\ a \in IntArrays
    BY CopyShorter
  <2>2. arrays[c].size \in Nat /\ arrays[a].size \in Nat
    BY Standing, StandTypes
  <2>3. /\ r.data = arrays[a].data /\ Owner(r) /\ r.size = arrays[a].size + 1
        /\ \A b \in Blocks : arrays[a].data = Buffer(b) =>
             \A i \in 1..arrays[a].size : h2[b][i] = heap[b][i]
    BY <1>2 DEF Added
  <2>4. Lent(arrays[c], r)
    BY <2>1, <2>2, <2>3 DEF Lent
  <2>5. \A i \in 1..arrays[c].size : i \in 1..arrays[a].size
    BY <2>1, <2>2
  <2> QED
    BY <2>1, <2>3, <2>4, <2>5
<1> QED
  BY <1>1, <1>2

(* An array has grown by x.                                                *)
LEMMA AddedStep ==
  ASSUME ArrayInv, NEW a \in live, NEW x \in Items, NEW r, NEW h2,
         Added(a, arrays[a], heap, contents[a], x, r, h2),
         Alone(a) \/ arrays[a].size < arrays[a].capacity,
         Becomes(a, [da |-> r, heap |-> h2]), UNCHANGED <<live, returned>>,
         Promise!Add(a, x)
  PROVE  ArrayInv'
<1>1. KeepsCopies(arrays, live, heap, a, r, h2)
  BY AddKeepsCopies
<1>2. contents[a] \in Seq(Items) /\ Append(contents[a], x) \in Seq(Items)
  BY Standing, AppendIs DEF Stands
<1>3. ~IsCopy(r) /\ Fits(a, r, h2) /\ Swap(arrays[a], heap, r, h2)
      /\ Elements(r, h2) = Append(contents[a], x)
  <2>1. r.capacity \in Int /\ Owner(r)
    BY ArrayAssumption DEF Added, Fits, Types
  <2> QED
    BY <2>1 DEF Added, Owner, IsCopy
<1>4. Changes(arrays, live, heap, a, r, h2, Append(contents[a], x))
  BY <1>1, <1>2, <1>3, Standing DEF Changes
<1>5. /\ arrays' = [arrays EXCEPT ![a] = r] /\ heap' = h2
      /\ live' = live \cup {a}
      /\ contents' = [contents EXCEPT ![a] = Append(contents[a], x)]
      /\ returned' = promised' /\ returned' \in Items \cup {NULL}
  BY DEF Becomes, Promise!Add, Promise!Becomes, ArrayInv, TypeOK
<1> QED
  BY <1>4, <1>5, OneStep

(* In place as long as there is room, which copies do not notice.          *)
LEMMA IntAddStep ==
  ASSUME ArrayInv, NEW a \in IntArrays, NEW x \in Items, int_add(a, x)
  PROVE  ArrayInv'
<1>1. /\ a \in live /\ arrays[a].size < MaxSize /\ \E b \in Blocks : heap[b] = <<>>
      /\ Alone(a) \/ arrays[a].size < arrays[a].capacity
  BY DEF int_add, Room, Alone
<1>2. Stands(a, arrays[a], heap, contents[a])
  BY <1>1, Standing
<1>3. Owner(arrays[a]) \/ arrays[a].capacity <= 0
  BY <1>1, IntShape DEF Empty
<1>4. PICK r, h2 : /\ add(Here(a), x) = [da |-> r, heap |-> h2]
                   /\ Added(a, arrays[a], heap, contents[a], x, r, h2)
  BY <1>1, <1>2, <1>3, AddFacts DEF Here
<1>5. Becomes(a, [da |-> r, heap |-> h2])
  BY <1>4 DEF int_add
<1> QED
  BY <1>1, <1>4, <1>5, AddedStep DEF int_add

(* What is read is what should be.                                         *)
LEMMA GetStep ==
  ASSUME ArrayInv, NEW a \in live, NEW i \in 1..arrays[a].size,
         returned' = PtrElement(Here(a), i), UNCHANGED <<arrays, live, heap>>,
         Promise!Get(a, i)
  PROVE  ArrayInv'
<1>1. PtrElement(Here(a), i) = contents[a][i] /\ contents[a][i] \in Items
  BY Standing, StandElements DEF Here
<1>2. promised' = contents[a][i] /\ UNCHANGED contents
  BY DEF Promise!Get
<1> QED
  BY <1>1, <1>2, Unchanged

(* An array of ints returns the element it has been given.                 *)
LEMMA IntGetStep ==
  ASSUME ArrayInv, NEW a \in IntArrays, NEW i, int_get(a, i)
  PROVE  ArrayInv'
<1>1. ~IsSingle(arrays[a])
  BY IntShape DEF int_get
<1>2. PtrElement(Here(a), i) = Element(Here(a), i)
  BY <1>1 DEF PtrElement, Here
<1> QED
  BY <1>2, GetStep DEF int_get

(* What a set makes of a sequence.                                         *)
LEMMA SetIs ==
  ASSUME NEW e \in Seq(Items), NEW i \in 1..Len(e), NEW x \in Items
  PROVE  /\ [e EXCEPT ![i] = x] \in Seq(Items)
         /\ [e EXCEPT ![i] = x] = [j \in 1..Len(e) |-> IF j = i THEN x ELSE e[j]]
<1>1. e \in [1..Len(e) -> Items]
  BY LenProperties
<1>2. [e EXCEPT ![i] = x] \in Seq(Items)
  BY ExceptSeq, LenProperties
<1>3. [e EXCEPT ![i] = x] = [j \in 1..Len(e) |-> IF j = i THEN x ELSE e[j]]
  BY <1>1
<1> QED
  BY <1>2, <1>3

(* An owner without copies sets an element.                                *)
LEMMA OwnerSet ==
  ASSUME ArrayInv, NEW a \in live, Owner(arrays[a]), Alone(a),
         NEW i \in 1..arrays[a].size, NEW x \in Items,
         Becomes(a, Written(Here(a), i, x)), UNCHANGED <<live, returned>>,
         Promise!Set(a, i, x)
  PROVE  ArrayInv'
<1> DEFINE da == arrays[a]
           e2 == [contents[a] EXCEPT ![i] = x]
<1>1. /\ Stands(a, da, heap, contents[a]) /\ da \in Types
      /\ da.size \in Nat /\ da.capacity \in Int /\ heap \in [Blocks -> Cells]
      /\ contents[a] \in Seq(Items) /\ Len(contents[a]) = da.size
  <2>1. Stands(a, da, heap, contents[a])
    BY Standing
  <2> HIDE DEF da
  <2>2. contents[a] \in Seq(Items)
    BY <2>1 DEF Stands
  <2>3. Len(contents[a]) = da.size
    BY <2>1, StandElements
  <2> QED
    BY <2>1, <2>2, <2>3, StandTypes
<1>2. PICK b \in Blocks : /\ da.data = Buffer(b) /\ da.size <= da.capacity
                          /\ Len(heap[b]) = da.capacity
                          /\ \A j \in 1..da.size : heap[b][j] = contents[a][j]
  BY <1>1, StandOwner
<1>3. Swap(da, heap, da, heap)
  BY <1>1 DEF Swap
<1>4. i \in 1..da.capacity
  BY <1>1, <1>2
<1> HIDE DEF da
<1>5. PICK h3 : Wrote(a, da, heap, da, heap, b, i, x, h3)
  <2>1. Owner(da)
    BY DEF da
  <2> QED
    BY ONLY <1>1, <1>2, <1>3, <1>4, <2>1, x \in Items, WriteFacts
<1>6. e2 \in Seq(Items) /\ e2 = Elements(da, h3)
  <2>1. i \in 1..Len(contents[a])
    BY <1>1 DEF da
  <2>2. /\ e2 \in Seq(Items)
        /\ e2 = [j \in 1..Len(contents[a]) |-> IF j = i THEN x ELSE contents[a][j]]
    BY ONLY <1>1, <2>1, x \in Items, SetIs
  <2>3. Elements(da, h3) = [j \in 1..da.size |-> IF j = i THEN x ELSE heap[b][j]]
    BY <1>5 DEF Wrote
  <2>4. [j \in 1..da.size |-> IF j = i THEN x ELSE heap[b][j]]
          = [j \in 1..da.size |-> IF j = i THEN x ELSE contents[a][j]]
    BY ONLY <1>2
  <2> QED
    BY ONLY <1>1, <2>2, <2>3, <2>4
<1>7. /\ arrays' = [arrays EXCEPT ![a] = da] /\ heap' = h3 /\ live' = live
      /\ contents' = [contents EXCEPT ![a] = e2]
      /\ returned' = promised' /\ returned' \in Items \cup {NULL}
  <2>1. Written(Here(a), i, x) = [da |-> da, heap |-> h3]
    BY <1>5 DEF Wrote, Here, da
  <2>2. arrays' = [arrays EXCEPT ![a] = da] /\ heap' = h3
    BY <2>1 DEF Becomes
  <2> QED
    BY <2>2 DEF Promise!Set, Promise!Becomes, ArrayInv, TypeOK
<1>8. ~IsCopy(da) /\ Fits(a, da, h3) /\ Swap(arrays[a], heap, da, h3)
  <2>1. Owner(da)
    BY DEF da
  <2> QED
    BY <1>1, <1>5, <2>1 DEF Wrote, da, Owner, IsCopy
<1> HIDE DEF e2
<1> QED
  BY ONLY ArrayInv, a \in live, Alone(a), <1>6, <1>7, <1>8, Replaced

(* Only an owner without copies is set.                                    *)
LEMMA IntSetStep ==
  ASSUME ArrayInv, NEW a \in IntArrays, NEW i, NEW x \in Items, int_set(a, i, x)
  PROVE  ArrayInv'
<1>1. /\ a \in live /\ Alone(a) /\ ~IsCopy(arrays[a])
      /\ i \in 1..arrays[a].size
  BY DEF int_set, Alone, MayChange
<1>2. Owner(arrays[a])
  <2>1. arrays[a] # Empty
    BY <1>1 DEF Empty
  <2> QED
    BY <1>1, <2>1, IntShape
<1> QED
  BY <1>1, <1>2, OwnerSet DEF int_set

(* An array alone gets room for n elements.                                *)
LEMMA EnsuredStep ==
  ASSUME ArrayInv, NEW a \in live, Alone(a), NEW n \in Nat, arrays[a].size <= n,
         NEW r, NEW h2, NEW b, Roomy(arrays[a], heap, n, contents[a], r, h2, b),
         Becomes(a, [da |-> r, heap |-> h2]), UNCHANGED <<live, returned>>,
         Promise!Keep
  PROVE  ArrayInv'
<1>1. Stands(a, arrays[a], heap, contents[a]) /\ contents[a] \in Seq(Items)
  BY Standing DEF Stands
<1>2. Fits(a, r, h2) /\ Elements(r, h2) = contents[a] /\ ~IsCopy(r)
  BY <1>1, RoomyFits
<1>3. Swap(arrays[a], heap, r, h2)
  BY DEF Roomy
<1>4. /\ arrays' = [arrays EXCEPT ![a] = r] /\ heap' = h2 /\ live' = live
      /\ contents' = [contents EXCEPT ![a] = contents[a]]
      /\ returned' = promised' /\ returned' \in Items \cup {NULL}
  BY DEF Becomes, Promise!Keep, ArrayInv, TypeOK
<1> QED
  BY <1>1, <1>2, <1>3, <1>4, Replaced

(* A copy gets a buffer of its own, with the same elements.                *)
LEMMA IntEnsureIndependentStep ==
  ASSUME ArrayInv, NEW a \in IntArrays, int_ensure_independent(a)
  PROVE  ArrayInv'
<1>1. /\ a \in live /\ \E b \in Blocks : heap[b] = <<>>
      /\ UNCHANGED <<live, returned>> /\ Promise!Keep
      /\ Stands(a, arrays[a], heap, contents[a])
  BY Standing DEF int_ensure_independent, Room
<1>2. CASE IsCopy(arrays[a])
  <2> DEFINE n == arrays[a].size
  <2>1. n \in 1..MaxSize /\ n \in Nat /\ arrays[a].capacity < n /\ n <= n
    BY <1>1, <1>2, IntShape, StandTypes
  <2> HIDE DEF n
  <2>2. PICK r, h2, b :
          /\ ensure_capacity(Here(a), n) = [da |-> r, heap |-> h2]
          /\ Roomy(arrays[a], heap, n, contents[a], r, h2, b)
    <3>1. arrays[a].size <= n
      BY <2>1 DEF n
    <3> QED
      BY <1>1, <2>1, <3>1, EnsureFacts DEF Here
  <2>3. Becomes(a, [da |-> r, heap |-> h2])
    BY <1>2, <2>2 DEF int_ensure_independent, n
  <2>4. Alone(a) /\ arrays[a].size <= n
    BY <1>2, <2>1, IntShape, <1>1 DEF Alone, n
  <2> QED
    BY <1>1, <2>1, <2>2, <2>3, <2>4, EnsuredStep
<1>3. CASE ~IsCopy(arrays[a])
  <2>1. arrays' = [arrays EXCEPT ![a] = arrays[a]] /\ heap' = heap
    BY <1>3 DEF int_ensure_independent, Becomes, Here
  <2>2. arrays' = arrays
    BY <2>1 DEF ArrayInv, TypeOK
  <2> QED
    BY <1>1, <2>1, <2>2, Unchanged DEF Promise!Keep, ArrayInv, TypeOK
<1> QED
  BY <1>2, <1>3

(* The buffer that a copy of src would share, and its owner.               *)
LEMMA Lender ==
  ASSUME ArrayInv, NEW src \in live, src \in IntArrays, arrays[src].size > 0
  PROVE  \E o \in live \cap IntArrays, b \in Blocks :
           /\ o = src \/ IsCopy(arrays[src])
           /\ arrays[src].data = Buffer(b) /\ arrays[o].data = Buffer(b)
           /\ Owner(arrays[o]) /\ arrays[src].size <= arrays[o].size
           /\ arrays[src].size <= Len(heap[b]) /\ heap[b] \in Cells
           /\ arrays[src].capacity # 1
<1>1. Stands(src, arrays[src], heap, contents[src]) /\ heap \in [Blocks -> Cells]
  BY Standing, StandTypes
<1>2. arrays[src].size \in Nat /\ arrays[src].capacity \in Int
  BY <1>1, StandTypes
<1>3. CASE Owner(arrays[src])
  <2>1. PICK b \in Blocks : /\ arrays[src].data = Buffer(b)
                            /\ arrays[src].size <= arrays[src].capacity
                            /\ Len(heap[b]) = arrays[src].capacity
    BY <1>1, <1>3, StandOwner
  <2> QED
    BY <1>1, <1>2, <1>3, <2>1 DEF Owner
<1>4. CASE ~Owner(arrays[src])
  <2>1. IsCopy(arrays[src])
    BY <1>4, IntShape DEF Empty
  <2>2. Sound(arrays, live, heap, contents)
    BY DEF ArrayInv
  <2>3. PICK o \in live \cap IntArrays, b \in Blocks :
          /\ Lent(arrays[src], arrays[o]) /\ arrays[src].data = Buffer(b)
          /\ arrays[o].data = Buffer(b)
          /\ arrays[src].size <= Len(heap[b]) /\ arrays[src].capacity = -1
    BY <2>1, <2>2, CopyFacts
  <2> QED
    BY <1>1, <2>1, <2>3 DEF Lent
<1> QED
  BY <1>3, <1>4

(* An array without copies is the copy of one that is not empty.           *)
LEMMA BorrowStep ==
  ASSUME ArrayInv, NEW dst \in live, MayChange(dst), dst \in IntArrays,
         NEW src \in live, src \in IntArrays, dst # src, arrays[src].size > 0,
         NEW h2, Swap(arrays[dst], heap, Empty, h2),
         Becomes(dst, [da |-> [arrays[src] EXCEPT !.capacity = -1], heap |-> h2]),
         UNCHANGED <<live, returned>>, Promise!Copy(dst, src)
  PROVE  ArrayInv'
<1> DEFINE r == [arrays[src] EXCEPT !.capacity = -1]
<1>1. PICK o \in live \cap IntArrays, b \in Blocks :
        /\ o = src \/ IsCopy(arrays[src])
        /\ arrays[src].data = Buffer(b) /\ arrays[o].data = Buffer(b)
        /\ Owner(arrays[o]) /\ arrays[src].size <= arrays[o].size
        /\ arrays[src].size <= Len(heap[b]) /\ heap[b] \in Cells
        /\ arrays[src].capacity # 1
  BY Lender
<1>2. /\ arrays[src].size \in Nat /\ arrays[src] \in Types
      /\ contents[src] \in Seq(Items)
      /\ contents[src] = Elements(arrays[src], heap)
      /\ arrays[dst].capacity \in Int
  BY Standing, StandTypes DEF Stands
<1>3. /\ r \in Types /\ r.size = arrays[src].size /\ r.data = Buffer(b)
      /\ r.capacity = -1
  <2>1. -1 \in -1..(2 * MaxSize)
    BY ArrayAssumption
  <2> QED
    BY ONLY <1>1, <1>2, <2>1 DEF Types
<1>4. o # dst
  <2> SUFFICES ASSUME o = dst PROVE FALSE
    OBVIOUS
  <2>1. IsCopy(arrays[src]) /\ arrays[src].data = arrays[dst].data
          /\ Owner(arrays[dst])
    BY <1>1
  <2>2. ~IsCopy(arrays[dst])
    BY <1>2, <2>1 DEF Owner, IsCopy
  <2> QED
    BY <2>1, <2>2 DEF MayChange, Shared
<1>5. h2[b] = heap[b]
  <2>1. ~(Owner(arrays[dst]) /\ arrays[dst].data = Buffer(b))
    <3>1. \A c \in live, d \in live : Owner(arrays[c]) /\ Owner(arrays[d])
            /\ arrays[c].data = arrays[d].data => c = d
      BY DEF ArrayInv, Sound
    <3> QED
      BY <1>1, <1>4, <3>1
  <2>2. ~Owner(Empty)
    BY DEF Empty, Owner
  <2> QED
    BY <2>1, <2>2 DEF Swap
<1>6. /\ arrays' = [arrays EXCEPT ![dst] = r] /\ heap' = h2
      /\ live' = live \cup {dst}
      /\ contents' = [contents EXCEPT ![dst] = contents[src]]
      /\ returned' = promised' /\ returned' \in Items \cup {NULL}
  BY DEF Becomes, Promise!Copy, Promise!Becomes, ArrayInv, TypeOK
<1> HIDE DEF r
<1>7. Changes(arrays, live, heap, dst, r, h2, contents[src])
  <2>1. ~Owner(r) /\ ~Owner(Empty)
    BY <1>3 DEF Owner, Empty
  <2>2. Fits(dst, r, h2)
    BY <1>1, <1>2, <1>3, <2>1 DEF Fits, Shape
  <2>3. Swap(arrays[dst], heap, r, h2)
    BY <2>1 DEF Swap
  <2>4. KeepsCopies(arrays, live, heap, dst, r, h2)
    BY AloneFacts DEF Alone
  <2>5. Lent(r, arrays[o])
    BY <1>1, <1>3 DEF Lent
  <2>6. Elements(r, h2) = contents[src]
    <3>1. Elements(r, h2) = [i \in 1..arrays[src].size |-> heap[b][i]]
      <4>1. /\ r.capacity # 1 /\ r.data = Buffer(b) /\ h2[b] \in Cells
            /\ r.size \in Nat /\ r.size <= Len(h2[b])
        BY <1>1, <1>2, <1>3, <1>5
      <4>2. Elements(r, h2) = [i \in 1..r.size |-> h2[b][i]]
        BY ONLY <4>1, BufferElements
      <4> QED
        BY <1>3, <1>5, <4>2
    <3>2. Elements(arrays[src], heap) = [i \in 1..arrays[src].size |-> heap[b][i]]
      <4>1. /\ arrays[src].capacity # 1 /\ arrays[src].data = Buffer(b)
            /\ heap[b] \in Cells
            /\ arrays[src].size \in Nat /\ arrays[src].size <= Len(heap[b])
        BY <1>1, <1>2
      <4> QED
        BY ONLY <4>1, BufferElements
    <3> QED
      BY <1>2, <3>1, <3>2
  <2>7. \E l \in (live \cap IntArrays) \ {dst} : Lent(r, arrays[l])
    BY <1>1, <1>4, <2>5
  <2> QED
    BY <1>2, <2>2, <2>3, <2>4, <2>6, <2>7, Standing DEF Changes
<1> QED
  BY <1>6, <1>7, OneStep

(* The copy of an array, or of a copy, has the elements of the source.     *)
LEMMA IntCopyStep ==
  ASSUME Careful, ArrayInv, NEW dst \in IntArrays, NEW src \in IntArrays,
         int_copy(dst, src)
  PROVE  ArrayInv'
<1>1. /\ dst \in live /\ MayChange(dst) /\ src \in live /\ dst # src
      /\ Stands(dst, arrays[dst], heap, contents[dst])
      /\ ~IsSingle(arrays[dst])
  BY Standing, IntShape DEF int_copy, MayChange
<1>2. PICK r, h2 : /\ uninit(Here(dst)) = [da |-> r, heap |-> h2]
                   /\ Left(arrays[dst], heap, r, h2)
  BY <1>1, UninitFacts DEF Here
<1>3. /\ arrays[src].size \in Nat /\ arrays[dst].capacity \in Int
      /\ Len(contents[src]) = arrays[src].size /\ contents[src] \in Seq(Items)
  <2>1. Stands(src, arrays[src], heap, contents[src])
    BY <1>1, Standing
  <2>2. contents[src] \in Seq(Items)
    BY <2>1 DEF Stands
  <2>3. Len(contents[src]) = arrays[src].size
    <3> DEFINE A == arrays[src]
               C == contents[src]
    <3> HIDE DEF A, C
    <3>1. Stands(src, A, heap, C)
      BY ONLY <2>1 DEF A, C
    <3>2. Len(C) = A.size
      BY ONLY <3>1, StandElements
    <3> QED
      BY ONLY <3>2 DEF A, C
  <2> QED
    BY <1>1, <2>1, <2>2, <2>3, StandTypes
<1>4. CASE arrays[src].size = 0
  <2>1. r = Empty /\ h2 = heap
    BY <1>1, <1>2, <1>3, <1>4 DEF int_copy, Careful, Left
  <2>2. contents[src] = <<>>
    BY <1>3, <1>4
  <2>3. Empty \in Types /\ Empty.size = 0 /\ ~Owner(Empty) /\ ~IsCopy(Empty)
    BY ArrayAssumption DEF Empty, Types, Owner, IsCopy
  <2>4. Fits(dst, Empty, heap) /\ Elements(Empty, heap) = <<>>
          /\ <<>> \in Seq(Items)
    BY <2>3, NoElements DEF Fits, Shape
  <2>5. /\ arrays' = [arrays EXCEPT ![dst] = Empty] /\ heap' = heap
        /\ live' = live
        /\ contents' = [contents EXCEPT ![dst] = <<>>]
        /\ returned' = promised' /\ returned' \in Items \cup {NULL}
    BY <1>2, <1>4, <2>1, <2>2
       DEF int_copy, Becomes, Promise!Copy, Promise!Becomes, ArrayInv, TypeOK
  <2> QED
    BY <1>1, <1>2, <2>1, <2>3, <2>4, <2>5, Replaced DEF Alone, Left
<1>5. CASE arrays[src].size # 0
  <2>1. Becomes(dst, [da |-> [arrays[src] EXCEPT !.capacity = -1], heap |-> h2])
    BY <1>2, <1>5 DEF int_copy
  <2> QED
    BY <1>1, <1>2, <1>3, <1>5, <2>1, BorrowStep DEF int_copy, Left
<1> QED
  BY <1>4, <1>5

(* The contents of an array are its elements.                              *)
LEMMA ContentsAre ==
  ASSUME ArrayInv, NEW a \in live
  PROVE  /\ contents[a] \in Seq(Items) /\ Len(contents[a]) = arrays[a].size
         /\ contents[a] = Elements(arrays[a], heap)
<1>1. Stands(a, arrays[a], heap, contents[a])
  BY Standing
<1>2. contents[a] \in Seq(Items) /\ contents[a] = Elements(arrays[a], heap)
  BY ONLY <1>1 DEF Stands
<1>3. Len(contents[a]) = arrays[a].size
  <2> DEFINE A == arrays[a]
             C == contents[a]
  <2> HIDE DEF A, C
  <2>1. Stands(a, A, heap, C)
    BY ONLY <1>1 DEF A, C
  <2>2. Len(C) = A.size
    BY ONLY <2>1, StandElements
  <2> QED
    BY ONLY <2>2 DEF A, C
<1> QED
  BY <1>2, <1>3

(* Arrays of pointers are never copies.                                    *)
LEMMA PtrShape ==
  ASSUME ArrayInv, NEW a \in live, a \in PtrArrays
  PROVE  /\ Alone(a) /\ ~IsCopy(arrays[a])
         /\ Owner(arrays[a]) => ~IsSingle(arrays[a])
         /\ \/ arrays[a] = Empty \/ Owner(arrays[a])
            \/ /\ IsSingle(arrays[a]) /\ arrays[a].size = 1
               /\ \E x \in Items : arrays[a].data = Held(x)
         /\ IsSingle(arrays[a]) => arrays[a].size = 1 /\ ~Owner(arrays[a])
<1>1. Fits(a, arrays[a], heap) /\ a \notin IntArrays
  BY ArrayAssumption DEF ArrayInv, Sound
<1>2. arrays[a].capacity \in Int
  BY Standing, StandTypes
<1> QED
  BY <1>1, <1>2 DEF Fits, Shape, IsSingle, Owner, IsCopy, Empty, Alone

(* An array of pointers that has no buffer becomes what needs none.        *)
LEMMA NoBufferStep ==
  ASSUME ArrayInv, NEW a \in live, a \in PtrArrays, ~Owner(arrays[a]),
         NEW r, Fits(a, r, heap), ~Owner(r), ~IsCopy(r),
         NEW e \in Seq(Items), e = Elements(r, heap),
         arrays' = [arrays EXCEPT ![a] = r], UNCHANGED <<heap, live>>,
         contents' = [contents EXCEPT ![a] = e],
         returned' = promised', returned' \in Items \cup {NULL}
  PROVE  ArrayInv'
<1>1. Swap(arrays[a], heap, r, heap)
  BY DEF Swap, ArrayInv, TypeOK, Cells
<1> QED
  BY <1>1, Replaced DEF Alone

(* The empty array.                                                        *)
LEMMA EmptyFits ==
  ASSUME NEW a, NEW hp
  PROVE  /\ Empty \in Types /\ Empty.size = 0 /\ ~Owner(Empty)
         /\ ~IsCopy(Empty)
         /\ Fits(a, Empty, hp) /\ Elements(Empty, hp) = <<>>
         /\ <<>> \in Seq(Items)
<1>1. Empty \in Types /\ Empty.size = 0 /\ ~Owner(Empty) /\ ~IsCopy(Empty)
  BY ArrayAssumption DEF Empty, Types, Owner, IsCopy
<1> QED
  BY <1>1, NoElements DEF Fits, Shape

(* The array of a single item.                                             *)
LEMMA SingleFits ==
  ASSUME NEW a \in PtrArrays, NEW hp, Singleton, NEW x \in Items, MaxSize > 0,
         NEW r, r = [size |-> 1, capacity |-> 1, data |-> Held(x)]
  PROVE  /\ ~Owner(r) /\ ~IsCopy(r) /\ Fits(a, r, hp)
         /\ Elements(r, hp) = <<x>> /\ <<x>> \in Seq(Items)
<1>1. r \in Types /\ r.size = 1 /\ r.capacity = 1 /\ r.data = Held(x)
  <2>1. 1 \in 0..MaxSize /\ 1 \in -1..(2 * MaxSize)
    BY ArrayAssumption
  <2> QED
    BY <2>1 DEF Types
<1>2. ~Owner(r) /\ ~IsCopy(r)
  BY <1>1 DEF Owner, IsCopy
<1>3. Elements(r, hp) = <<x>>
  BY <1>1, SingleElements
<1> QED
  BY <1>1, <1>2, <1>3 DEF Fits, Shape

(* A single item goes, or a buffer is freed.                               *)
LEMMA PtrUninitStep ==
  ASSUME ArrayInv, NEW a \in PtrArrays, ptr_uninit(a)
  PROVE  ArrayInv'
<1>1. a \in live /\ Alone(a) /\ Stands(a, arrays[a], heap, contents[a])
  BY Standing, PtrShape DEF ptr_uninit
<1>2. CASE IsSingle(arrays[a])
  <2>1. Swap(arrays[a], heap, Empty, heap)
    BY <1>1, <1>2, EmptyFits, PtrShape DEF Swap, ArrayInv, TypeOK, Cells
  <2>2. /\ arrays' = [arrays EXCEPT ![a] = Empty] /\ heap' = heap
        /\ live' = live \ {a}
        /\ contents' = [contents EXCEPT ![a] = <<>>]
        /\ UNCHANGED <<returned, promised>>
    BY <1>2 DEF ptr_uninit, Becomes, Here, Promise!Clear, Promise!Becomes
  <2>3. Empty \in Types /\ Empty.size <= Empty.capacity
    BY EmptyFits DEF Empty
  <2> QED
    BY <1>1, <2>1, <2>2, <2>3, Gone
<1>3. CASE ~IsSingle(arrays[a])
  <2>1. PICK r, h2 : /\ uninit(Here(a)) = [da |-> r, heap |-> h2]
                     /\ Left(arrays[a], heap, r, h2)
    BY <1>1, <1>3, UninitFacts DEF Here
  <2>2. /\ arrays' = [arrays EXCEPT ![a] = r] /\ heap' = h2
        /\ live' = live \ {a}
        /\ contents' = [contents EXCEPT ![a] = <<>>]
        /\ UNCHANGED <<returned, promised>>
    BY <1>3, <2>1 DEF ptr_uninit, Becomes, Promise!Clear, Promise!Becomes
  <2> QED
    BY <1>1, <2>1, <2>2, Gone DEF Left
<1> QED
  BY <1>2, <1>3

(* A single item goes, a buffer stays.                                     *)
LEMMA PtrEmptyStep ==
  ASSUME ArrayInv, NEW a \in PtrArrays, ptr_empty(a)
  PROVE  ArrayInv'
<1>1. /\ a \in live /\ Alone(a) /\ Stands(a, arrays[a], heap, contents[a])
      /\ live' = live /\ contents' = [contents EXCEPT ![a] = <<>>]
      /\ returned' = promised' /\ returned' \in Items \cup {NULL}
  BY Standing, PtrShape
     DEF ptr_empty, Promise!Clear, Promise!Becomes, ArrayInv, TypeOK
<1>2. CASE IsSingle(arrays[a])
  <2>1. arrays' = [arrays EXCEPT ![a] = Empty] /\ heap' = heap
    BY <1>2 DEF ptr_empty, Becomes, Here
  <2> QED
    BY <1>1, <1>2, <2>1, EmptyFits, PtrShape, NoBufferStep
<1>3. CASE ~IsSingle(arrays[a])
  <2>1. PICK r : /\ empty(Here(a)) = [da |-> r, heap |-> heap]
                 /\ Fits(a, r, heap) /\ Swap(arrays[a], heap, r, heap)
                 /\ r.size = 0 /\ ~IsCopy(r)
    BY <1>1, <1>3, EmptyFacts DEF Here
  <2>2. arrays' = [arrays EXCEPT ![a] = r] /\ heap' = heap
    BY <1>3, <2>1 DEF ptr_empty, Becomes
  <2>3. Elements(r, heap) = <<>> /\ <<>> \in Seq(Items)
    BY <2>1, NoElements
  <2> QED
    BY <1>1, <2>1, <2>2, <2>3, Replaced
<1> QED
  BY <1>2, <1>3

(* An array of pointers returns the element it has been given.             *)
LEMMA PtrGetStep ==
  ASSUME ArrayInv, NEW a \in PtrArrays, NEW i, ptr_get(a, i)
  PROVE  ArrayInv'
BY GetStep DEF ptr_get

(* The item is written in place of a buffer, or into the buffer.           *)
LEMMA PtrSetStep ==
  ASSUME ArrayInv, NEW a \in PtrArrays, NEW i, NEW x \in Items, ptr_set(a, i, x)
  PROVE  ArrayInv'
<1>1. /\ a \in live /\ Alone(a) /\ i \in 1..arrays[a].size
  BY PtrShape DEF ptr_set
<1>2. CASE Owner(arrays[a])
  <2>1. PtrWritten(Here(a), i, x) = Written(Here(a), i, x)
    BY <1>1, <1>2, PtrShape DEF PtrWritten, Here
  <2> QED
    BY <1>1, <1>2, <2>1, OwnerSet DEF ptr_set
<1>3. CASE ~Owner(arrays[a])
  <2> DEFINE r == [size |-> 1, capacity |-> 1, data |-> Held(x)]
  <2>1. arrays[a] # Empty
    BY <1>1 DEF Empty
  <2>2. IsSingle(arrays[a]) /\ arrays[a].size = 1 /\ i = 1
    BY <1>1, <1>3, <2>1, PtrShape
  <2>3. PtrWritten(Here(a), i, x)
          = [da |-> [arrays[a] EXCEPT !.data = Held(x)], heap |-> heap]
    BY <2>2 DEF PtrWritten, Here
  <2>4. [arrays[a] EXCEPT !.data = Held(x)] = r
    <3>1. arrays[a] \in Types
      BY <1>1, Standing, StandTypes
    <3> QED
      BY <2>2, <3>1 DEF Types, IsSingle
  <2>5. arrays' = [arrays EXCEPT ![a] = r] /\ heap' = heap
    <3>1. PtrWritten(Here(a), i, x) = [da |-> r, heap |-> heap]
      BY ONLY <2>3, <2>4
    <3>2. Becomes(a, [da |-> r, heap |-> heap])
      BY <3>1 DEF ptr_set
    <3> QED
      BY ONLY <3>2 DEF Becomes
  <2>6. MaxSize > 0
    BY <1>1, <2>2, Standing, StandTypes
  <2>7. /\ ~Owner(r) /\ ~IsCopy(r) /\ Fits(a, r, heap)
        /\ Elements(r, heap) = <<x>> /\ <<x>> \in Seq(Items)
    BY <2>2, <2>6, SingleFits DEF IsSingle
  <2>8. [contents[a] EXCEPT ![i] = x] = <<x>>
    <3>1. Len(contents[a]) = 1 /\ contents[a] \in Seq(Items)
      BY <1>1, <2>2, ContentsAre
    <3>2. [contents[a] EXCEPT ![1] = x]
            = [j \in 1..1 |-> IF j = 1 THEN x ELSE contents[a][j]]
      BY <3>1, SetIs
    <3> QED
      BY <2>2, <3>2
  <2>9. /\ live' = live /\ contents' = [contents EXCEPT ![a] = <<x>>]
        /\ returned' = promised' /\ returned' \in Items \cup {NULL}
    BY <2>8 DEF ptr_set, Promise!Set, Promise!Becomes, ArrayInv, TypeOK
  <2> HIDE DEF r
  <2> QED
    BY <1>1, <1>3, <2>5, <2>7, <2>9, NoBufferStep
<1> QED
  BY <1>2, <1>3

(* What a pop leaves of a sequence, and what it returns.                   *)
LEMMA PopIs ==
  ASSUME NEW e \in Seq(Items), Len(e) > 0
  PROVE  /\ Promise!Front(e) \in Seq(Items)
         /\ Promise!Front(e) = [j \in 1..(Len(e) - 1) |-> e[j]]
         /\ Promise!Last(e) = e[Len(e)] /\ e[Len(e)] \in Items
<1>1. Len(e) \in Nat /\ Len(e) \in 1..Len(e)
  BY LenProperties
<1>2. e[Len(e)] \in Items /\ \A j \in 1..(Len(e) - 1) : e[j] \in Items
  BY <1>1, ElementOfSeq
<1>3. Promise!Front(e) = [j \in 1..(Len(e) - 1) |-> e[j]]
  BY <1>1 DEF Promise!Front
<1>4. [j \in 1..(Len(e) - 1) |-> e[j]] \in Seq(Items)
  BY <1>1, <1>2
<1>5. Promise!Last(e) = e[Len(e)]
  BY DEF Promise!Last
<1> QED
  BY <1>2, <1>3, <1>4, <1>5

(* The last item is returned and gone.                                     *)
LEMMA PtrPopStep ==
  ASSUME ArrayInv, NEW a \in PtrArrays, ptr_pop(a)
  PROVE  ArrayInv'
<1> DEFINE e2 == Promise!Front(contents[a])
<1>1. /\ a \in live /\ Alone(a) /\ Stands(a, arrays[a], heap, contents[a])
      /\ arrays[a].size \in Nat /\ arrays[a].size > 0
      /\ arrays[a].size <= MaxSize
      /\ contents[a] \in Seq(Items) /\ Len(contents[a]) = arrays[a].size
      /\ arrays[a] \in Types /\ arrays[a].capacity \in Int
  BY Standing, StandTypes, PtrShape, ContentsAre DEF ptr_pop
<1>2. /\ e2 \in Seq(Items)
      /\ e2 = [j \in 1..(arrays[a].size - 1) |-> contents[a][j]]
      /\ Promise!Last(contents[a]) = contents[a][arrays[a].size]
      /\ contents[a][arrays[a].size] \in Items
  BY <1>1, PopIs
<1>3. PtrElement(Here(a), arrays[a].size) = contents[a][arrays[a].size]
  BY <1>1, StandElements DEF Here
<1>4. /\ live' = live /\ contents' = [contents EXCEPT ![a] = e2]
      /\ returned' = promised' /\ returned' \in Items \cup {NULL}
  BY <1>2, <1>3 DEF ptr_pop, Promise!Pop, Promise!Becomes
<1> HIDE DEF e2
<1>5. CASE IsSingle(arrays[a])
  <2>1. arrays' = [arrays EXCEPT ![a] = Empty] /\ heap' = heap
    BY <1>5 DEF ptr_pop, Becomes, Here
  <2>2. e2 = <<>>
    <3>1. arrays[a].size = 1
      BY <1>1, <1>5, PtrShape
    <3> QED
      BY <1>2, <3>1
  <2> QED
    BY <1>1, <1>2, <1>4, <1>5, <2>1, <2>2, EmptyFits, PtrShape, NoBufferStep
<1>6. CASE ~IsSingle(arrays[a])
  <2> DEFINE r == [arrays[a] EXCEPT !.size = @ - 1]
  <2>1. Owner(arrays[a])
    BY <1>1, <1>6, PtrShape DEF Empty
  <2>2. PICK b \in Blocks : /\ arrays[a].data = Buffer(b)
                            /\ arrays[a].size <= arrays[a].capacity
                            /\ Len(heap[b]) = arrays[a].capacity
                            /\ heap[b] \in Cells
                            /\ \A j \in 1..arrays[a].size : heap[b][j] = contents[a][j]
    BY <1>1, <2>1, StandOwner
  <2>3. /\ r \in Types /\ r.size = arrays[a].size - 1
        /\ r.data = arrays[a].data
        /\ r.capacity = arrays[a].capacity
    <3>1. arrays[a].size - 1 \in 0..MaxSize
      BY <1>1, ArrayAssumption
    <3> QED
      BY <1>1, <3>1 DEF Types
  <2>4. arrays' = [arrays EXCEPT ![a] = r] /\ heap' = heap
    <3>1. [Here(a) EXCEPT !.da.size = @ - 1] = [da |-> r, heap |-> heap]
      BY DEF Here
    <3>2. Becomes(a, [da |-> r, heap |-> heap])
      BY <1>6, <3>1 DEF ptr_pop
    <3> QED
      BY ONLY <3>2 DEF Becomes
  <2> HIDE DEF r
  <2>5. Owner(r) /\ ~IsCopy(r)
    BY <1>1, <2>1, <2>3 DEF Owner, IsCopy
  <2>6. Fits(a, r, heap) /\ Elements(r, heap) = [j \in 1..r.size |-> heap[b][j]]
    <3>1. r.size <= r.capacity /\ r.data = Buffer(b) /\ Len(heap[b]) = r.capacity
      BY <1>1, <2>2, <2>3
    <3> QED
      BY ONLY <2>2, <2>3, <2>5, <3>1, OwnerFits
  <2>7. Elements(r, heap) = e2
    <3>1. \A j \in 1..(arrays[a].size - 1) : heap[b][j] = contents[a][j]
      BY <1>1, <2>2
    <3> QED
      BY <1>2, <2>3, <2>6, <3>1
  <2>8. Swap(arrays[a], heap, r, heap)
    BY <2>1, <2>3, <2>5 DEF Swap, ArrayInv, TypeOK, Cells
  <2> QED
    BY <1>1, <1>2, <1>4, <2>4, <2>5, <2>6, <2>7, <2>8, Replaced
<1> QED
  BY <1>5, <1>6

(* One change of the buffers after another.                                *)
LEMMA SwapTwice ==
  ASSUME NEW da, NEW hp, NEW r, NEW h2, NEW r3, NEW h3,
         Swap(da, hp, r, h2), Swap(r, h2, r3, h3)
  PROVE  Swap(da, hp, r3, h3)
<1>1. h3 \in [Blocks -> Cells]
  BY DEF Swap
<1>2. ASSUME NEW b \in Blocks
      PROVE  \/ /\ ~(Owner(da) /\ da.data = Buffer(b))
                /\ ~(Owner(r3) /\ r3.data = Buffer(b))
                /\ h3[b] = hp[b]
             \/ /\ Owner(r3) /\ r3.data = Buffer(b)
                /\ (Owner(da) /\ da.data = Buffer(b)) \/ hp[b] = <<>>
             \/ /\ Owner(da) /\ da.data = Buffer(b)
                /\ ~(Owner(r3) /\ r3.data = Buffer(b))
                /\ h3[b] = <<>>
  BY DEF Swap
<1> QED
  BY <1>1, <1>2 DEF Swap

(* The second item moves the first one to a buffer.                        *)
LEMMA SecondFacts ==
  ASSUME NEW a, NEW da, NEW hp, ~Owner(da), hp \in [Blocks -> Cells], MaxSize > 1,
         \E b \in Blocks : hp[b] = <<>>, NEW y \in Items, NEW x \in Items,
         da.size = 1, da.capacity = 1
  PROVE  \E r, h2 : /\ add(add([da |-> Empty, heap |-> hp], y), x)
                         = [da |-> r, heap |-> h2]
                    /\ Added(a, da, hp, <<y>>, x, r, h2)
<1>1. Stands(a, Empty, hp, <<>>)
  BY EmptyFits DEF Stands
<1>2. PICK r1, h1 : /\ add([da |-> Empty, heap |-> hp], y)
                         = [da |-> r1, heap |-> h1]
                    /\ Added(a, Empty, hp, <<>>, y, r1, h1)
  <2>1. Empty.size < MaxSize /\ Empty.capacity <= 0
    BY ArrayAssumption DEF Empty
  <2> QED
    BY <1>1, <2>1, AddFacts
<1>3. /\ Fits(a, r1, h1) /\ Swap(Empty, hp, r1, h1) /\ Owner(r1) /\ r1.size = 1
      /\ Elements(r1, h1) = <<y>> /\ h1 \in [Blocks -> Cells]
      /\ r1.capacity \in Int
  <2>1. /\ Fits(a, r1, h1) /\ Swap(Empty, hp, r1, h1) /\ Owner(r1)
        /\ r1.size = Empty.size + 1 /\ Elements(r1, h1) = Append(<<>>, y)
    BY <1>2 DEF Added
  <2>2. Append(<<>>, y) = <<y>>
    OBVIOUS
  <2> QED
    BY <2>1, <2>2, ArrayAssumption DEF Swap, Fits, Types, Empty
<1>4. Stands(a, r1, h1, <<y>>)
  BY <1>3 DEF Stands, IsCopy, Owner
<1>5. PICK r, h2 : /\ add([da |-> r1, heap |-> h1], x) = [da |-> r, heap |-> h2]
                   /\ Added(a, r1, h1, <<y>>, x, r, h2)
  <2>1. r1.size < r1.capacity /\ r1.size < MaxSize
    BY <1>3, ArrayAssumption DEF Owner
  <2> QED
    BY <1>3, <1>4, <2>1, AddFacts
<1>6. Swap(da, hp, Empty, hp)
  BY EmptyFits DEF Swap
<1>7. Swap(da, hp, r, h2)
  <2>1. Swap(r1, h1, r, h2)
    BY <1>5 DEF Added
  <2> QED
    BY <1>3, <1>6, <2>1, SwapTwice
<1>8. Added(a, da, hp, <<y>>, x, r, h2)
  BY <1>3, <1>5, <1>7 DEF Added
<1> QED
  BY <1>2, <1>5, <1>8

(* The first item needs no buffer, the second one moves it to one.         *)
LEMMA PtrAddStep ==
  ASSUME ArrayInv, NEW a \in PtrArrays, NEW x \in Items, ptr_add(a, x)
  PROVE  ArrayInv'
<1>1. /\ a \in live /\ Alone(a) /\ Stands(a, arrays[a], heap, contents[a])
      /\ arrays[a].size < MaxSize /\ \E b \in Blocks : heap[b] = <<>>
      /\ arrays[a].size \in Nat /\ heap \in [Blocks -> Cells]
      /\ contents[a] \in Seq(Items) /\ Len(contents[a]) = arrays[a].size
      /\ UNCHANGED <<live, returned>> /\ Promise!Add(a, x)
  BY Standing, StandTypes, PtrShape, ContentsAre DEF ptr_add, Room
<1>2. CASE Singleton /\ arrays[a].capacity = 0
  <2> DEFINE r == [size |-> 1, capacity |-> 1, data |-> Held(x)]
  <2>1. ptr_added(Here(a), x) = [da |-> r, heap |-> heap]
    BY <1>2 DEF ptr_added, Here
  <2>2. arrays' = [arrays EXCEPT ![a] = r] /\ heap' = heap
    <3>1. Becomes(a, [da |-> r, heap |-> heap])
      BY <2>1 DEF ptr_add
    <3> QED
      BY ONLY <3>1 DEF Becomes
  <2>3. ~Owner(arrays[a]) /\ arrays[a] = Empty
    BY <1>1, <1>2, PtrShape DEF Owner, IsSingle
  <2>4. Append(contents[a], x) = <<x>>
    <3>1. contents[a] = <<>>
      BY <1>1, <2>3 DEF Empty
    <3> QED
      BY <3>1
  <2>5. /\ contents' = [contents EXCEPT ![a] = <<x>>]
        /\ returned' = promised' /\ returned' \in Items \cup {NULL}
    BY <1>1, <2>4 DEF Promise!Add, Promise!Becomes, ArrayInv, TypeOK
  <2>6. /\ ~Owner(r) /\ ~IsCopy(r) /\ Fits(a, r, heap)
        /\ Elements(r, heap) = <<x>> /\ <<x>> \in Seq(Items)
    <3>1. MaxSize > 0
      BY <1>1, ArrayAssumption
    <3> QED
      BY <1>2, <3>1, SingleFits
  <2> HIDE DEF r
  <2> QED
    BY <1>1, <2>2, <2>3, <2>5, <2>6, NoBufferStep
<1>3. CASE ~(Singleton /\ arrays[a].capacity = 0) /\ IsSingle(arrays[a])
  <2>1. arrays[a].size = 1 /\ arrays[a].capacity = 1 /\ ~Owner(arrays[a])
    BY <1>1, <1>3, PtrShape DEF IsSingle
  <2> DEFINE y == contents[a][1]
  <2>2. PtrElement(Here(a), 1) = y /\ y \in Items
    BY <1>1, <2>1, StandElements DEF Here
  <2>3. contents[a] = <<y>>
    BY <1>1, <2>1
  <2> HIDE DEF y
  <2>4. ptr_added(Here(a), x) = add(add([da |-> Empty, heap |-> heap], y), x)
    BY <1>3, <2>2 DEF ptr_added, Here
  <2>5. PICK r, h2 : /\ add(add([da |-> Empty, heap |-> heap], y), x)
                          = [da |-> r, heap |-> h2]
                     /\ Added(a, arrays[a], heap, <<y>>, x, r, h2)
    <3>1. MaxSize > 1
      BY <1>1, <2>1, ArrayAssumption
    <3> QED
      BY <1>1, <2>1, <2>2, <3>1, SecondFacts
  <2>6. Becomes(a, [da |-> r, heap |-> h2])
    BY <2>4, <2>5 DEF ptr_add
  <2> QED
    BY <1>1, <2>3, <2>5, <2>6, AddedStep
<1>4. CASE ~(Singleton /\ arrays[a].capacity = 0) /\ ~IsSingle(arrays[a])
  <2>1. Owner(arrays[a]) \/ arrays[a].capacity <= 0
    BY <1>1, <1>4, PtrShape DEF Empty
  <2>2. PICK r, h2 : /\ add(Here(a), x) = [da |-> r, heap |-> h2]
                     /\ Added(a, arrays[a], heap, contents[a], x, r, h2)
    BY <1>1, <2>1, AddFacts DEF Here
  <2>3. ptr_added(Here(a), x) = add(Here(a), x)
    BY <1>4 DEF ptr_added, Here
  <2>4. Becomes(a, [da |-> r, heap |-> h2])
    BY <2>2, <2>3 DEF ptr_add
  <2> QED
    BY <1>1, <2>2, <2>4, AddedStep
<1> QED
  BY <1>2, <1>3, <1>4

(* Room for elements keeps those there are.                                *)
LEMMA PtrEnsureCapacityStep ==
  ASSUME Careful, ArrayInv, NEW a \in PtrArrays, NEW n \in 1..MaxSize,
         ptr_ensure_capacity(a, n)
  PROVE  ArrayInv'
<1>1. /\ a \in live /\ Alone(a) /\ Stands(a, arrays[a], heap, contents[a])
      /\ \E b \in Blocks : heap[b] = <<>>
      /\ UNCHANGED <<live, returned>> /\ Promise!Keep
      /\ arrays[a].size \in Nat /\ arrays[a].capacity \in Int /\ n \in Nat
  BY Standing, StandTypes, PtrShape DEF ptr_ensure_capacity, Room
<1>2. ptr_ensured(Here(a), n) = ensure_capacity(Here(a), n)
  BY DEF ptr_ensure_capacity, Careful, ptr_ensured, Here
<1>3. CASE n <= arrays[a].capacity
  <2>1. ensure_capacity(Here(a), n) = [da |-> arrays[a], heap |-> heap]
    BY <1>3 DEF ensure_capacity, Here
  <2>2. arrays' = arrays /\ heap' = heap
    BY <1>2, <2>1 DEF ptr_ensure_capacity, Becomes, ArrayInv, TypeOK
  <2> QED
    BY <1>1, <2>2, Unchanged DEF Promise!Keep, ArrayInv, TypeOK
<1>4. CASE arrays[a].capacity < n
  <2>1. arrays[a].size <= n
    <3>1. arrays[a].size <= arrays[a].capacity
      BY <1>1, PtrShape DEF ArrayInv, TypeOK
    <3> QED
      BY <1>1, <1>4, <3>1
  <2>2. PICK r, h2, b :
          /\ ensure_capacity(Here(a), n) = [da |-> r, heap |-> h2]
          /\ Roomy(arrays[a], heap, n, contents[a], r, h2, b)
    BY <1>1, <1>4, <2>1, EnsureFacts DEF Here
  <2>3. Becomes(a, [da |-> r, heap |-> h2])
    BY <1>2, <2>2 DEF ptr_ensure_capacity
  <2> QED
    BY <1>1, <2>1, <2>2, <2>3, EnsuredStep
<1> QED
  BY <1>1, <1>3, <1>4

(* Room for one item, filled with z.                                       *)
LEMMA SingleRecord ==
  ASSUME NEW d \in Types, d.capacity = 1, NEW z
  PROVE  [[d EXCEPT !.size = 1] EXCEPT !.data = z]
           = [size |-> 1, capacity |-> 1, data |-> z]
<1> DEFINE q == [d EXCEPT !.size = 1]
<1>1. q \in [size : {1}, capacity : {1}, data : {d.data}]
  BY DEF Types
<1> HIDE DEF q
<1>2. q = [size |-> 1, capacity |-> 1, data |-> q.data]
  BY <1>1
<1>3. [q EXCEPT !.data = z] = [size |-> 1, capacity |-> 1, data |-> z]
  BY <1>2
<1> QED
  BY <1>3 DEF q

(* The buffer b with the items xs in front, and the size set to n.         *)
Overwritten(h2, b, xs) ==
  [h2 EXCEPT ![b] =
     [i \in DOMAIN h2[b] |-> IF i \in DOMAIN xs THEN xs[i] ELSE h2[b][i]]]

Resized(r, n) == [r EXCEPT !.size = n]

(* A buffer with room for them is filled with the items xs.                *)
LEMMA FilledFacts ==
  ASSUME NEW a, NEW da, NEW hp, NEW e, NEW xs \in Seq(Items),
         Len(xs) \in 1..MaxSize,
         NEW r, NEW h2, NEW b, Roomy(da, hp, Len(xs), e, r, h2, b)
  PROVE  /\ Fits(a, Resized(r, Len(xs)), Overwritten(h2, b, xs))
         /\ Elements(Resized(r, Len(xs)), Overwritten(h2, b, xs)) = xs
         /\ ~IsCopy(Resized(r, Len(xs)))
         /\ Swap(da, hp, Resized(r, Len(xs)), Overwritten(h2, b, xs))
<1> DEFINE ys == [i \in DOMAIN h2[b] |->
                    IF i \in DOMAIN xs THEN xs[i] ELSE h2[b][i]]
           r3 == Resized(r, Len(xs))
           h3 == Overwritten(h2, b, xs)
<1>1. /\ r \in Types /\ Owner(r) /\ r.capacity >= Len(xs) /\ b \in Blocks
      /\ r.data = Buffer(b) /\ Len(h2[b]) = r.capacity /\ Swap(da, hp, r, h2)
      /\ h2[b] \in Cells /\ r.capacity \in Int
  BY ArrayAssumption DEF Roomy, Swap, Types
<1>2. DOMAIN h2[b] = 1..Len(h2[b]) /\ DOMAIN xs = 1..Len(xs)
  BY <1>1 DEF Cells
<1>3. \A i \in 1..Len(xs) : xs[i] \in Items
  BY ElementOfSeq
<1>4. \A i \in 1..Len(h2[b]) : h2[b][i] \in Items \cup {NULL}
  BY <1>1 DEF Cells
<1>5. ys \in [1..r.capacity -> Items \cup {NULL}]
  BY <1>1, <1>2, <1>3, <1>4
<1>6. ys \in Cells /\ Len(ys) = r.capacity
  <2>1. r.capacity \in Nat
    BY <1>1 DEF Owner
  <2> QED
    BY ONLY <1>5, <2>1 DEF Cells
<1>7. r3 \in Types /\ r3.size = Len(xs) /\ r3.capacity = r.capacity
        /\ r3.data = r.data
  <2>1. Len(xs) \in 0..MaxSize
    BY ArrayAssumption
  <2> QED
    BY <1>1, <2>1 DEF Types, Resized
<1> HIDE DEF ys, r3
<1>8. Swap(da, hp, r3, h3) /\ h3[b] = ys
  <2>1. /\ Swap(da, hp, r3, [h2 EXCEPT ![b] = ys])
        /\ [h2 EXCEPT ![b] = ys][b] = ys
    BY ONLY <1>1, <1>6, <1>7, SwapAgain
  <2>2. h3 = [h2 EXCEPT ![b] = ys]
    BY DEF Overwritten, ys
  <2> HIDE DEF h3
  <2> QED
    BY <2>1, <2>2
<1> HIDE DEF h3
<1>9. Owner(r3) /\ ~IsCopy(r3)
  BY <1>1, <1>7 DEF Owner, IsCopy
<1>10. Fits(a, r3, h3) /\ Elements(r3, h3) = [j \in 1..r3.size |-> h3[b][j]]
  <2>1. /\ r3.data = Buffer(b) /\ r3.size <= r3.capacity /\ h3[b] \in Cells
        /\ Len(h3[b]) = r3.capacity
    BY <1>1, <1>6, <1>7, <1>8
  <2> QED
    BY ONLY <1>1, <1>7, <1>9, <2>1, OwnerFits
<1>11. \A j \in 1..Len(xs) : h3[b][j] = xs[j]
  BY <1>1, <1>2, <1>8 DEF ys
<1>12. xs = [j \in 1..Len(xs) |-> xs[j]]
  BY <1>2, LenProperties
<1>13. Elements(r3, h3) = xs
  BY <1>7, <1>10, <1>11, <1>12
<1> QED
  BY <1>8, <1>9, <1>10, <1>13 DEF r3, h3

(* The elements of the source overwrite those there were.                  *)
LEMMA PtrSetAllStep ==
  ASSUME Careful, ArrayInv, NEW dst \in PtrArrays, NEW src \in PtrArrays,
         ptr_set_all(dst, src)
  PROVE  ArrayInv'
<1> DEFINE xs == contents[src]
           n == Len(xs)
<1>1. /\ dst \in live /\ Alone(dst)
      /\ Stands(dst, arrays[dst], heap, contents[dst])
      /\ arrays[dst].size \in Nat /\ arrays[dst].capacity \in Int
      /\ arrays[dst] \in Types /\ \E b \in Blocks : heap[b] = <<>>
      /\ ~IsCopy(arrays[dst]) /\ live' = live
  BY Standing, StandTypes, PtrShape DEF ptr_set_all, Room
<1>2. /\ xs \in Seq(Items) /\ n = arrays[src].size
      /\ PtrElements(Here(src)) = xs
      /\ n \in 0..MaxSize
  <2>1. src \in live
    BY DEF ptr_set_all
  <2>2. arrays[src].size \in 0..MaxSize
    BY <2>1, Standing, StandTypes
  <2> QED
    BY <2>1, <2>2, ContentsAre DEF Elements, Here
<1>3. Becomes(dst, ptr_filled(Here(dst), xs))
  BY <1>2 DEF ptr_set_all
<1>4. /\ contents' = [contents EXCEPT ![dst] = xs]
      /\ returned' = promised' /\ returned' \in Items \cup {NULL}
  BY DEF ptr_set_all, Promise!Copy, Promise!Becomes, ArrayInv, TypeOK
<1>5. CASE n = 0
  <2>1. xs = <<>> /\ ~IsSingle(arrays[dst])
    BY <1>2, <1>5 DEF ptr_set_all, Careful
  <2>2. PICK r : /\ empty(Here(dst)) = [da |-> r, heap |-> heap]
                 /\ Fits(dst, r, heap) /\ Swap(arrays[dst], heap, r, heap)
                 /\ r.size = 0 /\ ~IsCopy(r)
    BY <1>1, <2>1, EmptyFacts DEF Here
  <2>3. ptr_filled(Here(dst), xs) = empty(Here(dst))
    BY <1>1, <2>1 DEF ptr_filled, empty, Here
  <2>4. arrays' = [arrays EXCEPT ![dst] = r] /\ heap' = heap
    BY <1>3, <2>2, <2>3 DEF Becomes
  <2>5. Elements(r, heap) = xs
    BY <2>1, <2>2, NoElements
  <2> HIDE DEF xs
  <2> QED
    BY <1>1, <1>2, <1>4, <2>2, <2>4, <2>5, Replaced
<1>6. CASE n # 0
  <2> DEFINE s == ptr_ensured(Here(dst), n)
             room == [s EXCEPT !.da.size = n]
  <2>1. /\ n \in 1..MaxSize /\ n \in Nat /\ 1 \in 1..n /\ xs[1] \in Items
        /\ xs # <<>>
        /\ MaxSize > 0
    BY <1>2, <1>6, ElementOfSeq, ArrayAssumption
  <2>2. ptr_filled(Here(dst), xs) =
          IF IsSingle(room.da) THEN PtrWritten(room, 1, xs[1])
          ELSE [room EXCEPT !.heap[room.da.data[2]] =
                  [i \in DOMAIN @ |-> IF i \in DOMAIN xs THEN xs[i] ELSE @[i]]]
    BY <2>1 DEF ptr_filled
  <2>3. ASSUME NEW d, s = [da |-> d, heap |-> heap], d \in Types, Singleton,
               d.capacity = 1, n = 1, ~Owner(arrays[dst])
        PROVE  ArrayInv'
    <3> DEFINE r == [size |-> 1, capacity |-> 1, data |-> Held(xs[1])]
    <3>1. room = [da |-> [d EXCEPT !.size = 1], heap |-> heap]
      BY <2>3
    <3>2. ptr_filled(Here(dst), xs)
            = [da   |-> [[d EXCEPT !.size = 1] EXCEPT !.data = Held(xs[1])],
               heap |-> heap]
      <4>1. IsSingle([d EXCEPT !.size = 1])
        BY <2>3 DEF IsSingle, Types
      <4> HIDE DEF room, s
      <4>2. IsSingle(room.da)
        BY <3>1, <4>1
      <4>3. ptr_filled(Here(dst), xs) = PtrWritten(room, 1, xs[1])
        BY ONLY <2>2, <4>2
      <4>4. PtrWritten(room, 1, xs[1])
             = [da   |-> [[d EXCEPT !.size = 1] EXCEPT !.data = Held(xs[1])],
                heap |-> heap]
        BY <3>1, <4>2 DEF PtrWritten
      <4> QED
        BY ONLY <4>3, <4>4
    <3>3. [[d EXCEPT !.size = 1] EXCEPT !.data = Held(xs[1])] = r
      <4>1. d \in Types /\ d.capacity = 1
        BY ONLY <2>3
      <4> DEFINE z == Held(xs[1])
      <4> HIDE DEF z
      <4>2. [[d EXCEPT !.size = 1] EXCEPT !.data = z]
              = [size |-> 1, capacity |-> 1, data |-> z]
        BY ONLY <4>1, SingleRecord
      <4> QED
        BY ONLY <4>2 DEF z
    <3>4. arrays' = [arrays EXCEPT ![dst] = r] /\ heap' = heap
      <4>1. Becomes(dst, [da |-> r, heap |-> heap])
        BY <1>3, <3>2, <3>3
      <4> QED
        BY ONLY <4>1 DEF Becomes
    <3>5. /\ ~Owner(r) /\ ~IsCopy(r) /\ Fits(dst, r, heap)
          /\ Elements(r, heap) = <<xs[1]>> /\ <<xs[1]>> \in Seq(Items)
      BY <2>1, <2>3, SingleFits
    <3>6. xs = <<xs[1]>>
      BY <1>2, <2>3
    <3> HIDE DEF r, xs
    <3> QED
      BY <1>1, <1>2, <1>4, <2>3, <3>4, <3>5, <3>6, NoBufferStep
  <2>4. ASSUME NEW r, NEW h2, NEW b, s = [da |-> r, heap |-> h2],
               Roomy(arrays[dst], heap, n, contents[dst], r, h2, b)
        PROVE  ArrayInv'
    <3> DEFINE r3 == [r EXCEPT !.size = n]
               ys == [i \in DOMAIN h2[b] |->
                        IF i \in DOMAIN xs THEN xs[i] ELSE h2[b][i]]
               h3 == [h2 EXCEPT ![b] = ys]
    <3>1. room = [da |-> r3, heap |-> h2]
      BY <2>4
    <3>2. r3.data = Buffer(b) /\ ~IsSingle(r3)
      <4>1. r \in Types /\ r.data = Buffer(b) /\ Owner(r)
        BY <2>4 DEF Roomy
      <4> QED
        BY <4>1, ArrayAssumption DEF Types, IsSingle, Owner
    <3>3. ptr_filled(Here(dst), xs) = [da |-> r3, heap |-> h3]
      <4> HIDE DEF s, room, r3
      <4>1. ~IsSingle(room.da) /\ room.da.data[2] = b /\ room.heap = h2
        BY <3>1, <3>2, DataFacts
      <4>2. ptr_filled(Here(dst), xs) =
              [room EXCEPT !.heap[b] =
                  [i \in DOMAIN @ |-> IF i \in DOMAIN xs THEN xs[i] ELSE @[i]]]
        BY <2>2, <4>1
      <4> QED
        BY <3>1, <4>2
    <3>4. arrays' = [arrays EXCEPT ![dst] = r3] /\ heap' = h3
      <4>1. Becomes(dst, [da |-> r3, heap |-> h3])
        BY <1>3, <3>3
      <4> QED
        BY ONLY <4>1 DEF Becomes
    <3>5. /\ Fits(dst, r3, h3) /\ Elements(r3, h3) = xs /\ ~IsCopy(r3)
          /\ Swap(arrays[dst], heap, r3, h3)
      <4>1. /\ xs \in Seq(Items) /\ Len(xs) \in 1..MaxSize
            /\ Roomy(arrays[dst], heap, Len(xs), contents[dst], r, h2, b)
        BY <1>2, <2>1, <2>4
      <4>2. r3 = Resized(r, Len(xs)) /\ h3 = Overwritten(h2, b, xs)
        BY DEF Resized, Overwritten
      <4> HIDE DEF r3, h3, xs
      <4>3. /\ Fits(dst, Resized(r, Len(xs)), Overwritten(h2, b, xs))
            /\ Elements(Resized(r, Len(xs)), Overwritten(h2, b, xs)) = xs
            /\ ~IsCopy(Resized(r, Len(xs)))
            /\ Swap(arrays[dst], heap, Resized(r, Len(xs)), Overwritten(h2, b, xs))
        BY ONLY <4>1, FilledFacts
      <4> QED
        BY ONLY <4>2, <4>3
    <3> HIDE DEF r3, h3, xs
    <3> QED
      BY <1>1, <1>2, <1>4, <3>4, <3>5, Replaced
  <2>5. CASE Singleton /\ n = 1 /\ arrays[dst].capacity < 1
    <3> DEFINE d == [arrays[dst] EXCEPT !.capacity = 1]
    <3>1. s = [da |-> d, heap |-> heap]
      BY <2>5 DEF ptr_ensured, Here
    <3>2. d \in Types /\ d.capacity = 1
      <4>1. 1 \in -1..(2 * MaxSize)
        BY <2>1, ArrayAssumption
      <4> QED
        BY ONLY <1>1, <4>1 DEF Types
    <3>3. ~Owner(arrays[dst])
      BY <1>1, <2>5 DEF Owner
    <3> HIDE DEF s, d, n
    <3> QED
      BY <2>3, <2>5, <3>1, <3>2, <3>3
  <2>6. CASE ~(Singleton /\ n = 1 /\ arrays[dst].capacity < 1)
    <3>1. s = ensure_capacity(Here(dst), n)
      BY <2>6 DEF ptr_ensured, Here
    <3>2. CASE n <= arrays[dst].capacity /\ ~Owner(arrays[dst])
      <4>1. /\ IsSingle(arrays[dst]) /\ n = 1
        <5> HIDE DEF n, s
        <5> QED
          BY <1>1, <2>1, <3>2, PtrShape DEF Empty, IsSingle
      <4>2. s = [da |-> arrays[dst], heap |-> heap]
        BY <3>1, <3>2 DEF ensure_capacity, Here
      <4> HIDE DEF s, n
      <4> QED
        BY <1>1, <2>3, <3>2, <4>1, <4>2 DEF IsSingle
    <3>3. CASE ~(n <= arrays[dst].capacity) \/ Owner(arrays[dst])
      <4>1. \/ Owner(arrays[dst])
            \/ arrays[dst].size <= n /\ arrays[dst].capacity < n
        <5>1. arrays[dst].size <= arrays[dst].capacity
          BY <1>1 DEF ArrayInv, TypeOK
        <5> QED
          BY <1>1, <2>1, <3>3, <5>1
      <4> HIDE DEF n
      <4>2. PICK r, h2, b :
              /\ ensure_capacity(Here(dst), n) = [da |-> r, heap |-> h2]
              /\ Roomy(arrays[dst], heap, n, contents[dst], r, h2, b)
        BY <1>1, <2>1, <4>1, EnsureFacts DEF Here
      <4> HIDE DEF s
      <4> QED
        BY <2>4, <3>1, <4>2
    <3> QED
      BY <3>2, <3>3
  <2> QED
    BY <2>5, <2>6
<1> QED
  BY <1>5, <1>6

-----------------------------------------------------------------------------
(* The invariant, and what follows from it.                                *)

(* The invariant holds at first.                                           *)
LEMMA ArrayInit == Init => ArrayInv
<1> SUFFICES ASSUME Init PROVE ArrayInv
  OBVIOUS
<1>1. /\ arrays = [a \in Arrays |-> Empty] /\ live = {}
      /\ heap = [b \in Blocks |-> <<>>] /\ returned = NULL
      /\ contents = [a \in Arrays |-> <<>>] /\ promised = NULL
  BY DEF Init, Promise!Init
<1>2. Empty \in Types /\ Empty.size = 0 /\ Empty.capacity = 0
  BY EmptyFits DEF Empty
<1>3. TypeOK
  BY <1>1, <1>2 DEF TypeOK, Types
<1>4. Sound(arrays, live, heap, contents)
  BY <1>1 DEF Sound
<1> QED
  BY <1>1, <1>3, <1>4 DEF ArrayInv

(* Every call of a careful caller keeps the invariant.                     *)
LEMMA ArrayStep ==
  ASSUME Careful, ArrayInv, [Next]_vars
  PROVE  ArrayInv'
<1>1. CASE IntNext
  <2>1. PICK a \in IntArrays :
          \/ init(a) \/ int_uninit(a) \/ int_empty(a) \/ int_ensure_independent(a)
          \/ \E x \in Items :
               int_add(a, x) \/ \E i \in 1..MaxSize : int_set(a, i, x)
          \/ \E i \in 1..MaxSize : int_get(a, i)
          \/ \E b \in IntArrays : int_copy(a, b)
    BY <1>1 DEF IntNext
  <2>2. a \in Arrays
    BY DEF Arrays
  <2> QED
    BY <2>1, <2>2, InitStep, IntUninitStep, IntEmptyStep, IntEnsureIndependentStep,
       IntAddStep, IntSetStep, IntGetStep, IntCopyStep
<1>2. CASE PtrNext
  <2>1. PICK a \in PtrArrays :
          \/ init(a) \/ ptr_uninit(a) \/ ptr_empty(a) \/ ptr_pop(a)
          \/ \E x \in Items :
               ptr_add(a, x) \/ \E i \in 1..MaxSize : ptr_set(a, i, x)
          \/ \E i \in 1..MaxSize : ptr_get(a, i) \/ ptr_ensure_capacity(a, i)
          \/ \E b \in PtrArrays : ptr_set_all(a, b)
    BY <1>2 DEF PtrNext
  <2>2. a \in Arrays
    BY DEF Arrays
  <2> QED
    BY <2>1, <2>2, InitStep, PtrUninitStep, PtrEmptyStep, PtrPopStep, PtrAddStep,
       PtrSetStep, PtrGetStep, PtrEnsureCapacityStep, PtrSetAllStep
<1>3. CASE UNCHANGED vars
  <2>1. returned' = promised' /\ returned' \in Items \cup {NULL}
    BY <1>3 DEF vars, ArrayInv, TypeOK
  <2> QED
    BY <1>3, <2>1, Unchanged DEF vars
<1> QED
  BY <1>1, <1>2, <1>3 DEF Next

(* To own a buffer is to have more capacity than a single item needs.      *)
LEMMA OwnsIsOwner ==
  ASSUME ArrayInv, NEW a \in live
  PROVE  OwnsBuffer(a) <=> Owner(arrays[a])
<1>1. Fits(a, arrays[a], heap)
  BY DEF ArrayInv, Sound
<1>2. arrays[a].capacity \in Int
  BY Standing, StandTypes
<1>3. a \in IntArrays => a \notin PtrArrays
  BY ArrayAssumption
<1> QED
  BY <1>1, <1>2, <1>3 DEF OwnsBuffer, Owner, Fits, Shape, Empty

(* The invariant gives every buffer its one owner.                         *)
LEMMA InvOwned == ArrayInv => BuffersOwned
<1> SUFFICES ASSUME ArrayInv PROVE BuffersOwned
  OBVIOUS
<1>1. \A a \in live : OwnsBuffer(a) <=> Owner(arrays[a])
  BY OwnsIsOwner
<1>2. ASSUME NEW a \in live, Owner(arrays[a])
      PROVE  \E b \in Blocks : /\ arrays[a].data = Buffer(b)
                               /\ Len(heap[b]) = arrays[a].capacity
  BY <1>2, Standing, StandOwner
<1>3. CopiesPoint
  <2>1. \A c \in live : IsCopy(arrays[c]) =>
          \E o \in live \cap IntArrays : Lent(arrays[c], arrays[o])
    BY DEF ArrayInv, Sound
  <2> QED
    BY <1>1, <2>1 DEF CopiesPoint, Lent
<1>4. ASSUME NEW b \in Blocks, heap[b] # <<>>
      PROVE  \E a \in live :
               /\ OwnsBuffer(a) /\ arrays[a].data = Buffer(b)
               /\ \A c \in live \ {a} : OwnsBuffer(c) => arrays[c].data # Buffer(b)
  <2>1. PICK a \in live : Owner(arrays[a]) /\ arrays[a].data = Buffer(b)
    BY <1>4 DEF ArrayInv, Sound
  <2>2. \A c \in live : Owner(arrays[c]) /\ arrays[c].data = arrays[a].data => a = c
    BY <2>1 DEF ArrayInv, Sound
  <2> QED
    BY <1>1, <2>1, <2>2
<1> QED
  BY <1>1, <1>2, <1>3, <1>4 DEF BuffersOwned

(* The invariant makes the arrays what they promise.                       *)
LEMMA InvPromised == ArrayInv => AsPromised
<1> SUFFICES ASSUME ArrayInv PROVE AsPromised
  OBVIOUS
<1>1. ASSUME NEW a \in live PROVE Contents(a) = contents[a]
  <2>1. contents[a] = PtrElements(Here(a))
    BY ContentsAre DEF Elements, Here
  <2>2. CASE a \in PtrArrays
    BY <2>1, <2>2 DEF Contents
  <2>3. CASE a \notin PtrArrays
    <3>1. ~IsSingle(arrays[a])
      BY <2>3, IntShape DEF ArrayInv, Sound, Arrays
    <3>2. \A i : PtrElement(Here(a), i) = Element(Here(a), i)
      BY <3>1 DEF PtrElement, Here
    <3>3. PtrElements(Here(a)) = [i \in 1..arrays[a].size |-> Element(Here(a), i)]
      BY <3>2 DEF PtrElements, Here
    <3> QED
      BY <2>1, <2>3, <3>3 DEF Contents
  <2> QED
    BY <2>2, <2>3
<1>2. ASSUME NEW a \in Arrays \ live PROVE Contents(a) = contents[a]
  BY DEF Contents, ArrayInv
<1> QED
  BY <1>1, <1>2 DEF AsPromised, ArrayInv

(* The inductive invariant: every array is empty, owns a buffer, shares    *)
(* that of a longer array or is a single item, and has the elements that   *)
(* its calls promise.                                                      *)
THEOREM ArrayInvariant == Careful => (Spec => []ArrayInv)
<1> SUFFICES ASSUME Careful PROVE Spec => []ArrayInv
  OBVIOUS
<1>1. ArrayInv /\ [Next]_vars => ArrayInv'
  BY ArrayStep
<1> QED
  BY <1>1, ArrayInit, PTL DEF Spec

(* The size, capacity and data of sgen-dynarray.h's arrays stay in their   *)
(* ranges, and no array but a copy has more elements than capacity.        *)
THEOREM TypeCorrect == Careful => (Spec => []TypeOK)
<1> SUFFICES ASSUME Careful PROVE Spec => []TypeOK
  OBVIOUS
<1>1. ArrayInv => TypeOK
  BY DEF ArrayInv
<1>2. Spec => []ArrayInv
  BY ArrayInvariant
<1> QED
  BY <1>1, <1>2, PTL

(* No sequence of calls leaks a buffer, frees one twice or takes it from   *)
(* its owner or a copy.                                                    *)
THEOREM OwnedCorrect == Careful => (Spec => []BuffersOwned)
<1> SUFFICES ASSUME Careful PROVE Spec => []BuffersOwned
  OBVIOUS
<1>1. Spec => []ArrayInv
  BY ArrayInvariant
<1> QED
  BY <1>1, InvOwned, PTL

(* "Growable array implementation": through growth, shared buffers and     *)
(* single items the arrays are the sequences that their callers have made  *)
(* of them, and return their elements.                                     *)
THEOREM PromisesKept == Careful => (Spec => []AsPromised)
<1> SUFFICES ASSUME Careful PROVE Spec => []AsPromised
  OBVIOUS
<1>1. Spec => []ArrayInv
  BY ArrayInvariant
<1> QED
  BY <1>1, InvPromised, PTL

=============================================================================
