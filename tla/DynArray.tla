------------------------------ MODULE DynArray ------------------------------
(***************************************************************************)
(* sgen-dynarray.h, the growable arrays of the garbage collector's bridge: *)
(* int arrays that may share the buffer of another array, and pointer      *)
(* arrays that hold a single item in place of a buffer.                    *)
(*                                                                         *)
(* The caller keeps to what the arrays can do, except where it is Careless *)
(* of it: it initializes what it uses, leaves an array alone that others   *)
(* share, makes a copy independent before it sets its elements, copies no  *)
(* empty array and makes no room for a single pointer.                     *)
(***************************************************************************)
EXTENDS Integers, Sequences

CONSTANTS
  IntArrays, PtrArrays,
  Items,      \* what is held; NULL is none
  MaxSize,    \* bound on the elements of an array
  MaxBlocks,  \* bound on the buffers that are allocated at a time
  Singleton,  \* OPTIMIZATION_SINGLETON_DYN_ARRAY
  Careless    \* habits of the caller

ASSUME ArrayAssumption ==
  /\ IntArrays \cap PtrArrays = {}
  /\ MaxSize \in Nat /\ MaxBlocks \in Nat /\ Singleton \in BOOLEAN
  /\ Careless \subseteq {"copyEmpty", "setAllEmpty", "ensureOne"}

VARIABLES
  arrays,   \* the DynArray of every array
  live,     \* the arrays between init and uninit
  heap,     \* the elements of every buffer; <<>> is not allocated
  returned, \* what the last get or pop has returned
  contents, promised  \* what the calls promise, see GrowableArrays

vars == <<arrays, live, heap, returned, contents, promised>>

Arrays == IntArrays \cup PtrArrays
Blocks == 1..MaxBlocks
NULL   == "NULL"
ASSUME NullAssumption == NULL \notin Items

Promise == INSTANCE GrowableArrays

(* The values of data: NULL, a buffer or an item itself.                   *)
Null      == <<"null">>
Buffer(b) == <<"buffer", b>>
Held(x)   == <<"item", x>>

Empty == [size |-> 0, capacity |-> 0, data |-> Null]

Init ==
  /\ arrays = [a \in Arrays |-> Empty]
  /\ live = {}
  /\ heap = [b \in Blocks |-> <<>>]
  /\ returned = NULL
  /\ Promise!Init(NULL)

-----------------------------------------------------------------------------
(* An array and the heap, s, as the functions leave them.                  *)

Here(a) == [da |-> arrays[a], heap |-> heap]

Becomes(a, s) == arrays' = [arrays EXCEPT ![a] = s.da] /\ heap' = s.heap

IsCopy(da) == da.capacity < 0

IsSingle(da) == Singleton /\ da.capacity = 1

(* What is read where an element should be.                                *)
Element(s, i) ==
  IF s.da.data[1] = "buffer" /\ i \in DOMAIN s.heap[s.da.data[2]]
  THEN s.heap[s.da.data[2]][i] ELSE NULL

PtrElement(s, i) ==
  IF IsSingle(s.da) THEN IF s.da.data[1] = "item" THEN s.da.data[2] ELSE NULL
  ELSE Element(s, i)

(* A write that misses the buffers is not seen again.                      *)
Written(s, i, x) ==
  IF s.da.data[1] = "buffer" /\ i \in DOMAIN s.heap[s.da.data[2]]
  THEN [s EXCEPT !.heap[s.da.data[2]][i] = x] ELSE s

PtrWritten(s, i, x) ==
  IF IsSingle(s.da) THEN [s EXCEPT !.da.data = Held(x)] ELSE Written(s, i, x)

Freed(s) ==
  IF s.da.data[1] = "buffer" THEN [s.heap EXCEPT ![s.da.data[2]] = <<>>] ELSE s.heap

(* Bug: the doubled capacity may be too small.                             *)
GrownOnce(capacity, n) == IF capacity <= 0 THEN 2 ELSE 2 * capacity

(* dyn_array_ensure_capacity_internal: from 2 on, doubled until it is n.   *)
Grown(capacity, n) ==
  LET doubled[k \in 0..n] == IF k = 0 THEN IF capacity <= 0 THEN 2 ELSE capacity
                            ELSE IF doubled[k - 1] >= n THEN doubled[k - 1]
                            ELSE 2 * doubled[k - 1]
  IN  doubled[n]

(* A new buffer with the elements there are.                               *)
Moved(s, n, keep) ==
  LET capacity == Grown(s.da.capacity, n)
      new == CHOOSE b \in Blocks : s.heap[b] = <<>>
      cells == [i \in 1..capacity |-> IF i <= s.da.size THEN PtrElement(s, i) ELSE NULL]
  IN  [da   |-> [s.da EXCEPT !.capacity = capacity, !.data = Buffer(new)],
       heap |-> [(IF keep THEN s.heap ELSE Freed(s)) EXCEPT ![new] = cells]]

(* Bug: the buffer of the other array is freed.                            *)
ensure_capacity_frees(s, n) ==
  IF n <= s.da.capacity THEN s ELSE Moved(s, n, FALSE)

(* dyn_array_ensure_capacity                                               *)
ensure_capacity(s, n) ==
  IF n <= s.da.capacity THEN s ELSE Moved(s, n, s.da.capacity <= 0)

add(s, x) ==
  LET room == ensure_capacity(s, s.da.size + 1)
  IN  Written([room EXCEPT !.da.size = @ + 1], s.da.size + 1, x)

(* Bug: the buffer of another array is freed.                              *)
uninit_copy(s) ==
  IF s.da.capacity = 0 THEN s
  ELSE [da |-> [s.da EXCEPT !.data = Null], heap |-> Freed(s)]

(* A buffer is freed, but size and capacity stay.                          *)
uninit(s) ==
  IF IsCopy(s.da) THEN [s EXCEPT !.da = Empty]
  ELSE IF s.da.capacity = 0 THEN s
  ELSE [da |-> [s.da EXCEPT !.data = Null], heap |-> Freed(s)]

empty(s) == IF IsCopy(s.da) THEN [s EXCEPT !.da = Empty] ELSE [s EXCEPT !.da.size = 0]

-----------------------------------------------------------------------------

(* Copies of the buffer of a.                                              *)
Shared(a) ==
  /\ ~IsCopy(arrays[a])
  /\ \E b \in live : IsCopy(arrays[b]) /\ arrays[b].data = arrays[a].data

MayChange(a) == a \in live /\ ~Shared(a)

Room == \E b \in Blocks : heap[b] = <<>>

init(a) ==
  /\ a \notin live
  /\ live' = live \cup {a}
  /\ arrays' = [arrays EXCEPT ![a] = Empty]
  /\ UNCHANGED <<heap, returned>>
  /\ Promise!Keep

int_uninit(a) ==
  /\ MayChange(a)
  /\ live' = live \ {a}
  /\ Becomes(a, uninit(Here(a)))
  /\ UNCHANGED returned
  /\ Promise!Clear(a)

int_empty(a) ==
  /\ MayChange(a)
  /\ Becomes(a, empty(Here(a)))
  /\ UNCHANGED <<live, returned>>
  /\ Promise!Clear(a)

int_add(a, x) ==
  /\ a \in live /\ arrays[a].size < MaxSize /\ Room
  /\ arrays[a].size < arrays[a].capacity \/ MayChange(a)
  /\ Becomes(a, add(Here(a), x))
  /\ UNCHANGED <<live, returned>>
  /\ Promise!Add(a, x)

int_get(a, i) ==
  /\ a \in live /\ i \in 1..arrays[a].size
  /\ returned' = Element(Here(a), i)
  /\ UNCHANGED <<arrays, live, heap>>
  /\ Promise!Get(a, i)

int_set(a, i, x) ==
  /\ MayChange(a) /\ ~IsCopy(arrays[a]) /\ i \in 1..arrays[a].size
  /\ Becomes(a, Written(Here(a), i, x))
  /\ UNCHANGED <<live, returned>>
  /\ Promise!Set(a, i, x)

int_ensure_independent(a) ==
  /\ a \in live /\ Room
  /\ Becomes(a, IF IsCopy(arrays[a]) THEN ensure_capacity(Here(a), arrays[a].size)
                ELSE Here(a))
  /\ UNCHANGED <<live, returned>>
  /\ Promise!Keep

int_copy(dst, src) ==
  /\ MayChange(dst) /\ src \in live /\ dst # src
  /\ arrays[src].size = 0 /\ arrays[dst].capacity > 0 => "copyEmpty" \in Careless
  /\ LET s == uninit(Here(dst))
     IN  Becomes(dst, IF arrays[src].size = 0 THEN s
                      ELSE [s EXCEPT !.da = [arrays[src] EXCEPT !.capacity = -1]])
  /\ UNCHANGED <<live, returned>>
  /\ Promise!Copy(dst, src)

-----------------------------------------------------------------------------

ptr_uninit(a) ==
  /\ a \in live
  /\ live' = live \ {a}
  /\ Becomes(a, IF IsSingle(arrays[a]) THEN [Here(a) EXCEPT !.da = Empty]
                ELSE uninit(Here(a)))
  /\ UNCHANGED returned
  /\ Promise!Clear(a)

ptr_empty(a) ==
  /\ a \in live
  /\ Becomes(a, IF IsSingle(arrays[a]) THEN [Here(a) EXCEPT !.da = Empty]
                ELSE empty(Here(a)))
  /\ UNCHANGED <<live, returned>>
  /\ Promise!Clear(a)

ptr_get(a, i) ==
  /\ a \in live /\ i \in 1..arrays[a].size
  /\ returned' = PtrElement(Here(a), i)
  /\ UNCHANGED <<arrays, live, heap>>
  /\ Promise!Get(a, i)

ptr_set(a, i, x) ==
  /\ a \in live /\ i \in 1..arrays[a].size
  /\ Becomes(a, PtrWritten(Here(a), i, x))
  /\ UNCHANGED <<live, returned>>
  /\ Promise!Set(a, i, x)

(* The first item is held in place of a buffer, the second one moves it.   *)
ptr_added(s, x) ==
  IF Singleton /\ s.da.capacity = 0
  THEN [s EXCEPT !.da = [size |-> 1, capacity |-> 1, data |-> Held(x)]]
  ELSE IF IsSingle(s.da)
  THEN add(add([s EXCEPT !.da = Empty], PtrElement(s, 1)), x)
  ELSE add(s, x)

ptr_add(a, x) ==
  /\ a \in live /\ arrays[a].size < MaxSize /\ Room
  /\ Becomes(a, ptr_added(Here(a), x))
  /\ UNCHANGED <<live, returned>>
  /\ Promise!Add(a, x)

ptr_pop(a) ==
  /\ a \in live /\ arrays[a].size > 0
  /\ returned' = PtrElement(Here(a), arrays[a].size)
  /\ Becomes(a, IF IsSingle(arrays[a]) THEN [Here(a) EXCEPT !.da = Empty]
                ELSE [Here(a) EXCEPT !.da.size = @ - 1])
  /\ UNCHANGED live
  /\ Promise!Pop(a)

(* dyn_array_ptr_ensure_capacity: room for one is the place of the item.   *)
ptr_ensured(s, n) ==
  IF Singleton /\ n = 1 /\ s.da.capacity < 1 THEN [s EXCEPT !.da.capacity = 1]
  ELSE ensure_capacity(s, n)

ptr_ensure_capacity(a, n) ==
  /\ a \in live /\ Room
  /\ Singleton /\ n = 1 /\ arrays[a].capacity < 1 => "ensureOne" \in Careless
  /\ Becomes(a, ptr_ensured(Here(a), n))
  /\ UNCHANGED <<live, returned>>
  /\ Promise!Keep

ptr_filled(s, xs) ==
  IF xs = <<>> THEN [s EXCEPT !.da.size = 0]
  ELSE LET room == [ptr_ensured(s, Len(xs)) EXCEPT !.da.size = Len(xs)]
       IN  IF IsSingle(room.da) THEN PtrWritten(room, 1, xs[1])
           ELSE [room EXCEPT !.heap[room.da.data[2]] =
                   [i \in DOMAIN @ |-> IF i \in DOMAIN xs THEN xs[i] ELSE @[i]]]

PtrElements(s) == [i \in 1..s.da.size |-> PtrElement(s, i)]

ptr_set_all(dst, src) ==
  /\ dst \in live /\ src \in live /\ dst # src /\ Room
  /\ arrays[src].size = 0 /\ IsSingle(arrays[dst]) => "setAllEmpty" \in Careless
  /\ Becomes(dst, ptr_filled(Here(dst), PtrElements(Here(src))))
  /\ UNCHANGED <<live, returned>>
  /\ Promise!Copy(dst, src)

IntNext ==
  \E a \in IntArrays :
    \/ init(a) \/ int_uninit(a) \/ int_empty(a) \/ int_ensure_independent(a)
    \/ \E x \in Items : int_add(a, x) \/ \E i \in 1..MaxSize : int_set(a, i, x)
    \/ \E i \in 1..MaxSize : int_get(a, i)
    \/ \E b \in IntArrays : int_copy(a, b)

PtrNext ==
  \E a \in PtrArrays :
    \/ init(a) \/ ptr_uninit(a) \/ ptr_empty(a) \/ ptr_pop(a)
    \/ \E x \in Items : ptr_add(a, x) \/ \E i \in 1..MaxSize : ptr_set(a, i, x)
    \/ \E i \in 1..MaxSize : ptr_get(a, i) \/ ptr_ensure_capacity(a, i)
    \/ \E b \in PtrArrays : ptr_set_all(a, b)

Next == IntNext \/ PtrNext

Spec == Init /\ [][Next]_vars

-----------------------------------------------------------------------------

TypeOK ==
  /\ arrays \in [Arrays -> [size : 0..MaxSize, capacity : -1..(2 * MaxSize),
                            data : {Null} \cup {Buffer(b) : b \in Blocks}
                                   \cup {Held(x) : x \in Items}]]
  /\ \A a \in Arrays : IsCopy(arrays[a]) \/ arrays[a].size <= arrays[a].capacity
  /\ live \subseteq Arrays
  /\ heap \in [Blocks -> Seq(Items \cup {NULL})]
  /\ returned \in Items \cup {NULL}

OwnsBuffer(a) == arrays[a].capacity > (IF Singleton /\ a \in PtrArrays THEN 1 ELSE 0)

(* "if negative, data points to another DynArray's data"                   *)
CopiesPoint ==
  \A a \in live : IsCopy(arrays[a]) =>
    \E b \in live : OwnsBuffer(b) /\ arrays[b].data = arrays[a].data

(* Every buffer has one owner, who knows its capacity, or has been freed:  *)
(* no sequence of calls leaks a buffer, frees one twice or leaves an owner *)
(* or "another DynArray's data" without its buffer.                        *)
BuffersOwned ==
  /\ \A a \in live : OwnsBuffer(a) =>
       \E b \in Blocks : /\ arrays[a].data = Buffer(b)
                         /\ Len(heap[b]) = arrays[a].capacity
  /\ CopiesPoint
  /\ \A b \in Blocks : heap[b] # <<>> =>
       \E a \in live : /\ OwnsBuffer(a) /\ arrays[a].data = Buffer(b)
                       /\ \A c \in live \ {a} : OwnsBuffer(c) => arrays[c].data # Buffer(b)

Contents(a) ==
  IF a \notin live THEN <<>>
  ELSE IF a \in PtrArrays THEN PtrElements(Here(a))
  ELSE [i \in 1..arrays[a].size |-> Element(Here(a), i)]

(* "Growable array implementation": through growth, shared buffers and     *)
(* items held without a buffer, the arrays are the sequences their callers *)
(* have made of them, and return their elements.                           *)
AsPromised ==
  /\ \A a \in Arrays : Contents(a) = contents[a]
  /\ returned = promised

=============================================================================
