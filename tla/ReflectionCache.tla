-------------------------- MODULE ReflectionCache --------------------------
(***************************************************************************)
(* reflection-cache.h: the objects libmono hands out for methods, fields,  *)
(* parameters, ..., kept in a hash table of the domain.  Threads look an   *)
(* object up without a lock, construct the missing one without a lock, and *)
(* enter it under the lock of the domain.  The table is made by the first  *)
(* thread that enters something.                                           *)
(*                                                                         *)
(* A call is named by its thread and its depth: the constructor a call     *)
(* runs may ask the cache itself, on the same stack, and may hold the      *)
(* loader lock while it does.                                              *)
(***************************************************************************)
EXTENDS Integers

CONSTANTS
  Threads, Items, Classes,
  MaxDepth,    \* bound on the nesting of calls
  MaxObjects   \* bound on the objects that are constructed

ASSUME CacheAssumption ==
  /\ MaxDepth \in Nat /\ MaxObjects \in Nat
  /\ Items # {} /\ Classes # {}
  /\ 0 \notin Threads

VARIABLES
  call,            \* the local state of every call
  created,         \* domain->refobject_hash is not NULL
  refobject_hash,  \* the object entered for each key, or Nothing
  domainLock,      \* the thread that holds domain->lock
  serial,          \* number of objects constructed
  answers          \* every object a caller has got, with its request

vars == <<call, created, refobject_hash, domainLock, serial, answers>>

Requests == [item : Items, refclass : Classes]
Calls    == Threads \X (1..MaxDepth)
Nobody   == 0

Objects == [for : Requests, ok : BOOLEAN, serial : 1..MaxObjects]
Nothing == [ok |-> FALSE]

(* Bug: the reflected type is not considered.                              *)
ReflectedEntryOfItem(item, klass) ==
  [item |-> item, refclass |-> CHOOSE k \in Classes : TRUE]

(* The key; mono_reflected_equal compares both.                            *)
ReflectedEntry(item, klass) == [item |-> item, refclass |-> klass]

Entry(c) == ReflectedEntry(call[c].request.item, call[c].request.refclass)

Outside == [pc |-> "outside", op |-> "check", request |-> CHOOSE r \in Requests : TRUE,
            obj |-> Nothing]

Init ==
  /\ call = [c \in Calls |-> Outside]
  /\ created = FALSE
  /\ refobject_hash = [r \in Requests |-> Nothing]
  /\ domainLock = Nobody
  /\ serial = 0
  /\ answers = {}

-----------------------------------------------------------------------------

At(c, pc) == call[c].pc = pc

Goto(c, pc) == call' = [call EXCEPT ![c].pc = pc]

GotoWith(c, pc, obj) == call' = [call EXCEPT ![c].pc = pc, ![c].obj = obj]

Return(c, obj) ==
  /\ call' = [call EXCEPT ![c] = Outside]
  /\ answers' = IF obj = Nothing THEN answers
                ELSE answers \cup {[request |-> call[c].request, object |-> obj]}

(* A constructor, which may be interrupted by the calls it makes.          *)
Constructing(c) == At(c, "construct") \/ At(c, "loading")

Caller(c) == <<c[1], c[2] - 1>>
Callee(c) == <<c[1], c[2] + 1>>

MayCall(c) == At(c, "outside") /\ (c[2] # 1 => Constructing(Caller(c)))
Runs(c)    == c[2] # MaxDepth => At(Callee(c), "outside")

Constructed(r, ok) == [for |-> r, ok |-> ok, serial |-> serial + 1]

(* check_object_handle, or check_or_construct_handle, which begins with it.*)
Check(c, op, r) ==
  /\ MayCall(c)
  /\ call' = [call EXCEPT ![c] = [pc |-> "check", op |-> op, request |-> r, obj |-> Nothing]]
  /\ UNCHANGED <<created, refobject_hash, domainLock, serial, answers>>

(* cache_object or cache_object_handle with an object the caller has made. *)
Cache(c, r) ==
  /\ MayCall(c) /\ serial < MaxObjects
  /\ call' = [call EXCEPT ![c] =
       [pc |-> "lock", op |-> "cache", request |-> r, obj |-> Constructed(r, TRUE)]]
  /\ serial' = serial + 1
  /\ UNCHANGED <<created, refobject_hash, domainLock, answers>>

Missing(c) ==
  IF call[c].op = "check" THEN Return(c, Nothing)
  ELSE Goto(c, "construct") /\ UNCHANGED answers

(* The hash table is read without the lock.                                *)
ReadHash(c) ==
  /\ At(c, "check")
  /\ IF created THEN Goto(c, "lookup") /\ UNCHANGED answers
     ELSE Missing(c)
  /\ UNCHANGED <<created, refobject_hash, domainLock, serial>>

(* So is its entry.                                                        *)
Lookup(c) ==
  /\ At(c, "lookup")
  /\ IF refobject_hash[Entry(c)] # Nothing THEN Return(c, refobject_hash[Entry(c)])
     ELSE Missing(c)
  /\ UNCHANGED <<created, refobject_hash, domainLock, serial>>

(* The constructor loads a class under the loader lock.                    *)
Load(c) ==
  /\ At(c, "construct") /\ Runs(c)
  /\ \A d \in Calls : At(d, "loading") => d[1] = c[1]
  /\ Goto(c, "loading")
  /\ UNCHANGED <<created, refobject_hash, domainLock, serial, answers>>

(* Bug: the error of the constructor is not looked at.                     *)
ConstructUnchecked(c) ==
  /\ Constructing(c) /\ Runs(c)
  /\ \/ /\ Return(c, Nothing)
        /\ UNCHANGED serial
     \/ /\ serial < MaxObjects
        /\ \E ok \in BOOLEAN : GotoWith(c, "lock", Constructed(call[c].request, ok))
        /\ serial' = serial + 1
        /\ UNCHANGED answers
  /\ UNCHANGED <<created, refobject_hash, domainLock>>

(* The constructor ends: with an error or NULL, which are returned, or     *)
(* with an object.                                                         *)
Construct(c) ==
  /\ Constructing(c) /\ Runs(c)
  /\ \/ /\ Return(c, Nothing)
        /\ UNCHANGED serial
     \/ /\ serial < MaxObjects
        /\ \E ok \in BOOLEAN :
             LET o == Constructed(call[c].request, ok)
             IN  IF ok THEN GotoWith(c, "lock", o) /\ UNCHANGED answers
                 ELSE Return(c, Nothing)
        /\ serial' = serial + 1
  /\ UNCHANGED <<created, refobject_hash, domainLock>>

(* Bug: the lock is only taken to enter an object.                         *)
LockLate(c) ==
  /\ At(c, "lock")
  /\ domainLock' = domainLock
  /\ Goto(c, IF created THEN "second" ELSE "create")
  /\ UNCHANGED <<created, refobject_hash, serial, answers>>

Lock(c) ==
  /\ At(c, "lock")
  /\ domainLock = Nobody
  /\ domainLock' = c[1]
  /\ Goto(c, IF created THEN "second" ELSE "create")
  /\ UNCHANGED <<created, refobject_hash, serial, answers>>

CreateHash(c) ==
  /\ At(c, "create")
  /\ refobject_hash' = [r \in Requests |-> Nothing]
  /\ created' = TRUE
  /\ Goto(c, "second")
  /\ UNCHANGED <<domainLock, serial, answers>>

(* Another thread may have been faster.                                    *)
SecondLookup(c) ==
  /\ At(c, "second")
  /\ IF refobject_hash[Entry(c)] # Nothing
     THEN GotoWith(c, "unlock", refobject_hash[Entry(c)])
     ELSE Goto(c, "insert")
  /\ UNCHANGED <<created, refobject_hash, domainLock, serial, answers>>

(* Bug: what was entered is returned at once, with the domain locked.      *)
InsertReturns(c) ==
  /\ At(c, "insert")
  /\ refobject_hash' = [refobject_hash EXCEPT ![Entry(c)] = call[c].obj]
  /\ Return(c, call[c].obj)
  /\ UNCHANGED <<created, domainLock, serial>>

Insert(c) ==
  /\ At(c, "insert")
  /\ refobject_hash' = [refobject_hash EXCEPT ![Entry(c)] = call[c].obj]
  /\ Goto(c, "unlock")
  /\ UNCHANGED <<created, domainLock, serial, answers>>

Unlock(c) ==
  /\ At(c, "unlock")
  /\ domainLock' = Nobody
  /\ Return(c, call[c].obj)
  /\ UNCHANGED <<created, refobject_hash, serial>>

Step(c) ==
  \/ ReadHash(c) \/ Lookup(c) \/ Construct(c)
  \/ Lock(c) \/ CreateHash(c) \/ SecondLookup(c) \/ Insert(c) \/ Unlock(c)

Next ==
  \E c \in Calls :
    \/ \E r \in Requests :
         (\E op \in {"check", "construct"} : Check(c, op, r)) \/ Cache(c, r)
    \/ Load(c)
    \/ Step(c)

Spec == Init /\ [][Next]_vars

(* Threads are scheduled; a constructor makes finitely many calls and ends.*)
FairSpec ==
  Spec /\ \A c \in Calls : WF_vars(Step(c)) /\ SF_vars(Construct(c))

-----------------------------------------------------------------------------

Pcs == {"outside", "check", "lookup", "construct", "loading", "lock", "create",
        "second", "insert", "unlock"}

TypeOK ==
  /\ call \in [Calls -> [pc : Pcs, op : {"check", "construct", "cache"},
                         request : Requests, obj : Objects \cup {Nothing}]]
  /\ created \in BOOLEAN
  /\ refobject_hash \in [Requests -> {o \in Objects : o.ok} \cup {Nothing}]
  /\ domainLock \in Threads \cup {Nobody}
  /\ serial \in 0..MaxObjects
  /\ answers \subseteq [request : Requests, object : Objects]

(* "We need to return always the same object ... but we need to consider   *)
(* the reflected type": however the calls of the threads interleave, all   *)
(* answers to one request are one object, made for that request.           *)
SameObject ==
  /\ \A a, b \in answers : a.request = b.request => a.object = b.object
  /\ \A a \in answers : a.object.for = a.request

Store == INSTANCE ReflectionStore WITH store <- refobject_hash

(* The cache is a store: an object is entered once, without an error, and  *)
(* stays, and every answer is the object that is entered.                  *)
StoreSpec == Store!Spec

(* Every call returns: no thread waits for ever for the domain, although   *)
(* constructors run with and without the loader lock and ask the cache     *)
(* themselves.                                                             *)
CallsReturn == \A c \in Calls : ~At(c, "outside") ~> At(c, "outside")

=============================================================================
