----------------------- MODULE ReflectionCacheProofs -----------------------
(***************************************************************************)
(* The cache implements ReflectionStore for any number of threads, items   *)
(* and reflected types, at any depth of nested calls.                      *)
(***************************************************************************)
EXTENDS ReflectionCache, TLAPS

Locked == {"create", "second", "insert", "unlock"}

(* Objects that may be entered for a request.                              *)
Proper(r) == {o \in Objects : o.ok /\ o.for = r}

CallInv(c) ==
  /\ call[c].pc \in Locked => domainLock = c[1]
  /\ call[c].pc \in Locked \cup {"lock"} => call[c].obj \in Proper(call[c].request)
  /\ call[c].pc = "create" => ~created
  /\ call[c].pc \in {"second", "insert", "unlock"} => created
  /\ call[c].pc = "insert" => refobject_hash[call[c].request] = Nothing
  /\ call[c].pc = "unlock" => refobject_hash[call[c].request] = call[c].obj

Exclusive ==
  \A c, d \in Calls : call[c].pc \in Locked /\ call[d].pc \in Locked => c = d

TableInv ==
  /\ ~created => refobject_hash = [r \in Requests |-> Nothing]
  /\ \A r \in Requests : refobject_hash[r] # Nothing => refobject_hash[r] \in Proper(r)
  /\ \A a \in answers : refobject_hash[a.request] = a.object /\ a.object # Nothing

CacheInv ==
  TypeOK /\ (\A c \in Calls : CallInv(c)) /\ Exclusive /\ TableInv

Frame == [pc : Pcs, op : {"check", "construct", "cache"}, request : Requests,
          obj : Objects \cup {Nothing}]

StoreStep == [Store!Next]_<<refobject_hash, answers>>

Stuttering == refobject_hash' = refobject_hash /\ answers' = answers

-----------------------------------------------------------------------------

LEMMA Something ==
  ASSUME NEW r, NEW o \in Proper(r)
  PROVE  o # Nothing /\ o \in Objects /\ o.ok /\ o.for = r
BY DEF Proper, Nothing

LEMMA EntryIs ==
  ASSUME TypeOK, NEW c \in Calls
  PROVE  Entry(c) = call[c].request /\ Entry(c) \in Requests
BY DEF TypeOK, Entry, ReflectedEntry, Requests

LEMMA OutsideType == Outside \in Frame /\ Outside.pc = "outside"
<1>1. PICK i \in Items, k \in Classes : TRUE
  BY CacheAssumption
<1>2. [item |-> i, refclass |-> k] \in Requests
  BY DEF Requests
<1>3. (CHOOSE r \in Requests : TRUE) \in Requests
  BY <1>2
<1> QED BY <1>3 DEF Outside, Frame, Pcs

LEMMA CacheInit == Init => CacheInv /\ Store!Init
<1> SUFFICES ASSUME Init PROVE CacheInv /\ Store!Init
  OBVIOUS
<1>1. Outside \in Frame /\ Outside.pc = "outside"
  BY OutsideType
<1>3. TypeOK
  <2>1. call \in [Calls -> Frame]
    BY <1>1 DEF Init
  <2>2. refobject_hash \in [Requests -> {o \in Objects : o.ok} \cup {Nothing}]
    BY DEF Init
  <2>3. created \in BOOLEAN
    BY DEF Init
  <2>4. domainLock \in Threads \cup {Nobody} /\ serial \in 0..MaxObjects
    BY CacheAssumption DEF Init
  <2>5. answers \subseteq [request : Requests, object : Objects]
    BY DEF Init
  <2> QED BY <2>1, <2>2, <2>3, <2>4, <2>5, Zenon DEF TypeOK, Frame
<1>4. \A c \in Calls : call[c].pc = "outside"
  BY <1>1 DEF Init
<1>5. (\A c \in Calls : CallInv(c)) /\ Exclusive
  BY <1>4 DEF CallInv, Exclusive, Locked
<1>6. TableInv
  BY DEF Init, TableInv
<1>7. Store!Init
  BY DEF Init, Store!Init, Store!Requests, Requests, Store!Nothing, Nothing
<1> QED BY <1>3, <1>5, <1>6, <1>7 DEF CacheInv

LEMMA Types ==
  ASSUME TypeOK
  PROVE  /\ call \in [Calls -> Frame]
         /\ refobject_hash \in [Requests -> {o \in Objects : o.ok} \cup {Nothing}]
         /\ domainLock \in Threads \cup {Nobody} /\ serial \in 0..MaxObjects
         /\ answers \subseteq [request : Requests, object : Objects]
BY DEF TypeOK, Frame

LEMMA TypesAgain ==
  ASSUME call' \in [Calls -> Frame], created' \in BOOLEAN,
         refobject_hash' \in [Requests -> {o \in Objects : o.ok} \cup {Nothing}],
         domainLock' \in Threads \cup {Nobody}, serial' \in 0..MaxObjects,
         answers' \subseteq [request : Requests, object : Objects]
  PROVE  TypeOK'
BY Zenon DEF TypeOK, Frame

(* A step of one call does not disturb the others, if it leaves the domain *)
(* alone or none of them has it locked.                                    *)
LEMMA OneCall ==
  ASSUME CacheInv, NEW c \in Calls, NEW f \in Frame,
         call' = [call EXCEPT ![c] = f],
         \/ /\ created' = created /\ refobject_hash' = refobject_hash
            /\ domainLock' = domainLock
         \/ \A d \in Calls : d # c => call[d].pc \notin Locked,
         f.pc \in Locked => \/ call[c].pc \in Locked
                            \/ \A d \in Calls : call[d].pc \notin Locked,
         CallInv(c)'
  PROVE  (\A d \in Calls : CallInv(d)') /\ Exclusive'
<1>1. TypeOK /\ (\A d \in Calls : CallInv(d)) /\ Exclusive
  BY DEF CacheInv
<1>2. call'[c] = f /\ \A d \in Calls : d # c => call'[d] = call[d]
  BY <1>1, Types
<1>3. ASSUME NEW d \in Calls, d # c PROVE CallInv(d)'
  <2>1. CASE /\ created' = created /\ refobject_hash' = refobject_hash
             /\ domainLock' = domainLock
    BY <1>1, <1>2, <1>3, <2>1 DEF CallInv
  <2>2. CASE call[d].pc \notin Locked
    BY <1>1, <1>2, <1>3, <2>2 DEF CallInv, Locked
  <2> QED BY <1>3, <2>1, <2>2
<1>4. Exclusive'
  BY <1>1, <1>2 DEF Exclusive
<1> QED BY <1>3, <1>4

(* Steps that leave the domain and the answers alone.                      *)
LEMMA Quiet ==
  ASSUME CacheInv, created' = created, Stuttering
  PROVE  TableInv' /\ StoreStep
BY DEF CacheInv, TableInv, Stuttering, StoreStep

(* A return, with nothing or with what has been entered.                   *)
LEMMA ReturnStep ==
  ASSUME CacheInv, NEW c \in Calls, NEW o, Return(c, o),
         o = Nothing \/ o = refobject_hash[call[c].request],
         created' = created, refobject_hash' = refobject_hash
  PROVE  /\ call' = [call EXCEPT ![c] = Outside] /\ call' \in [Calls -> Frame]
         /\ answers' \subseteq [request : Requests, object : Objects]
         /\ CallInv(c)' /\ TableInv' /\ StoreStep
<1>1. TypeOK /\ TableInv
  BY DEF CacheInv
<1>2. /\ call' = [call EXCEPT ![c] = Outside] /\ call' \in [Calls -> Frame]
      /\ call'[c].pc = "outside" /\ call[c].request \in Requests
  BY <1>1, Types, OutsideType DEF Return, Frame
<1>3. CallInv(c)'
  BY <1>2 DEF CallInv, Locked
<1>4. CASE o = Nothing
  BY <1>1, <1>2, <1>3, <1>4, Types, Quiet DEF Return, Stuttering
<1>5. CASE o # Nothing
  <2> DEFINE r == call[c].request
  <2>1. refobject_hash[r] = o /\ o \in Objects
    BY <1>1, <1>2, <1>5, Something DEF TableInv
  <2>2. answers' = answers \cup {[request |-> r, object |-> refobject_hash[r]]}
    BY <1>5, <2>1 DEF Return
  <2> HIDE DEF r
  <2>3. r \in Requests
    BY <1>2 DEF r
  <2>4. answers' \subseteq [request : Requests, object : Objects]
    BY <1>1, <2>1, <2>2, <2>3, Types
  <2>5. \A a \in answers' : refobject_hash[a.request] = a.object /\ a.object # Nothing
    BY <1>1, <1>5, <2>1, <2>2 DEF TableInv
  <2>6. TableInv'
    BY <1>1, <2>5 DEF TableInv
  <2>7. Store!Answer(r)
    BY <1>5, <2>1, <2>2 DEF Store!Answer, Store!Nothing, Nothing
  <2>8. StoreStep
    BY <2>3, <2>7 DEF StoreStep, Store!Next, Store!Requests, Requests
  <2> QED BY <1>2, <1>3, <2>4, <2>6, <2>8
<1> QED BY <1>4, <1>5

-----------------------------------------------------------------------------
(* The steps.  Each preserves the invariant and is a step of the store.    *)

LEMMA BeginStep ==
  ASSUME CacheInv, NEW c \in Calls, NEW r \in Requests,
         \/ \E op \in {"check", "construct"} : Check(c, op, r)
         \/ Cache(c, r)
  PROVE  CacheInv' /\ StoreStep
<1>1. TypeOK
  BY DEF CacheInv
<1>2. /\ created' = created /\ refobject_hash' = refobject_hash
      /\ domainLock' = domainLock /\ answers' = answers
  BY DEF Check, Cache
<1>3. \E f \in Frame : /\ call' = [call EXCEPT ![c] = f]
                       /\ f.pc = "check" \/ (f.pc = "lock" /\ f.obj \in Proper(f.request))
  <2>1. CASE \E op \in {"check", "construct"} : Check(c, op, r)
    <3>1. PICK op \in {"check", "construct"} : Check(c, op, r)
      BY <2>1
    <3>2. [pc |-> "check", op |-> op, request |-> r, obj |-> Nothing] \in Frame
      BY DEF Frame, Pcs
    <3> QED BY <3>1, <3>2 DEF Check
  <2>2. CASE Cache(c, r)
    <3> DEFINE o == Constructed(r, TRUE)
               f == [pc |-> "lock", op |-> "cache", request |-> r, obj |-> o]
    <3>1. serial + 1 \in 1..MaxObjects
      BY <1>1, <2>2, Types, CacheAssumption DEF Cache
    <3>2. o \in Proper(r)
      BY <3>1 DEF Constructed, Objects, Proper
    <3>3. call' = [call EXCEPT ![c] = f]
      BY <2>2 DEF Cache
    <3> HIDE DEF o
    <3>4. f \in Frame
      BY <3>2, Something DEF Frame, Pcs
    <3> QED BY <3>2, <3>3, <3>4
  <2> QED BY <2>1, <2>2
<1>4. PICK f \in Frame : /\ call' = [call EXCEPT ![c] = f]
                         /\ f.pc = "check" \/ (f.pc = "lock" /\ f.obj \in Proper(f.request))
  BY <1>3
<1>5. serial' \in 0..MaxObjects
  <2>1. serial' = serial \/ (serial < MaxObjects /\ serial' = serial + 1)
    BY DEF Check, Cache
  <2> QED BY <1>1, <2>1, Types, CacheAssumption
<1>6. TypeOK'
  <2>1. created' \in BOOLEAN
    BY <1>1, <1>2 DEF TypeOK
  <2> QED BY <1>1, <1>2, <1>4, <1>5, <2>1, Types, TypesAgain
<1>7. CallInv(c)'
  BY <1>1, <1>4, Types DEF CallInv, Locked
<1>8. (\A d \in Calls : CallInv(d)') /\ Exclusive'
  BY <1>2, <1>4, <1>7, OneCall DEF Locked
<1>9. TableInv' /\ StoreStep
  BY <1>2, Quiet DEF Stuttering
<1> QED BY <1>6, <1>8, <1>9 DEF CacheInv

(* Steps that only move the program counter, outside of the lock.          *)
LEMMA GotoStep ==
  ASSUME CacheInv, NEW c \in Calls, NEW pc \in {"lookup", "construct", "loading"},
         Goto(c, pc), Stuttering,
         created' = created, domainLock' = domainLock, serial' = serial
  PROVE  CacheInv' /\ StoreStep
<1> DEFINE f == [call[c] EXCEPT !.pc = pc]
<1>1. TypeOK
  BY DEF CacheInv
<1>2. call' = [call EXCEPT ![c] = f]
  BY DEF Goto
<1>3. f \in Frame /\ f.pc = pc
  BY <1>1, Types DEF Frame, Pcs
<1> HIDE DEF f
<1>4. TypeOK'
  <2>1. created' \in BOOLEAN
    BY <1>1 DEF TypeOK
  <2>2. call' \in [Calls -> Frame]
    BY <1>1, <1>2, <1>3, Types
  <2> QED BY <1>1, <2>1, <2>2, Types, TypesAgain DEF Stuttering
<1>5. CallInv(c)'
  BY <1>1, <1>2, <1>3, Types DEF CallInv, Locked
<1>6. (\A d \in Calls : CallInv(d)') /\ Exclusive'
  BY <1>2, <1>3, <1>5, OneCall DEF Locked, Stuttering
<1>7. TableInv' /\ StoreStep
  BY Quiet
<1> QED BY <1>4, <1>6, <1>7 DEF CacheInv

(* Returns without the lock.                                               *)
LEMMA LeaveStep ==
  ASSUME CacheInv, NEW c \in Calls, NEW o, Return(c, o),
         o = Nothing \/ o = refobject_hash[call[c].request],
         created' = created, refobject_hash' = refobject_hash,
         domainLock' = domainLock, serial' \in 0..MaxObjects
  PROVE  CacheInv' /\ StoreStep
<1>1. TypeOK
  BY DEF CacheInv
<1>2. /\ call' = [call EXCEPT ![c] = Outside] /\ call' \in [Calls -> Frame]
      /\ answers' \subseteq [request : Requests, object : Objects]
      /\ CallInv(c)' /\ TableInv' /\ StoreStep
  BY ReturnStep
<1>3. TypeOK'
  <2>1. created' \in BOOLEAN
    BY <1>1 DEF TypeOK
  <2> QED BY <1>1, <1>2, <2>1, Types, TypesAgain
<1>4. (\A d \in Calls : CallInv(d)') /\ Exclusive'
  BY <1>2, OneCall, OutsideType DEF Locked
<1> QED BY <1>2, <1>3, <1>4 DEF CacheInv

LEMMA ReadStep ==
  ASSUME CacheInv, NEW c \in Calls, ReadHash(c) \/ Lookup(c) \/ Load(c)
  PROVE  CacheInv' /\ StoreStep
<1>1. TypeOK
  BY DEF CacheInv
<1>2. /\ created' = created /\ refobject_hash' = refobject_hash
      /\ domainLock' = domainLock /\ serial' = serial
  BY DEF ReadHash, Lookup, Load
<1>3. serial' \in 0..MaxObjects
  BY <1>1, <1>2, Types
<1>4. CASE \E o \in {Nothing, refobject_hash[call[c].request]} : Return(c, o)
  BY <1>2, <1>3, <1>4, LeaveStep
<1>5. CASE \E pc \in {"lookup", "construct", "loading"} :
              Goto(c, pc) /\ answers' = answers
  BY <1>2, <1>5, GotoStep DEF Stuttering
<1> QED BY <1>1, <1>4, <1>5, EntryIs DEF ReadHash, Lookup, Load, Missing

LEMMA ConstructStep ==
  ASSUME CacheInv, NEW c \in Calls, Construct(c)
  PROVE  CacheInv' /\ StoreStep
<1>1. TypeOK
  BY DEF CacheInv
<1>2. /\ created' = created /\ refobject_hash' = refobject_hash
      /\ domainLock' = domainLock
  BY DEF Construct
<1>3. serial' \in 0..MaxObjects
  BY <1>1, Types, CacheAssumption DEF Construct
<1>4. CASE Return(c, Nothing)
  BY <1>2, <1>3, <1>4, LeaveStep
<1>5. ASSUME serial < MaxObjects,
             GotoWith(c, "lock", Constructed(call[c].request, TRUE)),
             answers' = answers
      PROVE  CacheInv' /\ StoreStep
  <2> DEFINE o == Constructed(call[c].request, TRUE)
             f == [call[c] EXCEPT !.pc = "lock", !.obj = o]
  <2>1. call[c].request \in Requests /\ call[c] \in Frame
    BY <1>1, Types DEF Frame
  <2>2. o \in Proper(call[c].request)
    <3>1. serial + 1 \in 1..MaxObjects
      BY <1>1, <1>5, Types, CacheAssumption
    <3> QED BY <2>1, <3>1 DEF Constructed, Objects, Proper
  <2>3. call' = [call EXCEPT ![c] = f]
    BY <1>1, <1>5, Types DEF GotoWith
  <2> HIDE DEF o
  <2>4. f \in Frame /\ f.pc = "lock" /\ f.obj = o /\ f.request = call[c].request
    BY <2>1, <2>2, Something DEF Frame, Pcs
  <2> HIDE DEF f
  <2>5. TypeOK'
    <3>1. created' \in BOOLEAN
      BY <1>1, <1>2 DEF TypeOK
    <3>2. call' \in [Calls -> Frame]
      BY <1>1, <2>3, <2>4, Types
    <3> QED BY <1>1, <1>2, <1>3, <1>5, <3>1, <3>2, Types, TypesAgain
  <2>6. CallInv(c)'
    BY <1>1, <2>2, <2>3, <2>4, Types DEF CallInv, Locked
  <2>7. (\A d \in Calls : CallInv(d)') /\ Exclusive'
    BY <1>2, <2>3, <2>4, <2>6, OneCall DEF Locked
  <2>8. TableInv' /\ StoreStep
    BY <1>2, <1>5, Quiet DEF Stuttering
  <2> QED BY <2>5, <2>7, <2>8 DEF CacheInv
<1> QED BY <1>4, <1>5 DEF Construct

LEMMA LockStep ==
  ASSUME CacheInv, NEW c \in Calls, Lock(c)
  PROVE  CacheInv' /\ StoreStep
<1> DEFINE f == [call[c] EXCEPT !.pc = IF created THEN "second" ELSE "create"]
<1>1. TypeOK /\ (\A d \in Calls : CallInv(d))
  BY DEF CacheInv
<1>2. /\ call' = [call EXCEPT ![c] = f] /\ Stuttering
      /\ created' = created /\ serial' = serial /\ domainLock' = c[1]
      /\ call[c].pc = "lock" /\ domainLock = Nobody
  BY <1>1, Types DEF Lock, Goto, At, Stuttering
<1>3. c[1] \in Threads /\ c[1] # Nobody
  BY CacheAssumption DEF Calls, Nobody
<1>4. /\ f \in Frame /\ f.obj = call[c].obj /\ f.request = call[c].request
      /\ f.pc = IF created THEN "second" ELSE "create"
  BY <1>1, Types DEF Frame, Pcs
<1>5. \A d \in Calls : call[d].pc \notin Locked
  <2>1. \A d \in Calls : d[1] # Nobody
    BY CacheAssumption DEF Calls, Nobody
  <2> QED BY <1>1, <1>2, <2>1 DEF CallInv
<1> HIDE DEF f
<1>6. TypeOK'
  <2>1. created' \in BOOLEAN
    BY <1>1, <1>2 DEF TypeOK
  <2>2. call' \in [Calls -> Frame]
    BY <1>1, <1>2, <1>4, Types
  <2> QED BY <1>1, <1>2, <1>3, <2>1, <2>2, Types, TypesAgain DEF Stuttering
<1>7. CallInv(c)'
  <2>1. call[c].obj \in Proper(call[c].request)
    BY <1>1, <1>2 DEF CallInv
  <2>2. call'[c] = f
    BY <1>1, <1>2, Types
  <2>3. CASE created
    BY <1>2, <1>4, <2>1, <2>2, <2>3 DEF CallInv, Locked
  <2>4. CASE ~created
    BY <1>2, <1>4, <2>1, <2>2, <2>4 DEF CallInv, Locked
  <2> QED BY <2>3, <2>4
<1>8. (\A d \in Calls : CallInv(d)') /\ Exclusive'
  BY <1>2, <1>4, <1>5, <1>7, OneCall
<1>9. TableInv' /\ StoreStep
  BY <1>2, Quiet
<1> QED BY <1>6, <1>8, <1>9 DEF CacheInv

(* The steps under the lock: no other call is there.                       *)
LEMMA Alone ==
  ASSUME CacheInv, NEW c \in Calls, call[c].pc \in Locked
  PROVE  /\ domainLock = c[1] /\ call[c].obj \in Proper(call[c].request)
         /\ \A d \in Calls : d # c => call[d].pc \notin Locked
BY DEF CacheInv, CallInv, Exclusive

LEMMA CreateStep ==
  ASSUME CacheInv, NEW c \in Calls, CreateHash(c)
  PROVE  CacheInv' /\ StoreStep
<1> DEFINE f == [call[c] EXCEPT !.pc = "second"]
<1>1. TypeOK /\ TableInv /\ CallInv(c)
  BY DEF CacheInv
<1>2. /\ call' = [call EXCEPT ![c] = f] /\ created' = TRUE
      /\ refobject_hash' = [r \in Requests |-> Nothing]
      /\ serial' = serial /\ domainLock' = domainLock /\ answers' = answers
      /\ call[c].pc = "create"
  BY DEF CreateHash, Goto, At
<1>3. Stuttering
  BY <1>1, <1>2 DEF CallInv, TableInv, Stuttering
<1>4. /\ f \in Frame /\ f.obj = call[c].obj /\ f.request = call[c].request
      /\ f.pc = "second"
  BY <1>1, Types DEF Frame, Pcs
<1>5. /\ domainLock = c[1] /\ call[c].obj \in Proper(call[c].request)
      /\ \A d \in Calls : d # c => call[d].pc \notin Locked
  BY <1>2, Alone DEF Locked
<1> HIDE DEF f
<1>6. TypeOK'
  <2>1. created' \in BOOLEAN
    BY <1>2
  <2>2. call' \in [Calls -> Frame]
    BY <1>1, <1>2, <1>4, Types
  <2> QED BY <1>1, <1>2, <1>3, <2>1, <2>2, Types, TypesAgain DEF Stuttering
<1>7. CallInv(c)'
  <2>1. call'[c] = f
    BY <1>1, <1>2, Types
  <2> QED BY <1>2, <1>4, <1>5, <2>1 DEF CallInv, Locked
<1>8. (\A d \in Calls : CallInv(d)') /\ Exclusive'
  BY <1>2, <1>4, <1>5, <1>7, OneCall DEF Locked
<1>9. TableInv'
  BY <1>1, <1>2, <1>3 DEF TableInv, Stuttering
<1>10. StoreStep
  BY <1>3 DEF StoreStep, Stuttering
<1> QED BY <1>6, <1>8, <1>9, <1>10 DEF CacheInv

LEMMA SecondStep ==
  ASSUME CacheInv, NEW c \in Calls, SecondLookup(c)
  PROVE  CacheInv' /\ StoreStep
<1> DEFINE o == refobject_hash[call[c].request]
           r == call[c].request
<1>1. TypeOK /\ TableInv /\ CallInv(c)
  BY DEF CacheInv
<1>2. /\ created' = created /\ Stuttering
      /\ serial' = serial /\ domainLock' = domainLock
      /\ call[c].pc = "second"
  BY DEF SecondLookup, At, Stuttering
<1>3. /\ domainLock = c[1] /\ call[c].obj \in Proper(r)
      /\ \A d \in Calls : d # c => call[d].pc \notin Locked
      /\ created
  BY <1>1, <1>2, Alone DEF Locked, CallInv
<1>4. r \in Requests /\ call[c] \in Frame
  BY <1>1, Types DEF Frame
<1>5. \E f \in Frame : /\ call' = [call EXCEPT ![c] = f] /\ f.request = r
                       /\ f.obj \in Proper(r)
                       /\ \/ f.pc = "unlock" /\ f.obj = o
                          \/ f.pc = "insert" /\ o = Nothing
  <2>1. CASE o # Nothing
    <3> DEFINE f == [call[c] EXCEPT !.pc = "unlock", !.obj = o]
    <3>1. call' = [call EXCEPT ![c] = f]
      BY <1>1, <2>1, EntryIs, Types DEF SecondLookup, GotoWith
    <3>2. o \in Proper(r)
      BY <1>1, <1>4, <2>1 DEF TableInv
    <3> HIDE DEF o
    <3>3. f \in Frame /\ f.request = r /\ f.obj = o /\ f.pc = "unlock"
      BY <1>4, <3>2, Something DEF Frame, Pcs
    <3> QED BY <3>1, <3>2, <3>3
  <2>2. CASE o = Nothing
    <3> DEFINE f == [call[c] EXCEPT !.pc = "insert"]
    <3>1. call' = [call EXCEPT ![c] = f]
      BY <1>1, <2>2, EntryIs, Types DEF SecondLookup, Goto
    <3>2. f \in Frame /\ f.request = r /\ f.obj = call[c].obj /\ f.pc = "insert"
      BY <1>4 DEF Frame, Pcs
    <3> QED BY <1>3, <2>2, <3>1, <3>2
  <2> QED BY <2>1, <2>2
<1>6. PICK f \in Frame : /\ call' = [call EXCEPT ![c] = f] /\ f.request = r
                         /\ f.obj \in Proper(r)
                         /\ \/ f.pc = "unlock" /\ f.obj = o
                            \/ f.pc = "insert" /\ o = Nothing
  BY <1>5
<1>7. TypeOK'
  <2>1. created' \in BOOLEAN
    BY <1>1, <1>2 DEF TypeOK
  <2>2. call' \in [Calls -> Frame]
    BY <1>1, <1>6, Types
  <2> QED BY <1>1, <1>2, <2>1, <2>2, Types, TypesAgain DEF Stuttering
<1>8. CallInv(c)'
  <2>1. call'[c] = f
    BY <1>1, <1>6, Types
  <2> QED BY <1>2, <1>3, <1>6, <2>1 DEF CallInv, Locked, Stuttering
<1>9. (\A d \in Calls : CallInv(d)') /\ Exclusive'
  BY <1>2, <1>3, <1>6, <1>8, OneCall DEF Locked
<1>10. TableInv' /\ StoreStep
  BY <1>2, Quiet
<1> QED BY <1>7, <1>9, <1>10 DEF CacheInv

LEMMA InsertStep ==
  ASSUME CacheInv, NEW c \in Calls, Insert(c)
  PROVE  CacheInv' /\ StoreStep
<1> DEFINE f == [call[c] EXCEPT !.pc = "unlock"]
           o == call[c].obj
           r == call[c].request
<1>1. TypeOK /\ TableInv /\ CallInv(c)
  BY DEF CacheInv
<1>2. /\ call' = [call EXCEPT ![c] = f] /\ created' = created
      /\ refobject_hash' = [refobject_hash EXCEPT ![r] = o]
      /\ serial' = serial /\ domainLock' = domainLock /\ answers' = answers
      /\ call[c].pc = "insert"
  BY <1>1, EntryIs DEF Insert, Goto, At
<1>3. /\ domainLock = c[1] /\ o \in Proper(r) /\ created
      /\ refobject_hash[r] = Nothing
      /\ \A d \in Calls : d # c => call[d].pc \notin Locked
  BY <1>1, <1>2, Alone DEF Locked, CallInv
<1>4. f \in Frame /\ f.obj = o /\ f.request = r /\ f.pc = "unlock" /\ r \in Requests
  BY <1>1, Types DEF Frame, Pcs
<1> HIDE DEF f, o, r
<1>5. o # Nothing /\ o \in Objects /\ o.ok /\ o.for = r
  BY <1>3, Something
<1>6. refobject_hash' \in [Requests -> {x \in Objects : x.ok} \cup {Nothing}]
  <2>1. o \in {x \in Objects : x.ok}
    BY <1>5
  <2> QED BY <1>1, <1>2, <2>1, Types
<1>7. TypeOK'
  <2>1. created' \in BOOLEAN
    BY <1>1, <1>2 DEF TypeOK
  <2>2. call' \in [Calls -> Frame]
    BY <1>1, <1>2, <1>4, Types
  <2> QED BY <1>1, <1>2, <1>6, <2>1, <2>2, Types, TypesAgain
<1>8. /\ refobject_hash'[r] = o
      /\ \A q \in Requests : q # r => refobject_hash'[q] = refobject_hash[q]
  BY <1>1, <1>2, <1>4, Types
<1>9. CallInv(c)'
  <2>1. call'[c] = f
    BY <1>1, <1>2, Types
  <2> QED BY <1>2, <1>3, <1>4, <1>8, <2>1 DEF CallInv, Locked
<1>10. (\A d \in Calls : CallInv(d)') /\ Exclusive'
  BY <1>2, <1>3, <1>4, <1>9, OneCall DEF Locked
<1>11. TableInv'
  <2>1. \A a \in answers : a.request \in Requests
    BY <1>1, Types
  <2>2. \A a \in answers' : refobject_hash'[a.request] = a.object /\ a.object # Nothing
    BY <1>1, <1>2, <1>3, <1>8, <2>1 DEF TableInv
  <2>3. \A q \in Requests : refobject_hash'[q] # Nothing => refobject_hash'[q] \in Proper(q)
    BY <1>1, <1>3, <1>8 DEF TableInv
  <2> QED BY <1>2, <1>3, <2>2, <2>3 DEF TableInv
<1>12. StoreStep
  <2>1. Store!Publish(o)
    BY <1>2, <1>3, <1>5 DEF Store!Publish, Store!Nothing, Nothing
  <2> QED BY <1>5, <2>1 DEF StoreStep, Store!Next
<1> QED BY <1>7, <1>10, <1>11, <1>12 DEF CacheInv

LEMMA UnlockStep ==
  ASSUME CacheInv, NEW c \in Calls, Unlock(c)
  PROVE  CacheInv' /\ StoreStep
<1>1. TypeOK /\ CallInv(c)
  BY DEF CacheInv
<1>2. /\ Return(c, call[c].obj) /\ domainLock' = Nobody
      /\ created' = created /\ refobject_hash' = refobject_hash /\ serial' = serial
      /\ call[c].pc = "unlock"
  BY DEF Unlock, At
<1>3. /\ call[c].obj = refobject_hash[call[c].request]
      /\ \A d \in Calls : d # c => call[d].pc \notin Locked
  BY <1>1, <1>2, Alone DEF CallInv, Locked
<1>4. /\ call' = [call EXCEPT ![c] = Outside] /\ call' \in [Calls -> Frame]
      /\ answers' \subseteq [request : Requests, object : Objects]
      /\ CallInv(c)' /\ TableInv' /\ StoreStep
  BY <1>2, <1>3, ReturnStep
<1>5. TypeOK'
  <2>1. created' \in BOOLEAN
    BY <1>1, <1>2 DEF TypeOK
  <2> QED BY <1>1, <1>2, <1>4, <2>1, Types, TypesAgain
<1>6. (\A d \in Calls : CallInv(d)') /\ Exclusive'
  BY <1>3, <1>4, OneCall, OutsideType DEF Locked
<1> QED BY <1>4, <1>5, <1>6 DEF CacheInv

-----------------------------------------------------------------------------

LEMMA CacheNext == CacheInv /\ [Next]_vars => CacheInv' /\ StoreStep
<1> SUFFICES ASSUME CacheInv, [Next]_vars PROVE CacheInv' /\ StoreStep
  OBVIOUS
<1>1. CASE UNCHANGED vars
  <2>1. /\ call' = call /\ created' = created /\ refobject_hash' = refobject_hash
        /\ domainLock' = domainLock /\ serial' = serial /\ answers' = answers
    BY <1>1 DEF vars
  <2>2. TypeOK' /\ TableInv' /\ Exclusive' /\ \A c \in Calls : CallInv(c)'
    BY <2>1 DEF CacheInv, TypeOK, TableInv, Exclusive, CallInv
  <2> QED BY <2>1, <2>2 DEF CacheInv, StoreStep
<1>2. ASSUME NEW c \in Calls,
             \/ \E r \in Requests :
                  (\E op \in {"check", "construct"} : Check(c, op, r)) \/ Cache(c, r)
             \/ Load(c)
             \/ Step(c)
      PROVE  CacheInv' /\ StoreStep
  <2>1. ASSUME NEW r \in Requests,
               (\E op \in {"check", "construct"} : Check(c, op, r)) \/ Cache(c, r)
        PROVE  CacheInv' /\ StoreStep
    BY <2>1, BeginStep
  <2>2. CASE ReadHash(c) \/ Lookup(c) \/ Load(c)
    BY <2>2, ReadStep
  <2>3. CASE Construct(c)
    BY <2>3, ConstructStep
  <2>4. CASE Lock(c)
    BY <2>4, LockStep
  <2>5. CASE CreateHash(c)
    BY <2>5, CreateStep
  <2>6. CASE SecondLookup(c)
    BY <2>6, SecondStep
  <2>7. CASE Insert(c)
    BY <2>7, InsertStep
  <2>8. CASE Unlock(c)
    BY <2>8, UnlockStep
  <2> QED BY <1>2, <2>1, <2>2, <2>3, <2>4, <2>5, <2>6, <2>7, <2>8 DEF Step
<1> QED BY <1>1, <1>2 DEF Next

LEMMA CacheInvariant == Spec => []CacheInv
<1>1. Init => CacheInv
  BY CacheInit
<1>2. CacheInv /\ [Next]_vars => CacheInv'
  BY CacheNext
<1> QED BY <1>1, <1>2, PTL DEF Spec

(* The table holds objects constructed without an error, and the domain is *)
(* locked by a thread or by none.                                          *)
THEOREM TypeCorrect == Spec => []TypeOK
<1>1. CacheInv => TypeOK
  BY DEF CacheInv
<1> QED BY <1>1, CacheInvariant, PTL

(* All answers to a request are one object, made for that request: what    *)
(* has been entered stays, and answers are read from the table.            *)
THEOREM SameObjectAlways == Spec => []SameObject
<1>1. CacheInv => SameObject
  BY Something, Types DEF CacheInv, TableInv, SameObject
<1> QED BY <1>1, CacheInvariant, PTL

(* Every step of the cache is a step of the store or none.                 *)
THEOREM CacheIsStore == Spec => StoreSpec
<1>1. Init => Store!Init
  BY CacheInit
<1>2. CacheInv /\ [Next]_vars => StoreStep
  BY CacheNext
<1> QED BY <1>1, <1>2, CacheInvariant, PTL DEF Spec, StoreSpec, Store!Spec, StoreStep

=============================================================================
