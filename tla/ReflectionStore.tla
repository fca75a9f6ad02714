-------------------------- MODULE ReflectionStore --------------------------
(***************************************************************************)
(* What the reflection cache promises: "return always the same object for  *)
(* MethodInfo, FieldInfo etc.", for an item as reflected through a class.  *)
(* An object is published for its request at most once and never replaced, *)
(* and whoever gets an answer gets the published object.                   *)
(***************************************************************************)
CONSTANTS
  Items,    \* methods, fields, parameters, ...
  Classes,  \* the reflected types
  Objects   \* what constructors make: [for : request, ok : BOOLEAN, ...]

VARIABLES
  store,    \* the object published for each request, or Nothing
  answers   \* every object a caller has got, with its request

Requests == [item : Items, refclass : Classes]

Nothing == [ok |-> FALSE]

Init ==
  /\ store = [r \in Requests |-> Nothing]
  /\ answers = {}

(* An object whose construction has failed is not published.               *)
Publish(o) ==
  /\ o.ok
  /\ store[o.for] = Nothing
  /\ store' = [store EXCEPT ![o.for] = o]
  /\ UNCHANGED answers

Answer(r) ==
  /\ store[r] # Nothing
  /\ answers' = answers \cup {[request |-> r, object |-> store[r]]}
  /\ UNCHANGED store

Next ==
  \/ \E o \in Objects : Publish(o)
  \/ \E r \in Requests : Answer(r)

Spec == Init /\ [][Next]_<<store, answers>>

=============================================================================
