--------------------------- MODULE ScriptContract ---------------------------
(***************************************************************************)
(* What loadClasses promises the scripts of a game, without its machinery: *)
(* each top-level script class is served once, in the order of the TypeDef *)
(* table, by a constructor call on a new object and then, if the class has *)
(* an OnUpdate, by one call of it on the same object.  The pass may fail   *)
(* at any point; it returns only when all scripts have been served.        *)
(***************************************************************************)
EXTENDS TypeDefs

CONSTANT Tables

VARIABLES table, calls, status

vars == <<table, calls, status>>

Init ==
  /\ table \in Tables
  /\ calls = <<>>
  /\ status = "running"

Called(method, c) ==
  \E n \in DOMAIN calls : calls[n].method = method /\ calls[n].class = c

Served(c) == /\ Called(".ctor", c)
             /\ table[c].update => Called("OnUpdate", c)

Fresh(o) == \A n \in DOMAIN calls : calls[n].this # o

Construct(c, o) ==
  /\ ~ Called(".ctor", c)
  /\ \A d \in Scripts(table) : d < c => Served(d)
  /\ Fresh(o)
  /\ calls' = Append(calls, [method |-> ".ctor", class |-> c, this |-> o])

Update(c) ==
  /\ table[c].update
  /\ ~ Called("OnUpdate", c)
  /\ \E n \in DOMAIN calls :
       /\ calls[n].method = ".ctor" /\ calls[n].class = c
       /\ calls' = Append(calls, [calls[n] EXCEPT !.method = "OnUpdate"])

Serve ==
  /\ status = "running"
  /\ \E c \in Scripts(table) : Update(c) \/ \E o \in 1..(Len(calls) + 1) : Construct(c, o)
  /\ status' \in {"running", "failed"}
  /\ UNCHANGED table

Return ==
  /\ status = "running"
  /\ \A c \in Scripts(table) : Served(c)
  /\ status' = "returned"
  /\ UNCHANGED <<table, calls>>

Fail ==
  /\ status = "running"
  /\ status' = "failed"
  /\ UNCHANGED <<table, calls>>

Next == Serve \/ Return \/ Fail

Spec == Init /\ [][Next]_vars

=============================================================================
