-------------------------- MODULE ScriptHostProofs --------------------------
(***************************************************************************)
(* What the runs of MCScriptLoader and MCScriptHost check on small images, *)
(* proved for every TypeDef table and every set of names, values and       *)
(* attribute classes.                                                      *)
(*                                                                         *)
(* First the loader alone, from the state in which main calls it.  Then    *)
(* the contract: every step of the loader is one of its steps or a         *)
(* stutter, for all assemblies without shadowing.  Last the whole host:    *)
(* the startup hands loadClasses a state it is specified for, so that all  *)
(* this holds of the loader behind it.                                     *)
(***************************************************************************)
EXTENDS ScriptHost, ScriptRefinement, SequenceTheorems, WellFoundedInduction,
        TLAPS

-----------------------------------------------------------------------------
(* Facts about the metadata.                                               *)

(* The lookup yields null or a top-level class of the wanted name.         *)
LEMMA ClassFromNameFound ==
  ASSUME NEW t \in Seq(TypeDef), NEW name
  PROVE  \/ /\ ClassFromName(t, name) = nullptr
            /\ ~ \E c \in TopLevel(t) : t[c].name = name
         \/ /\ ClassFromName(t, name) \in TopLevel(t)
            /\ t[ClassFromName(t, name)].name = name
BY DEF ClassFromName

LEMMA TopLevelRows ==
  ASSUME NEW t \in Seq(TypeDef)
  PROVE  TopLevel(t) \subseteq 1..Len(t)
BY DEF TopLevel

LEMMA ClassListType ==
  ASSUME NEW t \in Seq(TypeDef)
  PROVE  /\ ClassList(t) \in Seq(Nat)
         /\ Len(ClassList(t)) = Len(t)
         /\ \A i \in 1..Len(t) : ClassList(t)[i] = ClassFromName(t, t[i].name)
<1>1. \A i \in 1..Len(t) : ClassFromName(t, t[i].name) \in Nat
  BY ClassFromNameFound, TopLevelRows DEF nullptr
<1>2. ClassList(t) = [i \in 1..Len(t) |-> ClassFromName(t, t[i].name)]
  BY DEF ClassList
<1> QED
  BY <1>1, <1>2, IsASeq

(* A non-null entry of the vector is a top-level row of the table.         *)
LEMMA ClassListRows ==
  ASSUME NEW t \in Seq(TypeDef), NEW i \in 1..Len(t),
         ClassList(t)[i] # nullptr
  PROVE  /\ ClassList(t)[i] \in TopLevel(t)
         /\ ClassList(t)[i] \in 1..Len(t)
         /\ t[ClassList(t)[i]] \in TypeDef
         /\ t[ClassList(t)[i]].name = t[i].name
<1>1. ClassList(t)[i] = ClassFromName(t, t[i].name)
  BY ClassListType
<1> QED
  BY <1>1, ClassFromNameFound, TopLevelRows

(* A top-level row of a well-formed table resolves to itself.              *)
LEMMA TopLevelResolves ==
  ASSUME NEW t \in Seq(TypeDef), WellFormed(t), NEW c \in TopLevel(t)
  PROVE  ClassList(t)[c] = c
<1>1. c \in 1..Len(t)
  BY TopLevelRows
<1>2. /\ ClassFromName(t, t[c].name) \in TopLevel(t)
      /\ t[ClassFromName(t, t[c].name)].name = t[c].name
  BY ClassFromNameFound
<1> QED
  BY <1>1, <1>2, ClassListType DEF WellFormed

(* Without a nested row that bears a script's name, only the row of a      *)
(* script resolves to that script.                                         *)
LEMMA ScriptAtItsRow ==
  ASSUME NEW t \in Seq(TypeDef), WellFormed(t), NoShadow(t),
         NEW i \in 1..Len(t), ClassList(t)[i] \in Scripts(t)
  PROVE  ClassList(t)[i] = i
<1>1. ~ t[i].nested
  BY ClassListType DEF NoShadow, Shadow
<1>2. i \in TopLevel(t)
  BY <1>1 DEF TopLevel
<1> QED
  BY <1>2, TopLevelResolves

(* A non-empty set of natural numbers has a least element.                 *)
LEMMA LeastElement ==
  ASSUME NEW S \in SUBSET Nat, S # {}
  PROVE  \E i \in S : \A j \in S : i <= j
<1>1. PICK i \in S : \A j \in S : ~ (<<j, i>> \in OpToRel(<, Nat))
  BY NatLessThanWellFounded, WFMin
<1>2. \A j \in S : ~ (j < i)
  BY <1>1 DEF OpToRel
<1> QED
  BY <1>2

(* mono_custom_attrs_get_attr finds an attribute whenever the list holds   *)
(* one of the requested class, and finds that one if no other can be       *)
(* assigned to its class.                                                  *)
LEMMA GetAttrFinds ==
  ASSUME NEW attrs \in Seq(Attribute), NEW k \in 1..Len(attrs)
  PROVE  \E i \in 1..Len(attrs) :
           /\ GetAttr(attrs, attrs[k].class) = attrs[i]
           /\ attrs[k].class \in AttrBases[attrs[i].class]
<1> DEFINE Found == {i \in 1..Len(attrs) :
                       attrs[k].class \in AttrBases[attrs[i].class]}
<1>1. attrs[k].class \in AttrClasses
  <2>1. attrs[k] \in Attribute
    BY ElementOfSeq
  <2> QED BY <2>1 DEF Attribute
<1>2. k \in Found
  BY <1>1, AttrAssumption
<1>3. PICK i \in Found : \A j \in Found : i <= j
  <2>1. Found \in SUBSET Nat
    OBVIOUS
  <2> HIDE DEF Found
  <2> QED BY <1>2, <2>1, LeastElement
<1>4. \A j \in 1..(i - 1) : attrs[k].class \notin AttrBases[attrs[j].class]
  BY <1>3
<1> DEFINE First(m) ==
             /\ attrs[k].class \in AttrBases[attrs[m].class]
             /\ \A j \in 1..(m - 1) : attrs[k].class \notin AttrBases[attrs[j].class]
           m0 == CHOOSE m \in DOMAIN attrs : First(m)
<1>5. i \in DOMAIN attrs /\ First(i)
  BY <1>3, <1>4, LenProperties
<1>6. m0 \in DOMAIN attrs /\ First(m0)
  <2> HIDE DEF First
  <2> QED BY <1>5
<1>7. GetAttr(attrs, attrs[k].class) = attrs[m0]
  BY DEF GetAttr
<1>8. m0 \in 1..Len(attrs) /\ attrs[k].class \in AttrBases[attrs[m0].class]
  BY <1>6, LenProperties
<1> QED
  <2> HIDE DEF m0
  <2> QED BY <1>7, <1>8

LEMMA GetAttrType ==
  ASSUME NEW attrs \in Seq(Attribute), NEW k \in 1..Len(attrs)
  PROVE  /\ GetAttr(attrs, attrs[k].class) \in Attribute
         /\ Unambiguous(attrs) => GetAttr(attrs, attrs[k].class) = attrs[k]
<1>1. PICK i \in 1..Len(attrs) :
        /\ GetAttr(attrs, attrs[k].class) = attrs[i]
        /\ attrs[k].class \in AttrBases[attrs[i].class]
  BY GetAttrFinds
<1>2. attrs[i] \in Attribute
  BY ElementOfSeq
<1>3. Unambiguous(attrs) => i = k
  BY <1>1 DEF Unambiguous
<1> QED
  BY <1>1, <1>2, <1>3

-----------------------------------------------------------------------------
(* Types and the loop.                                                     *)

Body == {"newObject", "attributes", "init", "describe", "update"}

(* Where the pass stands: past the listing the vector is that of the       *)
(* table, in the loop body its entry is a script class, and between two    *)
(* bodies no object is held.                                               *)
LoopInv ==
  /\ table \in Tables
  /\ pc \in Body \cup {"nextClass", "returned"} =>
       /\ classes = ClassList(table)
       /\ pos \in 1..(Len(table) + 1)
  /\ pc \in Body =>
       /\ pos \in 1..Len(table)
       /\ Class # nullptr
       /\ table[Class].script
  /\ pc \in {"loadClasses", "classList", "nextClass", "newObject", "returned"}
       => object = nullptr
  /\ pc \in {"loadClasses", "classList"} =>
       calls = <<>> /\ heap = <<>> /\ output = <<<<>>, <<>>>>
  /\ pc = "attributes" => attr # 0

TypedLoop == TypeOK /\ LoopInv

LEMMA TableType ==
  ASSUME table \in Tables
  PROVE  table \in Seq(TypeDef) /\ WellFormed(table)
BY TablesAssumption

(* In the loop body the class is a top-level script of the table.          *)
LEMMA BodyClass ==
  ASSUME LoopInv, pc \in Body
  PROVE  /\ Class \in 1..Len(table)
         /\ Class \in Scripts(table)
         /\ table[Class] \in TypeDef
         /\ Attrs \in Seq(Attribute)
<1>1. /\ Class \in TopLevel(table)
      /\ Class \in 1..Len(table)
      /\ table[Class] \in TypeDef
  BY TableType, ClassListRows DEF LoopInv, Class
<1>2. table[Class].attrs \in Seq(Attribute)
  BY <1>1 DEF TypeDef
<1> QED
  BY <1>1, <1>2 DEF LoopInv, Scripts, Attrs

LEMMA TypedLoopInit == Init => TypedLoop
<1> SUFFICES ASSUME Init PROVE TypedLoop
  OBVIOUS
<1>1. table \in Seq(TypeDef)
  BY TablesAssumption DEF Init, InitLocals
<1>2. TypeOK
  BY <1>1 DEF Init, InitLocals, TypeOK, ScriptAssembly, nullptr
<1>3. LoopInv
  BY DEF Init, InitLocals, LoopInv, Body, output
<1> QED
  BY <1>2, <1>3 DEF TypedLoop

LEMMA CrashTyped ==
  ASSUME TypedLoop, Crash
  PROVE  TypedLoop'
BY DEF TypedLoop, TypeOK, LoopInv, Body, Crash, assemblies, metadata, output

LEMMA ListType ==
  ASSUME TypeOK, NEW what \in {"attributes", "fields"}, List(what)
  PROVE  listed' \in Seq(Listing)
<1>1. [what |-> what, pos |-> pos] \in Listing
  BY DEF Listing, TypeOK
<1> QED
  BY <1>1, AppendProperties DEF List, TypeOK

LEMMA ListAttributesType ==
  ASSUME TypeOK, ListAttributes
  PROVE  listed' \in Seq(Listing) /\ pc' = "attributes" /\ attr' = 1
<1>1. CASE Attrs = <<>>
  BY <1>1 DEF ListAttributes, TypeOK
<1>2. CASE Attrs # <<>>
  BY <1>2, ListType DEF ListAttributes
<1> QED
  BY <1>1, <1>2 DEF ListAttributes

LEMMA TypedLoopStep == TypedLoop /\ [Next]_vars => TypedLoop'
<1> SUFFICES ASSUME TypedLoop, [Next]_vars
             PROVE  TypedLoop'
  OBVIOUS
<1> USE DEF TypedLoop, Body, nullptr
<1>1. CASE FindBaseScript
  BY <1>1 DEF FindBaseScript, TypeOK, LoopInv, assemblies, output
<1>2. CASE GetAssemblyClassList
  <2>1. ClassList(table) \in Seq(Nat)
    BY ClassListType DEF TypeOK
  <2>2. Len(table) \in Nat
    BY LenProperties DEF TypeOK
  <2> QED
    BY <1>2, <2>1, <2>2 DEF GetAssemblyClassList, TypeOK, LoopInv, assemblies, output
<1>3. CASE NullImage \/ NullClass \/ AttributeFault \/ NullObject \/ NoConstructor
  BY <1>3, CrashTyped DEF NullImage, NullClass, AttributeFault, NullObject, NoConstructor
<1>4. CASE SkipClass
  <2>1. pos <= Len(table)
    BY <1>4, ClassListType DEF SkipClass, Subclass, TypeOK, LoopInv
  <2> QED
    BY <1>4, <2>1 DEF SkipClass, Subclass, TypeOK, LoopInv, assemblies, output, metadata
<1>5. CASE EnterClass
  <2>1. pos <= Len(table)
    BY <1>5, ClassListType DEF EnterClass, Subclass, TypeOK, LoopInv
  <2> QED
    BY <1>5, <2>1
    DEF EnterClass, Subclass, TypeOK, LoopInv, assemblies, output, metadata, Class
<1>6. CASE Return
  BY <1>6 DEF Return, TypeOK, LoopInv, assemblies, output, metadata
<1>7. CASE NewObject
  <2>1. [class |-> Class, gc |-> "live"] \in Object
    BY <1>7, BodyClass DEF NewObject, Object
  <2>2. heap' \in Seq(Object) /\ object' \in Nat
    BY <1>7, <2>1, AppendProperties, LenProperties DEF NewObject, TypeOK
  <2>3. listed' \in Seq(Listing) /\ pc' = "attributes" /\ attr' = 1
    BY <1>7, ListAttributesType DEF NewObject
  <2> QED
    BY <1>7, <2>2, <2>3
    DEF NewObject, TypeOK, LoopInv, assemblies, metadata, Class
<1>8. CASE NewObjectFails
  <2>1. listed' \in Seq(Listing) /\ pc' = "attributes" /\ attr' = 1
    BY <1>8, ListAttributesType DEF NewObjectFails
  <2> QED
    BY <1>8, <2>1 DEF NewObjectFails, TypeOK, LoopInv, assemblies, metadata, Class
<1>9. CASE SkipAttribute
  BY <1>9 DEF SkipAttribute, TypeOK, LoopInv, assemblies, output, metadata, Class
<1>10. CASE ShowAttribute
  <2>1. attr \in 1..Len(Attrs) /\ Attrs \in Seq(Attribute)
    BY <1>10, BodyClass, LenProperties DEF ShowAttribute, TypeOK, LoopInv
  <2>2. GetAttr(Attrs, Attrs[attr].class).value \in Values
    BY <2>1, GetAttrType DEF Attribute
  <2>3. shown' \in Seq(Shown)
    <3>1. [pos |-> pos, attr |-> attr,
           value |-> GetAttr(Attrs, Attrs[attr].class).value] \in Shown
      BY <2>2 DEF Shown, TypeOK
    <3> QED
      BY <1>10, <3>1, AppendProperties DEF ShowAttribute, Show, TypeOK
  <2> QED
    BY <1>10, <2>3 DEF ShowAttribute, TypeOK, LoopInv, assemblies, output, metadata, Class
<1>11. CASE AttributesDone
  BY <1>11 DEF AttributesDone, TypeOK, LoopInv, assemblies, output, metadata, Class
<1>12. CASE ObjectInit
  <2>1. [method |-> ".ctor", class |-> Class, this |-> object] \in Call
    BY <1>12, BodyClass DEF ObjectInit, Call, TypeOK
  <2>2. calls' \in Seq(Call)
    BY <1>12, <2>1, AppendProperties DEF ObjectInit, TypeOK
  <2> QED
    BY <1>12, <2>2 DEF ObjectInit, TypeOK, LoopInv, assemblies, output, metadata, Class
<1>13. CASE Describe
  <2>1. listed' \in Seq(Listing)
    BY <1>13, ListType DEF Describe
  <2> QED
    BY <1>13, <2>1 DEF Describe, TypeOK, LoopInv, assemblies, metadata, Class
<1>14. CASE NoUpdate
  BY <1>14
  DEF NoUpdate, NextIteration, TypeOK, LoopInv, assemblies, output, metadata
<1>15. CASE InvokeUpdate
  <2>1. [method |-> "OnUpdate", class |-> Class, this |-> object] \in Call
    BY <1>15, BodyClass DEF InvokeUpdate, Call, TypeOK
  <2>2. calls' \in Seq(Call)
    BY <1>15, <2>1, AppendProperties DEF InvokeUpdate, TypeOK
  <2> QED
    BY <1>15, <2>2
    DEF InvokeUpdate, NextIteration, TypeOK, LoopInv, assemblies, output, metadata
<1>16. CASE RuntimeStep
  <2> SUFFICES ASSUME NEW o \in DOMAIN heap, Collect(o) \/ Finalize(o)
               PROVE  TypedLoop'
    BY <1>16 DEF RuntimeStep
  <2>1. PICK state \in {"collected", "finalized"} :
          heap' = [heap EXCEPT ![o].gc = state]
    BY DEF Collect, Finalize
  <2>2. [heap[o] EXCEPT !.gc = state] \in Object
    <3>1. heap[o] \in Object
      BY ElementOfSeq DEF TypeOK
    <3> QED BY <3>1 DEF Object
  <2>3. heap' \in Seq(Object)
    BY <2>1, <2>2, ExceptSeq DEF TypeOK
  <2>4. heap # <<>>
    BY DEF TypeOK
  <2> QED
    BY <2>3, <2>4
    DEF Collect, Finalize, TypeOK, LoopInv, assemblies, output, metadata, Class
<1>17. CASE UNCHANGED vars
  BY <1>17 DEF TypeOK, LoopInv, vars, assemblies, metadata, output, Class
<1> QED
  BY <1>1, <1>2, <1>3, <1>4, <1>5, <1>6, <1>7, <1>8, <1>9, <1>10, <1>11,
     <1>12, <1>13, <1>14, <1>15, <1>16, <1>17
  DEF Next, Step, NativeStep, ManagedStep, Terminated

THEOREM TypedLoopInvariant == Spec => []TypedLoop
<1>1. TypedLoop /\ [Next]_vars => TypedLoop'
  BY TypedLoopStep
<1> QED
  BY <1>1, TypedLoopInit, PTL DEF Spec

(* Every variable of the loader keeps its type, for every assembly.        *)
THEOREM TypeCorrect == Spec => []TypeOK
<1>1. TypedLoop => TypeOK
  BY DEF TypedLoop
<1> QED
  BY <1>1, TypedLoopInvariant, PTL

-----------------------------------------------------------------------------
(* The collector and the object in use.                                    *)

(* The object the loop body works on is of the class it stands at, and no  *)
(* collection takes it: the local that holds it is a root.                 *)
HeldInv ==
  object # nullptr =>
    /\ object \in DOMAIN heap
    /\ heap[object].gc = "live"
    /\ heap[object].class = Class

LEMMA HeldStep == TypedLoop /\ HeldInv /\ [Next]_vars => HeldInv'
<1> SUFFICES ASSUME TypedLoop, HeldInv, [Next]_vars
             PROVE  HeldInv'
  OBVIOUS
<1> USE DEF TypedLoop, LoopInv, HeldInv, Body, Class
<1>1. CASE NewObject
  <2>1. [class |-> Class, gc |-> "live"] \in Object
    BY <1>1, BodyClass DEF NewObject, Object
  <2> QED
    BY <1>1, <2>1, AppendProperties, LenProperties
    DEF NewObject, TypeOK, metadata
<1>2. CASE RuntimeStep
  <2> SUFFICES ASSUME NEW o \in DOMAIN heap, Collect(o) \/ Finalize(o)
               PROVE  HeldInv'
    BY <1>2 DEF RuntimeStep
  <2>1. object # nullptr => o # object
    BY DEF Collect, Finalize, Rooted
  <2> QED
    BY <2>1 DEF Collect, Finalize, metadata, TypeOK
<1>3. CASE GetAssemblyClassList \/ SkipClass \/ NewObjectFails
  BY <1>3 DEF GetAssemblyClassList, SkipClass, Subclass, NewObjectFails
<1>4. CASE NoUpdate \/ InvokeUpdate
  BY <1>4 DEF NoUpdate, InvokeUpdate, NextIteration, metadata
<1>5. CASE UNCHANGED <<object, heap, metadata, pos>>
  BY <1>5 DEF metadata
<1> QED
  BY <1>1, <1>2, <1>3, <1>4, <1>5
  DEF Next, Step, NativeStep, ManagedStep, Terminated, vars, metadata, Crash,
      FindBaseScript, NullImage, NullClass, EnterClass, Return, SkipAttribute,
      AttributesDone, NullObject, NoConstructor, Describe, ShowAttribute, AttributeFault,
      ObjectInit

THEOREM HeldInvariant == Spec => []HeldInv
<1>1. Init => HeldInv
  BY DEF Init, InitLocals, HeldInv
<1>2. TypedLoop /\ HeldInv /\ [Next]_vars => HeldInv'
  BY HeldStep
<1> QED
  BY <1>1, <1>2, TypedLoopInvariant, PTL DEF Spec

-----------------------------------------------------------------------------
(* The reference count of the game's image.                                *)

(* One reference is lost at most, and only between a failed instance       *)
(* creation and the crash it leads to.                                     *)
RefInv ==
  /\ app.assembly = nullptr => app.image = nullptr
  /\ pc \in Body \cup {"nextClass", "returned"} => app.image # nullptr
  /\ \/ imageRefs = app.assembly
     \/ /\ app.assembly = 1 /\ imageRefs = 0
        /\ object = nullptr
        /\ pc \in {"attributes", "init", "crashed"}

LEMMA RefStep == TypedLoop /\ RefInv /\ [Next]_vars => RefInv'
<1> SUFFICES ASSUME TypedLoop, RefInv, [Next]_vars
             PROVE  RefInv'
  OBVIOUS
<1> USE DEF RefInv, Body
<1>1. CASE NewObjectFails
  BY <1>1 DEF NewObjectFails, ListAttributes, assemblies, TypedLoop, TypeOK, ScriptAssembly, nullptr
<1>2. CASE RuntimeStep
  BY <1>2 DEF RuntimeStep, Collect, Finalize, assemblies
<1>3. CASE UNCHANGED vars
  BY <1>3 DEF vars, assemblies
<1>4. CASE NullImage \/ NullClass \/ AttributeFault \/ NullObject \/ NoConstructor
  BY <1>4 DEF NullImage, NullClass, AttributeFault, NullObject, NoConstructor, Crash, assemblies
<1>5. CASE FindBaseScript \/ GetAssemblyClassList \/ SkipClass \/ EnterClass \/ Return
  BY <1>5 DEF FindBaseScript, GetAssemblyClassList, SkipClass, EnterClass,
     Return, Subclass, assemblies
<1>6. CASE NewObject \/ SkipAttribute \/ ShowAttribute \/ AttributesDone
  BY <1>6 DEF NewObject, ListAttributes, SkipAttribute, ShowAttribute,
     AttributesDone, assemblies
<1>7. CASE ObjectInit \/ Describe \/ NoUpdate \/ InvokeUpdate
  BY <1>7 DEF ObjectInit, Describe, NoUpdate, InvokeUpdate, NextIteration, assemblies
<1> QED
  BY <1>1, <1>2, <1>3, <1>4, <1>5, <1>6, <1>7
  DEF Next, Step, NativeStep, ManagedStep, Terminated

THEOREM RefInvariant == Spec => []RefInv
<1>1. Init => RefInv
  BY DEF Init, RefInv, Body
<1>2. TypedLoop /\ RefInv /\ [Next]_vars => RefInv'
  BY RefStep
<1> QED
  BY <1>1, <1>2, TypedLoopInvariant, PTL DEF Spec

(* However many instance creations fail, the image is not released twice.  *)
THEOREM NotOverReleased == Spec => []ImageNotOverReleased
<1>1. TypedLoop /\ RefInv => ImageNotOverReleased
  BY DEF TypedLoop, TypeOK, ScriptAssembly, RefInv, ImageNotOverReleased, nullptr
<1> QED
  BY <1>1, TypedLoopInvariant, RefInvariant, PTL

-----------------------------------------------------------------------------
(* Every script runs once.                                                 *)

Distinct == \A m, n \in DOMAIN calls :
  calls[m].method = calls[n].method /\ calls[m].class = calls[n].class => m = n

(* Without shadowing the entry at pos is row pos, so the calls made so far *)
(* belong to rows before pos, and to row pos once its body has made them.  *)
OnceInv ==
  NoShadow(table) =>
    /\ Distinct
    /\ \A n \in DOMAIN calls :
         /\ calls[n].class <= pos
         /\ pc \in {"nextClass", "newObject", "attributes", "init"} =>
              calls[n].class # pos
         /\ pc \in {"describe", "update"} /\ calls[n].class = pos =>
              calls[n].method = ".ctor"

LEMMA BodyRow ==
  ASSUME LoopInv, pc \in Body, NoShadow(table)
  PROVE  Class = pos
BY BodyClass, TableType, ScriptAtItsRow DEF LoopInv, Class

(* What a call at the position of the pass does to the calls.              *)
LEMMA DistinctAppend ==
  ASSUME TypeOK, Distinct, NEW c \in Call, calls' = Append(calls, c),
         \A n \in DOMAIN calls :
           calls[n].class = c.class => calls[n].method # c.method
  PROVE  Distinct'
<1>1. /\ Len(calls') = Len(calls) + 1
      /\ \A n \in 1..Len(calls) : calls'[n] = calls[n]
      /\ calls'[Len(calls) + 1] = c
      /\ DOMAIN calls = 1..Len(calls) /\ DOMAIN calls' = 1..(Len(calls) + 1)
      /\ Len(calls) \in Nat
  BY AppendProperties, LenProperties DEF TypeOK
<1> QED
  BY <1>1 DEF Distinct

LEMMA OnceStep == TypedLoop /\ OnceInv /\ [Next]_vars => OnceInv'
<1> SUFFICES ASSUME TypedLoop, OnceInv, [Next]_vars, NoShadow(table)'
             PROVE  /\ Distinct'
                    /\ (\A n \in DOMAIN calls :
                         /\ calls[n].class <= pos
                         /\ pc \in {"nextClass", "newObject", "attributes", "init"} =>
                              calls[n].class # pos
                         /\ pc \in {"describe", "update"} /\ calls[n].class = pos =>
                              calls[n].method = ".ctor")'
  BY DEF OnceInv
<1>1. UNCHANGED table
  BY DEF Next, Step, NativeStep, ManagedStep, RuntimeStep, Terminated, vars,
     metadata, Crash, FindBaseScript, GetAssemblyClassList, NullImage,
     NullClass, SkipClass, EnterClass, Return, NewObject, NewObjectFails,
     SkipAttribute, ShowAttribute, AttributeFault, AttributesDone, NullObject, NoConstructor,
     ObjectInit, Describe, NoUpdate, InvokeUpdate, Collect, Finalize
<1>2. NoShadow(table)
  BY <1>1
<1>3. /\ calls \in Seq(Call) /\ pos \in Nat
      /\ \A n \in DOMAIN calls : calls[n].class \in Nat
  <2>1. calls \in Seq(Call) /\ pos \in Nat
    BY DEF TypedLoop, TypeOK
  <2>2. \A n \in DOMAIN calls : calls[n] \in Call
    BY <2>1, ElementOfSeq, LenProperties
  <2> QED
    BY <2>1, <2>2 DEF Call
<1>4. CASE ObjectInit
  <2> DEFINE c == [method |-> ".ctor", class |-> Class, this |-> object]
  <2>1. pc = "init" /\ Class = pos /\ c \in Call
    BY <1>4, <1>2, BodyClass, BodyRow DEF ObjectInit, Call, TypedLoop, TypeOK, Body
  <2>2. calls' = Append(calls, c) /\ pos' = pos /\ pc' \in {"describe", "crashed"}
    BY <1>4 DEF ObjectInit
  <2>3. \A n \in DOMAIN calls : calls[n].class # c.class
    BY <1>2, <2>1 DEF OnceInv
  <2>4. Distinct'
    BY <1>2, <2>1, <2>2, <2>3, DistinctAppend DEF TypedLoop, OnceInv
  <2>5. \A n \in DOMAIN calls' :
          (n \in DOMAIN calls /\ calls'[n] = calls[n]) \/ calls'[n] = c
    BY <1>3, <2>1, <2>2, AppendProperties, LenProperties
  <2> QED
    BY <1>2, <1>3, <2>1, <2>2, <2>4, <2>5 DEF OnceInv
<1>5. CASE InvokeUpdate
  <2> DEFINE c == [method |-> "OnUpdate", class |-> Class, this |-> object]
  <2>1. pc = "update" /\ Class = pos /\ c \in Call
    BY <1>5, <1>2, BodyClass, BodyRow DEF InvokeUpdate, Call, TypedLoop, TypeOK, Body
  <2>2. /\ calls' = Append(calls, c)
        /\ \/ pos' = pos + 1 /\ pc' = "nextClass"
           \/ pos' = pos /\ pc' = "crashed"
    BY <1>5 DEF InvokeUpdate, NextIteration
  <2>3. \A n \in DOMAIN calls : calls[n].class = c.class => calls[n].method # c.method
    BY <1>2, <2>1 DEF OnceInv
  <2>4. Distinct'
    BY <1>2, <2>1, <2>2, <2>3, DistinctAppend DEF TypedLoop, OnceInv
  <2>5. \A n \in DOMAIN calls' :
          (n \in DOMAIN calls /\ calls'[n] = calls[n]) \/ calls'[n] = c
    BY <1>3, <2>1, <2>2, AppendProperties, LenProperties
  <2> QED
    BY <1>2, <1>3, <2>1, <2>2, <2>4, <2>5 DEF OnceInv
<1>6. CASE FindBaseScript \/ GetAssemblyClassList
  BY <1>6, <1>2
  DEF FindBaseScript, GetAssemblyClassList, TypedLoop, LoopInv, Distinct
<1>7. CASE SkipClass \/ NoUpdate
  BY <1>7, <1>2, <1>3
  DEF SkipClass, Subclass, NoUpdate, NextIteration, OnceInv, Distinct
<1>8. CASE NullImage \/ NullClass \/ AttributeFault \/ NullObject \/ NoConstructor
  BY <1>8, <1>2, <1>3
  DEF NullImage, NullClass, AttributeFault, NullObject, NoConstructor, Crash, OnceInv, Distinct
<1>9. CASE EnterClass \/ Return \/ NewObject \/ NewObjectFails
  BY <1>9, <1>2, <1>3
  DEF EnterClass, Subclass, Return, NewObject, NewObjectFails, OnceInv, Distinct
<1>10. CASE SkipAttribute \/ ShowAttribute \/ AttributesDone
  BY <1>10, <1>2, <1>3
  DEF SkipAttribute, ShowAttribute, AttributesDone, OnceInv, Distinct
<1>11. CASE Describe
  <2>1. \A n \in DOMAIN calls : calls[n].class = pos => calls[n].method = ".ctor"
    BY <1>11, <1>2 DEF Describe, OnceInv
  <2> QED
    BY <1>11, <1>2, <1>3, <2>1 DEF Describe, OnceInv, Distinct
<1>12. CASE RuntimeStep \/ UNCHANGED vars
  BY <1>12, <1>2, <1>3
  DEF RuntimeStep, Collect, Finalize, vars, OnceInv, Distinct
<1> QED
  BY <1>4, <1>5, <1>6, <1>7, <1>8, <1>9, <1>10, <1>11, <1>12
  DEF Next, Step, NativeStep, ManagedStep, Terminated

(* No script is constructed or updated twice, for any assembly in which no *)
(* nested type bears the name of a global script.                          *)
THEOREM RunOnce == Spec => []ScriptsRunOnce
<1>1. Init => OnceInv
  BY DEF Init, InitLocals, OnceInv, Distinct
<1>2. TypedLoop /\ OnceInv /\ [Next]_vars => OnceInv'
  BY OnceStep
<1>3. OnceInv => ScriptsRunOnce
  BY DEF OnceInv, Distinct, ScriptsRunOnce
<1> QED
  BY <1>1, <1>2, <1>3, TypedLoopInvariant, PTL DEF Spec

-----------------------------------------------------------------------------
(* Every script runs, and its finalizer comes last.                        *)

Made(method, c, o) ==
  \E n \in DOMAIN calls :
    calls[n].method = method /\ calls[n].class = c /\ calls[n].this = o

ServedOn(c, o) ==
  Made(".ctor", c, o) /\ (table[c].update => Made("OnUpdate", c, o))

(* The entries before pos are classes, and those that are scripts have had *)
(* their calls; every object but the one in use has had all of its calls.  *)
ServedInv ==
  /\ pc \in {"describe", "update"} => Made(".ctor", Class, object)
  /\ pc \in Body \cup {"nextClass", "returned"} =>
       \A p \in 1..(pos - 1) :
         /\ classes[p] # nullptr
         /\ classes[p] \in Scripts(table) => \E o \in Nat : ServedOn(classes[p], o)
  /\ pc = "returned" => pos = Len(table) + 1
  /\ \A o \in DOMAIN heap : o # object => ServedOn(heap[o].class, o)

LEMMA MadeAppend ==
  ASSUME TypeOK, NEW call \in Call, calls' = Append(calls, call),
         NEW method, NEW c, NEW o
  PROVE  /\ Made(method, c, o) => Made(method, c, o)'
         /\ method = call.method /\ c = call.class /\ o = call.this =>
              Made(method, c, o)'
<1>1. /\ DOMAIN calls = 1..Len(calls) /\ DOMAIN calls' = 1..(Len(calls) + 1)
      /\ Len(calls) \in Nat
      /\ \A n \in 1..Len(calls) : calls'[n] = calls[n]
      /\ calls'[Len(calls) + 1] = call
  BY AppendProperties, LenProperties DEF TypeOK
<1> QED
  BY <1>1 DEF Made

(* A step that leaves calls, classes and position alone and keeps or ends  *)
(* the pass preserves the invariant.                                       *)
LEMMA ServedSame ==
  ASSUME ServedInv, UNCHANGED <<calls, metadata, pos, heap, object>>,
         pc' \in {"describe", "update"} => pc \in {"describe", "update"},
         pc' \in Body \cup {"nextClass", "returned"} =>
           pc \in Body \cup {"nextClass", "returned"},
         pc' = "returned" => pc = "returned" \/ pos = Len(table) + 1
  PROVE  ServedInv'
BY DEF ServedInv, ServedOn, Made, metadata, Class, Body

LEMMA ServedStep ==
  TypedLoop /\ HeldInv /\ ServedInv /\ [Next]_vars => ServedInv'
<1> SUFFICES ASSUME TypedLoop, HeldInv, ServedInv, [Next]_vars
             PROVE  ServedInv'
  OBVIOUS
<1> DEFINE ServedBefore(p) ==
             /\ classes[p] # nullptr
             /\ classes[p] \in Scripts(table) => \E o \in Nat : ServedOn(classes[p], o)
<1>1. CASE NullImage \/ NullClass \/ AttributeFault \/ NullObject \/ NoConstructor
  BY <1>1, ServedSame
  DEF NullImage, NullClass, AttributeFault, NullObject, NoConstructor, Crash, Body
<1>2. CASE EnterClass \/ SkipAttribute \/ ShowAttribute \/ AttributesDone \/ Describe
  BY <1>2, ServedSame DEF EnterClass, Subclass, SkipAttribute, ShowAttribute,
     AttributesDone, Describe, Body, metadata
<1>3. CASE Return
  <2>1. pos = Len(table) + 1
    BY <1>3, ClassListType DEF Return, TypedLoop, TypeOK, LoopInv
  <2> QED
    BY <1>3, <2>1, ServedSame DEF Return, Body, metadata
<1>4. CASE FindBaseScript
  BY <1>4 DEF FindBaseScript, ServedInv, ServedOn, Made, TypedLoop, LoopInv, Body
<1>5. CASE GetAssemblyClassList
  BY <1>5 DEF GetAssemblyClassList, ServedInv, ServedOn, Made, TypedLoop, LoopInv, Body
<1>6. CASE SkipClass
  <2>1. Class # nullptr /\ Class \notin Scripts(table)
    BY <1>6 DEF SkipClass, Subclass, Scripts
  <2>2. \A p \in 1..pos : ServedBefore(p)
    BY <1>6, <2>1 DEF SkipClass, Subclass, ServedInv, Class, Body, TypedLoop, TypeOK
  <2>3. UNCHANGED <<calls, table, classes, heap, object>> /\ pos' = pos + 1
    BY <1>6 DEF SkipClass, metadata
  <2> HIDE DEF ServedBefore
  <2>4. \A p \in 1..(pos' - 1) : ServedBefore(p)
    BY <2>2, <2>3 DEF TypedLoop, TypeOK
  <2>5. \A p \in 1..(pos' - 1) : ServedBefore(p)'
    BY <2>3, <2>4 DEF ServedBefore, ServedOn, Made
  <2>6. pc' = "nextClass"
    BY <1>6 DEF SkipClass, Subclass
  <2> QED
    BY <2>3, <2>5, <2>6 DEF ServedBefore, ServedInv, ServedOn, Made
<1>7. CASE NewObject
  <2>1. /\ heap \in Seq(Object) /\ object = nullptr
        /\ [class |-> Class, gc |-> "live"] \in Object
    BY <1>7, BodyClass DEF NewObject, Object, TypedLoop, TypeOK, LoopInv, Body
  <2>2. /\ DOMAIN heap = 1..Len(heap) /\ DOMAIN heap' = 1..(Len(heap) + 1)
        /\ object' = Len(heap) + 1 /\ Len(heap) \in Nat
        /\ \A o \in DOMAIN heap : heap'[o] = heap[o]
    BY <1>7, <2>1, AppendProperties, LenProperties DEF NewObject
  <2>3. \A o \in DOMAIN heap : o # object
    BY <2>1, <2>2 DEF nullptr
  <2> QED
    BY <1>7, <2>2, <2>3
    DEF NewObject, ListAttributes, ServedInv, ServedOn, Made, metadata, Body
<1>8. CASE NewObjectFails
  BY <1>8 DEF NewObjectFails, ListAttributes, ServedInv, ServedOn, Made, metadata, Body,
     TypedLoop, LoopInv
<1>9. CASE ObjectInit
  <2> DEFINE call == [method |-> ".ctor", class |-> Class, this |-> object]
  <2>1. call \in Call
    BY <1>9, BodyClass DEF ObjectInit, Call, TypedLoop, TypeOK, Body
  <2>2. \A m, c, o : Made(m, c, o) => Made(m, c, o)'
    BY <1>9, <2>1, MadeAppend DEF ObjectInit, TypedLoop
  <2>3. Made(".ctor", Class, object)'
    BY <1>9, <2>1, MadeAppend DEF ObjectInit, TypedLoop, metadata, Class
  <2> QED
    BY <1>9, <2>2, <2>3 DEF ObjectInit, ServedInv, ServedOn, metadata, Body
<1>10. CASE NoUpdate \/ InvokeUpdate
  <2>1. PICK c, this : c = Class /\ this = object
    OBVIOUS
  <2>2. /\ pc = "update" /\ Made(".ctor", c, this)
        /\ table[c].update <=> InvokeUpdate
        /\ this # nullptr => heap[this].class = c
        /\ this \in Nat /\ pos \in Nat /\ c # nullptr /\ c = classes[pos]
    BY <1>10, <2>1 DEF NoUpdate, InvokeUpdate, ServedInv, TypedLoop, TypeOK,
       LoopInv, Body, HeldInv, Class
  <2>3. UNCHANGED <<table, classes, heap>>
    BY <1>10 DEF NoUpdate, InvokeUpdate, metadata
  <2>4. /\ \A m, k, o : Made(m, k, o) => Made(m, k, o)'
        /\ InvokeUpdate => Made("OnUpdate", c, this)'
    <3>1. CASE NoUpdate
      BY <3>1, <2>1, <2>2 DEF NoUpdate, Made
    <3>2. CASE InvokeUpdate
      <4> DEFINE call == [method |-> "OnUpdate", class |-> c, this |-> this]
      <4>1. call \in Call
        BY <2>1, <2>2, BodyClass DEF Call, TypedLoop, Body
      <4>2. calls' = Append(calls, call)
        BY <2>1, <3>2 DEF InvokeUpdate
      <4>3. \A m, k, o : Made(m, k, o) => Made(m, k, o)'
        BY <4>1, <4>2, MadeAppend DEF TypedLoop
      <4>4. call.method = "OnUpdate" /\ call.class = c /\ call.this = this
        OBVIOUS
      <4>5. Made("OnUpdate", c, this)'
        <5> HIDE DEF call
        <5> QED BY <4>1, <4>2, <4>4, MadeAppend DEF TypedLoop
      <4> QED
        BY <4>3, <4>5
    <3> QED BY <1>10, <3>1, <3>2
  <2>5. ServedOn(c, this)'
    BY <2>2, <2>3, <2>4 DEF ServedOn
  <2>6. \A k, o : ServedOn(k, o) => ServedOn(k, o)'
    BY <2>3, <2>4 DEF ServedOn
  <2>7. CASE pc' = "crashed" /\ UNCHANGED <<pos, object>>
    BY <2>7, <2>3, <2>6 DEF ServedInv, Body
  <2>8. CASE NextIteration
    <3>1. \A p \in 1..pos :
            /\ classes[p] # nullptr
            /\ classes[p] \in Scripts(table) =>
                 classes[p] = c \/ \E o \in Nat : ServedOn(classes[p], o)
      BY <2>2 DEF ServedInv, Body
    <3>2. \A p \in 1..(pos' - 1) :
            /\ classes'[p] # nullptr
            /\ classes'[p] \in Scripts(table)' =>
                 \E o \in Nat : ServedOn(classes[p], o)'
      BY <2>2, <2>3, <2>5, <2>6, <2>8, <3>1 DEF NextIteration, Scripts, TopLevel
    <3>3. \A o \in DOMAIN heap : o # object' => ServedOn(heap[o].class, o)'
      BY <2>1, <2>2, <2>3, <2>5, <2>6, <2>8
      DEF NextIteration, ServedInv, HeldInv
    <3> QED
      BY <2>2, <2>3, <2>8, <3>2, <3>3 DEF NextIteration, ServedInv
  <2> QED
    BY <1>10, <2>7, <2>8 DEF NoUpdate, InvokeUpdate
<1>11. CASE RuntimeStep
  <2> SUFFICES ASSUME NEW o \in DOMAIN heap, Collect(o) \/ Finalize(o)
               PROVE  ServedInv'
    BY <1>11 DEF RuntimeStep
  <2>1. heap[o] \in Object
    BY ElementOfSeq DEF TypedLoop, TypeOK
  <2>2. PICK state : heap' = [heap EXCEPT ![o].gc = state]
    BY DEF Collect, Finalize
  <2>3. /\ DOMAIN heap' = DOMAIN heap
        /\ \A q \in DOMAIN heap : heap'[q].class = heap[q].class
    BY <2>1, <2>2 DEF Object
  <2> QED
    BY <2>3 DEF Collect, Finalize, ServedInv, ServedOn, Made, metadata, Class
<1>12. CASE UNCHANGED vars
  BY <1>12, ServedSame DEF vars, metadata
<1> QED
  BY <1>1, <1>2, <1>3, <1>4, <1>5, <1>6, <1>7, <1>8, <1>9, <1>10, <1>11, <1>12
  DEF Next, Step, NativeStep, ManagedStep, Terminated

THEOREM ServedInvariant == Spec => []ServedInv
<1>1. Init => ServedInv
  BY DEF Init, InitLocals, ServedInv, Body
<1> QED
  BY <1>1, ServedStep, TypedLoopInvariant, HeldInvariant, PTL DEF Spec

(* If loadClasses returns, every row of the table resolved to a class and  *)
(* every script was constructed and updated, for every assembly.           *)
THEOREM ReturnAfterAll == Spec => []ReturnMeansAllRan
<1>1. TypedLoop /\ ServedInv => ReturnMeansAllRan
  <2> SUFFICES ASSUME TypedLoop, ServedInv, pc = "returned"
               PROVE  /\ \A i \in 1..Len(table) :
                           ClassFromName(table, table[i].name) # nullptr
                      /\ \A c \in Scripts(table) : \E o \in Nat : ServedOn(c, o)
    <3>1. TypedLoop => DOMAIN table = 1..Len(table)
      BY LenProperties DEF TypedLoop, TypeOK
    <3>2. ASSUME NEW c \in Scripts(table), NEW o \in Nat, ServedOn(c, o)
          PROVE  \E n \in DOMAIN calls :
                   /\ calls[n].method = ".ctor" /\ calls[n].class = c
                   /\ table[c].update =>
                        \E m \in DOMAIN calls :
                          /\ calls[m].method = "OnUpdate"
                          /\ calls[m].class = c /\ calls[m].this = calls[n].this
      BY <3>2 DEF ServedOn, Made
    <3> QED
      BY <3>1, <3>2 DEF ReturnMeansAllRan
  <2>1. /\ table \in Seq(TypeDef) /\ WellFormed(table)
        /\ classes = ClassList(table)
        /\ \A p \in 1..Len(table) :
             /\ classes[p] # nullptr
             /\ classes[p] \in Scripts(table) => \E o \in Nat : ServedOn(classes[p], o)
    <3>1. pos = Len(table) + 1 /\ classes = ClassList(table)
      BY DEF ServedInv, TypedLoop, LoopInv
    <3>2. Len(table) \in Nat
      BY LenProperties DEF TypedLoop, TypeOK
    <3> QED
      BY <3>1, <3>2, TableType DEF ServedInv, TypedLoop, LoopInv
  <2>2. \A i \in 1..Len(table) : ClassFromName(table, table[i].name) # nullptr
    BY <2>1, ClassListType
  <2>3. ASSUME NEW c \in Scripts(table)
        PROVE  \E o \in Nat : ServedOn(c, o)
    <3>1. c \in 1..Len(table) /\ classes[c] = c
      BY <2>1, TopLevelRows, TopLevelResolves DEF Scripts
    <3> QED
      BY <2>1, <3>1
  <2> QED
    BY <2>2, <2>3
<1> QED
  BY <1>1, TypedLoopInvariant, ServedInvariant, PTL

(* A finalizer never runs before the constructor and the OnUpdate of its   *)
(* object, for every interleaving with the collector.                      *)
THEOREM FinalizerLast == Spec => []FinalizedIsFinished
<1>1. HeldInv /\ ServedInv /\ TypedLoop => FinalizedIsFinished
  <2> SUFFICES ASSUME HeldInv, ServedInv, TypedLoop,
                      NEW o \in DOMAIN heap, heap[o].gc = "finalized"
               PROVE  ServedOn(heap[o].class, o)
    BY DEF FinalizedIsFinished, ServedOn, Made
  <2>1. o # object
    BY LenProperties DEF HeldInv, TypedLoop, TypeOK, nullptr
  <2> QED
    BY <2>1 DEF ServedInv
<1> QED
  BY <1>1, TypedLoopInvariant, HeldInvariant, ServedInvariant, PTL

-----------------------------------------------------------------------------
(* The attributes that are printed.                                        *)

ShownAt(p, i) == \E n \in DOMAIN shown : shown[n].pos = p /\ shown[n].attr = i

(* A printed attribute is one the host looks for on a script class, with   *)
(* the value mono_custom_attrs_get_attr answers.                           *)
Printed(s) ==
  LET attrs == table[classes[s.pos]].attrs
  IN  /\ attrs \in Seq(Attribute)
      /\ s.attr \in 1..Len(attrs)
      /\ s.value = GetAttr(attrs, attrs[s.attr].class).value
      /\ s.pos \in 1..Len(table)
      /\ classes[s.pos] = ClassList(table)[s.pos]
      /\ classes[s.pos] \in Scripts(table)

(* The labelled attributes before attr have been printed, past the loop    *)
(* all of them.                                                            *)
ShownInv ==
  /\ pc = "attributes" =>
       \A i \in DOMAIN Attrs : i < attr /\ Labelled(Attrs[i]) => ShownAt(pos, i)
  /\ pc \in {"init", "describe", "update"} =>
       \A i \in DOMAIN Attrs : Labelled(Attrs[i]) => ShownAt(pos, i)
  /\ pc \in {"loadClasses", "classList"} => shown = <<>>
  /\ \A n \in DOMAIN shown : Printed(shown[n])

(* An entry appended to a sequence is its last.                            *)
LEMMA Appended ==
  ASSUME NEW S, NEW s \in Seq(S), NEW e \in S
  PROVE  /\ DOMAIN s = 1..Len(s) /\ Len(s) \in Nat
         /\ DOMAIN Append(s, e) = DOMAIN s \cup {Len(s) + 1}
         /\ Len(s) + 1 \notin DOMAIN s
         /\ Append(s, e)[Len(s) + 1] = e
         /\ \A n \in DOMAIN s : Append(s, e)[n] = s[n]
<1>1. /\ Append(s, e) \in Seq(S) /\ Len(Append(s, e)) = Len(s) + 1
      /\ \A n \in 1..Len(s) : Append(s, e)[n] = s[n]
      /\ Append(s, e)[Len(s) + 1] = e
  BY AppendProperties
<1>2. /\ DOMAIN s = 1..Len(s) /\ Len(s) \in Nat
      /\ DOMAIN Append(s, e) = 1..(Len(s) + 1)
  BY <1>1, LenProperties
<1> QED
  BY <1>1, <1>2

(* What ShowAttribute prints.                                              *)
LEMMA ShowFacts ==
  ASSUME TypedLoop, ShowAttribute
  PROVE  \E e \in Shown :
           /\ shown' = Append(shown, e)
           /\ e.pos = pos /\ e.attr = attr
           /\ e.value = GetAttr(Attrs, Attrs[attr].class).value
           /\ Printed(e) /\ Labelled(Attrs[attr])
           /\ Attrs \in Seq(Attribute) /\ attr \in 1..Len(Attrs)
<1>1. /\ Attrs \in Seq(Attribute) /\ attr \in 1..Len(Attrs) /\ pc = "attributes"
      /\ Labelled(Attrs[attr])
  BY BodyClass, LenProperties DEF ShowAttribute, TypedLoop, TypeOK, LoopInv, Body
<1>2. /\ pos \in 1..Len(table)
      /\ classes[pos] = ClassList(table)[pos]
      /\ classes[pos] \in Scripts(table)
  BY <1>1, BodyClass DEF TypedLoop, LoopInv, Body, Class
<1> DEFINE e == [pos |-> pos, attr |-> attr,
                 value |-> GetAttr(Attrs, Attrs[attr].class).value]
<1>3. e \in Shown
  BY <1>1, GetAttrType DEF Shown, Attribute, TypedLoop, TypeOK
<1>4. Printed(e)
  BY <1>1, <1>2 DEF Printed, Attrs, Class
<1>5. shown' = Append(shown, e)
  BY DEF ShowAttribute, Show
<1> QED
  BY <1>1, <1>3, <1>4, <1>5

LEMMA ShownStep == TypedLoop /\ ShownInv /\ [Next]_vars => ShownInv'
<1> SUFFICES ASSUME TypedLoop, ShownInv, [Next]_vars
             PROVE  ShownInv'
  OBVIOUS
<1>1. CASE ShowAttribute
  <2>1. PICK e \in Shown :
          /\ shown' = Append(shown, e)
          /\ e.pos = pos /\ e.attr = attr
          /\ Printed(e)
    BY <1>1, ShowFacts
  <2>2. /\ attr' = attr + 1 /\ pc' = pc /\ pc = "attributes" /\ attr \in Nat
        /\ UNCHANGED <<table, classes, pos>>
    BY <1>1 DEF ShowAttribute, metadata, TypedLoop, TypeOK
  <2>3. /\ \A n \in DOMAIN shown : n \in DOMAIN shown' /\ shown'[n] = shown[n]
        /\ \E n \in DOMAIN shown' : shown'[n] = e
        /\ \A n \in DOMAIN shown' : n \in DOMAIN shown \/ shown'[n] = e
    BY <2>1, Appended DEF TypedLoop, TypeOK
  <2>4. \A i \in DOMAIN Attrs : i < attr + 1 /\ Labelled(Attrs[i]) => ShownAt(pos, i)'
    <3>1. ASSUME NEW i \in DOMAIN Attrs, i < attr + 1, Labelled(Attrs[i])
          PROVE  ShownAt(pos, i)'
      <4>1. CASE i = attr
        BY <4>1, <2>1, <2>2, <2>3 DEF ShownAt
      <4>2. CASE i < attr
        <5>1. ShownAt(pos, i)
          BY <4>2, <3>1, <2>2 DEF ShownInv
        <5> QED
          BY <5>1, <2>2, <2>3 DEF ShownAt
      <4>3. i \in Nat
        BY <2>2, BodyClass, LenProperties DEF TypedLoop, Body
      <4> QED
        BY <4>1, <4>2, <4>3, <3>1, <2>2
    <3> QED BY <3>1
  <2>5. \A n \in DOMAIN shown' : Printed(shown'[n])
    BY <2>1, <2>3 DEF ShownInv
  <2>6. (\A n \in DOMAIN shown : Printed(shown[n]))'
    BY <2>2, <2>5 DEF Printed
  <2> QED
    BY <2>2, <2>4, <2>6 DEF ShownInv, Attrs, Class
<1>2. CASE SkipAttribute
  <2>1. /\ \A i \in DOMAIN Attrs : i < attr + 1 => i < attr \/ i = attr
        /\ UNCHANGED <<shown, table, classes, pos, pc>> /\ pc = "attributes"
        /\ attr' = attr + 1 /\ ~ Labelled(Attrs[attr])
    BY <1>2, BodyClass, LenProperties
    DEF SkipAttribute, metadata, output, TypedLoop, TypeOK, Body
  <2> QED
    BY <2>1 DEF ShownInv, ShownAt, Printed, Attrs, Class
<1>3. CASE AttributesDone
  <2>1. \A i \in DOMAIN Attrs : i < attr
    BY <1>3, BodyClass, LenProperties DEF AttributesDone, TypedLoop, TypeOK, Body
  <2> QED
    BY <1>3, <2>1 DEF AttributesDone, ShownInv, ShownAt, Printed, metadata,
       output, Attrs, Class
<1>4. CASE NewObject \/ NewObjectFails
  <2>1. \A i \in DOMAIN Attrs : ~ (i < 1)
    BY <1>4, BodyClass, LenProperties
    DEF NewObject, NewObjectFails, TypedLoop, Body
  <2>2. /\ UNCHANGED <<shown, table, classes, pos>>
        /\ pc' = "attributes" /\ attr' = 1
    BY ONLY <1>4 DEF NewObject, NewObjectFails, ListAttributes, metadata
  <2> QED
    BY ONLY <2>1, <2>2, ShownInv DEF ShownInv, ShownAt, Printed, Attrs, Class
<1>5. CASE GetAssemblyClassList
  BY <1>5 DEF GetAssemblyClassList, ShownInv, Printed, output
<1>6. CASE /\ UNCHANGED <<shown, table, classes>>
           /\ pc' \notin {"loadClasses", "classList", "attributes", "init", "describe", "update"}
  BY <1>6 DEF ShownInv, Printed
<1>7. CASE /\ UNCHANGED <<shown, table, classes, pos, attr>>
           /\ \/ pc' = pc
              \/ pc' \in {"describe", "update"} /\ pc \in {"init", "describe"}
              \/ pc' = "classList" /\ pc = "loadClasses"
  BY <1>7 DEF ShownInv, ShownAt, Printed, Attrs, Class
<1> QED
  BY <1>1, <1>2, <1>3, <1>4, <1>5, <1>6, <1>7
  DEF Next, Step, NativeStep, ManagedStep, RuntimeStep, Terminated, vars,
      metadata, output, Crash, FindBaseScript, NullImage, NullClass, SkipClass,
      EnterClass, Subclass, Return, AttributeFault, NullObject, NoConstructor,
      ObjectInit, Describe, NoUpdate, InvokeUpdate, NextIteration, Collect,
      Finalize

THEOREM ShownInvariant == Spec => []ShownInv
<1>1. Init => ShownInv
  BY DEF Init, InitLocals, ShownInv
<1> QED
  BY <1>1, ShownStep, TypedLoopInvariant, PTL DEF Spec

(* No script is constructed before all menu and editor attributes of its   *)
(* class were printed, for every list of attributes.                       *)
THEOREM AttributesFirst == Spec => []AttributesShownFirst
<1>1. ShownInv => AttributesShownFirst
  BY DEF ShownInv, ShownAt, AttributesShownFirst
<1> QED
  BY <1>1, ShownInvariant, PTL

(* Every value printed belongs to its attribute, for every hierarchy of    *)
(* attribute classes, where no other attribute can be taken for it.        *)
THEOREM ValuesAreOwn == Spec => []ShownValuesAreOwn
<1>1. ShownInv => ShownValuesAreOwn
  BY GetAttrType DEF ShownInv, Printed, ShownValuesAreOwn
<1> QED
  BY <1>1, ShownInvariant, PTL

-----------------------------------------------------------------------------
(* What the pass leaks.                                                    *)

(* Nothing was printed or listed of a position the pass has not reached;   *)
(* of the one it is at, only what the loop body has come past.             *)
LeakInv ==
  /\ \A n \in DOMAIN shown :
       /\ shown[n].pos <= pos
       /\ pc \in {"nextClass", "newObject"} => shown[n].pos # pos
       /\ pc = "attributes" /\ shown[n].pos = pos => shown[n].attr < attr
  /\ \A m, n \in DOMAIN shown :
       shown[m].pos = shown[n].pos /\ shown[m].attr = shown[n].attr => m = n
  /\ \A n \in DOMAIN listed :
       /\ listed[n].pos <= pos
       /\ listed[n].pos \in 1..Len(table)
       /\ classes[listed[n].pos] = ClassList(table)[listed[n].pos]
       /\ classes[listed[n].pos] \in Scripts(table)
       /\ pc \in {"nextClass", "newObject"} => listed[n].pos # pos
       /\ pc \in {"attributes", "init", "describe"} /\ listed[n].pos = pos
            => listed[n].what = "attributes"
  /\ \A m, n \in DOMAIN listed :
       listed[m].pos = listed[n].pos /\ listed[m].what = listed[n].what => m = n

(* A list of what was not listed of this position yet.                     *)
LEMMA ListLeaks ==
  ASSUME TypedLoop, LeakInv, NEW what \in {"attributes", "fields"}, List(what),
         pc \in Body, UNCHANGED <<table, classes, pos, shown>>,
         \A n \in DOMAIN listed : listed[n].pos = pos => listed[n].what # what,
         \/ pc = "newObject" /\ pc' = "attributes" /\ what = "attributes"
         \/ pc = "describe" /\ pc' = "update"
  PROVE  LeakInv'
<1>1. PICK e \in Listing :
        /\ listed' = Append(listed, e) /\ e.what = what /\ e.pos = pos
  <2>1. [what |-> what, pos |-> pos] \in Listing
    BY DEF Listing, TypedLoop, TypeOK
  <2> QED
    BY <2>1 DEF List
<1>2. /\ pos \in 1..Len(table) /\ pos \in Nat
      /\ classes[pos] = ClassList(table)[pos] /\ classes[pos] \in Scripts(table)
  BY BodyClass DEF TypedLoop, TypeOK, LoopInv, Body, Class
<1>3. /\ \A n \in DOMAIN listed : n \in DOMAIN listed' /\ listed'[n] = listed[n]
      /\ \A m, n \in DOMAIN listed' :
           m \notin DOMAIN listed /\ n \notin DOMAIN listed => m = n
      /\ \A n \in DOMAIN listed' : n \in DOMAIN listed \/ listed'[n] = e
  BY <1>1, Appended DEF TypedLoop, TypeOK
<1>4. /\ \A n \in DOMAIN shown' :
           /\ shown'[n].pos <= pos'
           /\ pc' \notin {"nextClass", "newObject"}
           /\ pc' = "attributes" => shown'[n].pos # pos'
      /\ \A m, n \in DOMAIN shown' :
           shown'[m].pos = shown'[n].pos /\ shown'[m].attr = shown'[n].attr => m = n
  BY DEF LeakInv
<1>5. \A n \in DOMAIN listed' :
        /\ listed'[n].pos <= pos
        /\ listed'[n].pos \in 1..Len(table)
        /\ classes[listed'[n].pos] = ClassList(table)[listed'[n].pos]
        /\ classes[listed'[n].pos] \in Scripts(table)
        /\ pc' = "attributes" /\ listed'[n].pos = pos => listed'[n].what = "attributes"
  BY <1>1, <1>2, <1>3 DEF LeakInv
<1>6. \A m, n \in DOMAIN listed' :
        listed'[m].pos = listed'[n].pos /\ listed'[m].what = listed'[n].what => m = n
  BY <1>1, <1>3 DEF LeakInv
<1> QED
  BY <1>4, <1>5, <1>6 DEF LeakInv

(* A step that prints and lists nothing and stays in the body or leaves it *)
(* for the next position.                                                  *)
LEMMA SameLeaks ==
  ASSUME TypedLoop, LeakInv, UNCHANGED <<output, table, classes>>,
         \/ /\ pos' = pos + 1 /\ pc' = "nextClass"
         \/ /\ pos' = pos /\ attr' = attr
            /\ \/ pc' \in {pc, "returned", "crashed"}
               \/ pc = "nextClass" /\ pc' = "newObject"
               \/ pc = "attributes" /\ pc' = "init"
               \/ pc = "init" /\ pc' = "describe"
  PROVE  LeakInv'
<1>1. /\ \A n \in DOMAIN shown : shown[n].pos \in Nat
      /\ \A n \in DOMAIN listed : listed[n].pos \in Nat
      /\ pos \in Nat
  <2>1. /\ \A n \in DOMAIN shown : shown[n] \in Shown
        /\ \A n \in DOMAIN listed : listed[n] \in Listing
    BY ElementOfSeq, LenProperties DEF TypedLoop, TypeOK
  <2> QED
    BY <2>1 DEF Shown, Listing, TypedLoop, TypeOK
<1>2. UNCHANGED <<shown, listed>>
  BY DEF output
<1> QED
  BY <1>1, <1>2 DEF LeakInv

LEMMA LeakStep == TypedLoop /\ LeakInv /\ [Next]_vars => LeakInv'
<1> SUFFICES ASSUME TypedLoop, LeakInv, [Next]_vars
             PROVE  LeakInv'
  OBVIOUS
<1>1. CASE ShowAttribute
  <2>1. PICK e \in Shown :
          shown' = Append(shown, e) /\ e.pos = pos /\ e.attr = attr
    BY <1>1, ShowFacts
  <2>2. /\ pc = "attributes" /\ pc' = pc /\ attr' = attr + 1
        /\ UNCHANGED <<table, classes, pos, listed>>
        /\ attr \in Nat /\ pos \in Nat
    BY <1>1 DEF ShowAttribute, metadata, TypedLoop, TypeOK
  <2>3. /\ \A n \in DOMAIN shown : n \in DOMAIN shown' /\ shown'[n] = shown[n]
        /\ \A m, n \in DOMAIN shown' :
             m \notin DOMAIN shown /\ n \notin DOMAIN shown => m = n
        /\ \A n \in DOMAIN shown' : n \in DOMAIN shown \/ shown'[n] = e
    BY <2>1, Appended DEF TypedLoop, TypeOK
  <2>4. \A n \in DOMAIN shown : shown[n].attr \in Nat
    <3>1. \A n \in DOMAIN shown : shown[n] \in Shown
      BY ElementOfSeq, LenProperties DEF TypedLoop, TypeOK
    <3> QED
      BY <3>1 DEF Shown
  <2>5. \A n \in DOMAIN shown : shown[n].pos = pos => shown[n].attr < attr
    BY <2>2 DEF LeakInv
  <2>6. \A n \in DOMAIN shown' :
          /\ shown'[n].pos <= pos
          /\ shown'[n].pos = pos => shown'[n].attr < attr + 1
    BY <2>1, <2>2, <2>3, <2>4, <2>5 DEF LeakInv
  <2>7. \A m, n \in DOMAIN shown' :
          shown'[m].pos = shown'[n].pos /\ shown'[m].attr = shown'[n].attr => m = n
    BY <2>1, <2>2, <2>3, <2>4, <2>5 DEF LeakInv
  <2> QED
    BY <2>2, <2>6, <2>7 DEF LeakInv
<1>2. CASE SkipAttribute
  <2>1. \A n \in DOMAIN shown : shown[n].attr \in Nat
    <3>1. \A n \in DOMAIN shown : shown[n] \in Shown
      BY ElementOfSeq, LenProperties DEF TypedLoop, TypeOK
    <3> QED
      BY <3>1 DEF Shown
  <2> QED
    BY <1>2, <2>1 DEF SkipAttribute, LeakInv, metadata, output, TypedLoop, TypeOK
<1>3. CASE NewObject \/ NewObjectFails
  <2>1. /\ ListAttributes /\ pc = "newObject"
        /\ UNCHANGED <<table, classes, pos, shown>>
    BY <1>3 DEF NewObject, NewObjectFails, metadata
  <2>2. \A n \in DOMAIN listed : listed[n].pos # pos
    BY <2>1 DEF LeakInv
  <2>3. CASE Attrs # <<>>
    BY <2>1, <2>2, <2>3, ListLeaks DEF ListAttributes, Body
  <2>4. CASE Attrs = <<>>
    BY <2>1, <2>2, <2>4 DEF ListAttributes, LeakInv
  <2> QED
    BY <2>3, <2>4
<1>4. CASE Describe
  <2>1. \A n \in DOMAIN listed : listed[n].pos = pos => listed[n].what # "fields"
    BY <1>4 DEF Describe, LeakInv
  <2> QED
    BY <1>4, <2>1, ListLeaks DEF Describe, metadata, Body
<1>5. CASE FindBaseScript \/ GetAssemblyClassList
  <2>1. shown = <<>> /\ listed = <<>>
    BY <1>5 DEF FindBaseScript, GetAssemblyClassList, TypedLoop, LoopInv, output
  <2> QED
    BY <1>5, <2>1 DEF FindBaseScript, GetAssemblyClassList, output, LeakInv
<1>6. CASE SkipClass \/ EnterClass \/ Return
  BY <1>6, SameLeaks DEF SkipClass, EnterClass, Subclass, Return, metadata
<1>7. CASE AttributesDone \/ ObjectInit \/ NoUpdate \/ InvokeUpdate
  BY <1>7, SameLeaks DEF AttributesDone, ObjectInit, NoUpdate, InvokeUpdate,
     NextIteration, metadata
<1>8. CASE NullImage \/ NullClass \/ AttributeFault \/ NullObject \/ NoConstructor
  BY <1>8, SameLeaks DEF NullImage, NullClass, AttributeFault, NullObject,
     NoConstructor, Crash, metadata
<1>9. CASE RuntimeStep \/ UNCHANGED vars
  BY <1>9, SameLeaks DEF RuntimeStep, Collect, Finalize, vars, metadata, output
<1> QED
  BY <1>1, <1>2, <1>3, <1>4, <1>5, <1>6, <1>7, <1>8, <1>9
  DEF Next, Step, NativeStep, ManagedStep, Terminated

THEOREM LeakInvariant == Spec => []LeakInv
<1>1. Init => LeakInv
  BY DEF Init, InitLocals, LeakInv
<1> QED
  BY <1>1, LeakStep, TypedLoopInvariant, PTL DEF Spec

LEMMA LeaksOnce == TypedLoop /\ ShownInv /\ LeakInv => LeakedOnce
<1> SUFFICES ASSUME TypedLoop, ShownInv, LeakInv, NoShadow(table)
             PROVE  /\ \A m, n \in DOMAIN shown :
                         /\ classes[shown[m].pos] = classes[shown[n].pos]
                         /\ shown[m].attr = shown[n].attr
                         => m = n
                    /\ \A m, n \in DOMAIN listed :
                         /\ classes[listed[m].pos] = classes[listed[n].pos]
                         /\ listed[m].what = listed[n].what
                         => m = n
  BY DEF LeakedOnce
<1>1. table \in Seq(TypeDef) /\ WellFormed(table)
  BY TableType DEF TypedLoop, LoopInv
<1>2. \A p \in 1..Len(table) :
        classes[p] = ClassList(table)[p] /\ classes[p] \in Scripts(table)
          => classes[p] = p
  BY <1>1, ScriptAtItsRow
<1>3. /\ \A n \in DOMAIN shown : classes[shown[n].pos] = shown[n].pos
      /\ \A n \in DOMAIN listed : classes[listed[n].pos] = listed[n].pos
  BY <1>2 DEF ShownInv, Printed, LeakInv
<1> QED
  BY <1>3 DEF LeakInv

(* What the pass leaks is made once for each script and attribute of the   *)
(* metadata, for every assembly without shadowing and every attribute list,*)
(* however the pass ends.                                                  *)
THEOREM LeaksBounded == Spec => []LeakedOnce
BY LeaksOnce, TypedLoopInvariant, ShownInvariant, LeakInvariant, PTL

(* After a failed instance creation nothing of the game runs but the       *)
(* constructors of that class's menu and editor attributes, each once more *)
(* at most, for every attribute list and every interleaving.               *)
THEOREM OnlyAttributesRun == Spec => OnlyAttributesAfterClose
<1> DEFINE Fresh == \A n \in DOMAIN shown' \ DOMAIN shown :
                      /\ shown'[n].pos = pos
                      /\ Labelled(Attrs[shown'[n].attr])
                      /\ \A m \in DOMAIN shown :
                           shown[m].pos = pos => shown[m].attr # shown'[n].attr
           Silent == /\ UNCHANGED <<calls, pos, imageRefs>> /\ Len(heap') = Len(heap)
                     /\ pc' # "returned"
<1>1. ASSUME TypedLoop, RefInv, LeakInv, [Next]_vars, imageRefs < app.assembly
      PROVE  Silent /\ Fresh
  <2>1. object = nullptr /\ pc \in {"attributes", "init", "crashed"}
    BY <1>1 DEF RefInv, TypedLoop, TypeOK, ScriptAssembly, nullptr
  <2>2. CASE RuntimeStep
    <3>1. PICK o \in DOMAIN heap : Collect(o) \/ Finalize(o)
      BY <2>2 DEF RuntimeStep
    <3>2. DOMAIN heap' = DOMAIN heap /\ UNCHANGED <<calls, pos, imageRefs, pc, shown>>
      BY <3>1 DEF Collect, Finalize, output
    <3>3. heap' \in Seq(Object) /\ heap \in Seq(Object)
      BY <1>1, TypedLoopStep DEF TypedLoop, TypeOK
    <3> QED
      BY <2>1, <3>2, <3>3, LenProperties
  <2>3. CASE ShowAttribute
    <3>1. PICK e \in Shown :
            /\ shown' = Append(shown, e)
            /\ e.pos = pos /\ e.attr = attr /\ Labelled(Attrs[attr])
      BY <1>1, <2>3, ShowFacts
    <3>2. \A n \in DOMAIN shown' \ DOMAIN shown : shown'[n] = e
      BY <1>1, <3>1, Appended DEF TypedLoop, TypeOK
    <3>3. \A m \in DOMAIN shown : shown[m].pos = pos => shown[m].attr # attr
      <4>1. \A m \in DOMAIN shown : shown[m] \in Shown
        BY <1>1, ElementOfSeq, LenProperties DEF TypedLoop, TypeOK
      <4>2. attr \in Nat /\ \A m \in DOMAIN shown : shown[m].attr \in Nat
        BY <1>1, <4>1 DEF Shown, TypedLoop, TypeOK
      <4> QED
        BY <1>1, <2>3, <4>2 DEF LeakInv, ShowAttribute
    <3>4. Fresh
      BY <3>1, <3>2, <3>3
    <3>5. Silent
      BY <2>3 DEF ShowAttribute
    <3> QED
      BY <3>4, <3>5
  <2>4. CASE ~ RuntimeStep /\ ~ ShowAttribute
    <3>1. Silent /\ UNCHANGED shown
      BY <1>1, <2>1, <2>4
      DEF Next, Step, NativeStep, ManagedStep, Terminated, vars, output, Crash,
          FindBaseScript, GetAssemblyClassList, NullImage, NullClass, SkipClass,
          EnterClass, Subclass, Return, NewObject, NewObjectFails,
          SkipAttribute, AttributeFault, AttributesDone, NullObject,
          NoConstructor, ObjectInit, Describe, NoUpdate, InvokeUpdate
    <3> QED
      BY <3>1
  <2> QED
    BY <2>2, <2>3, <2>4
<1>2. TypedLoop /\ RefInv /\ LeakInv /\ [Next]_vars
        => [imageRefs < app.assembly => Silent /\ Fresh]_vars
  BY <1>1
<1> QED
  BY <1>2, TypedLoopInvariant, RefInvariant, LeakInvariant, PTL
  DEF Spec, OnlyAttributesAfterClose

-----------------------------------------------------------------------------
(* Objects and calls.                                                      *)

(* Every object made has been called, but the one whose constructor is to  *)
(* come; that one no call knows.                                           *)
FreshInv ==
  /\ \A n \in DOMAIN calls : calls[n].this <= Len(heap)
  /\ pc \in {"attributes", "init"} /\ object # nullptr =>
       /\ object = Len(heap)
       /\ \A n \in DOMAIN calls : calls[n].this < object
       /\ Len(heap) <= Len(calls) + 1
  /\ ~ (pc \in {"attributes", "init", "crashed"}) => Len(heap) <= Len(calls)
  /\ object <= Len(heap)

LEMMA FreshStep == TypedLoop /\ FreshInv /\ [Next]_vars => FreshInv'
<1> SUFFICES ASSUME TypedLoop, FreshInv, [Next]_vars PROVE FreshInv'
  OBVIOUS
<1> USE DEF FreshInv, TypedLoop, nullptr
<1>1. /\ Len(calls) \in Nat /\ Len(heap) \in Nat
      /\ DOMAIN calls = 1..Len(calls) /\ object \in Nat
      /\ \A n \in DOMAIN calls : calls[n].this \in Nat
  <2>1. /\ calls \in Seq(Call) /\ heap \in Seq(Object)
        /\ Len(calls) \in Nat /\ Len(heap) \in Nat
        /\ DOMAIN calls = 1..Len(calls) /\ object \in Nat
    BY LenProperties DEF TypeOK
  <2>2. \A n \in 1..Len(calls) : calls[n] \in Call
    BY <2>1, ElementOfSeq
  <2> QED
    BY <2>1, <2>2 DEF Call
<1>2. CASE NewObject
  <2>1. [class |-> Class, gc |-> "live"] \in Object
    BY <1>2, BodyClass DEF NewObject, Object, Body
  <2>2. Len(heap') = Len(heap) + 1 /\ object' = Len(heap) + 1
    BY <1>2, <2>1, AppendProperties DEF NewObject, TypeOK
  <2> QED
    BY <1>1, <1>2, <2>2 DEF NewObject, ListAttributes
<1>3. CASE NewObjectFails
  BY <1>1, <1>3 DEF NewObjectFails, ListAttributes
<1>4. CASE ObjectInit \/ InvokeUpdate
  <2>1. PICK call \in Call : calls' = Append(calls, call) /\ call.this = object
    <3>1. CASE ObjectInit
      <4> DEFINE call == [method |-> ".ctor", class |-> Class, this |-> object]
      <4>1. call \in Call
        BY <3>1, BodyClass DEF ObjectInit, Call, TypeOK, Body
      <4> QED BY <3>1, <4>1 DEF ObjectInit
    <3>2. CASE InvokeUpdate
      <4> DEFINE call == [method |-> "OnUpdate", class |-> Class, this |-> object]
      <4>1. call \in Call
        BY <3>2, BodyClass DEF InvokeUpdate, Call, TypeOK, Body
      <4> QED BY <3>2, <4>1 DEF InvokeUpdate
    <3> QED BY <1>4, <3>1, <3>2
  <2>2. /\ Len(calls') = Len(calls) + 1 /\ DOMAIN calls' = 1..(Len(calls) + 1)
        /\ \A n \in 1..Len(calls) : calls'[n] = calls[n]
        /\ calls'[Len(calls) + 1].this = object
    BY <2>1, AppendProperties, LenProperties DEF TypeOK
  <2>3. \A n \in DOMAIN calls' : calls'[n].this <= Len(heap)
    BY <1>1, <2>2
  <2>4. heap' = heap /\ object' \in {object, 0} /\ pc' \notin {"attributes", "init"}
    BY <1>4 DEF ObjectInit, InvokeUpdate, NextIteration
  <2>5. Len(heap) <= Len(calls) + 1
    BY <1>1, <1>4 DEF ObjectInit, InvokeUpdate
  <2> QED
    BY <1>1, <2>2, <2>3, <2>4, <2>5
<1>5. CASE RuntimeStep
  <2>1. Len(heap') = Len(heap)
    <3>1. PICK o \in DOMAIN heap : Collect(o) \/ Finalize(o)
      BY <1>5 DEF RuntimeStep
    <3>2. DOMAIN heap' = DOMAIN heap
      BY <3>1 DEF Collect, Finalize
    <3>3. heap \in Seq(Object) /\ heap' \in Seq(Object)
      BY TypedLoopStep DEF TypeOK
    <3> QED BY <3>2, <3>3, LenProperties
  <2> QED
    BY <1>5, <2>1 DEF RuntimeStep, Collect, Finalize
<1>6. CASE /\ UNCHANGED <<calls, heap>> /\ object' \in {object, 0}
           /\ pc' \in {"attributes", "init"} => pc \in {"attributes", "init"} /\ object' = object
           /\ pc \in {"attributes", "init", "crashed"} => pc' \in {"attributes", "init", "crashed"}
  BY <1>1, <1>6
<1> QED
  BY <1>2, <1>3, <1>4, <1>5, <1>6
  DEF Next, Step, NativeStep, ManagedStep, Terminated, vars, Crash,
      FindBaseScript, GetAssemblyClassList, NullImage, NullClass, SkipClass,
      EnterClass, Subclass, Return, SkipAttribute, ShowAttribute,
      AttributeFault, AttributesDone, NullObject, NoConstructor, Describe, NoUpdate,
      NextIteration

THEOREM FreshInvariant == Spec => []FreshInv
<1>1. Init => FreshInv
  BY LenProperties, EmptySeq DEF Init, InitLocals, FreshInv, nullptr
<1> QED
  BY <1>1, FreshStep, TypedLoopInvariant, PTL DEF Spec

-----------------------------------------------------------------------------
(* The simulation.                                                         *)

SimInv == TypedLoop /\ OnceInv /\ ServedInv /\ FreshInv /\ NoShadow(table)

(* The contract and the loader read the table alike.                       *)
LEMMA SameScripts == Contract!Scripts(table) = Scripts(table)
BY DEF Contract!Scripts, Contract!TopLevel, Scripts, TopLevel

LEMMA ServedMeans ==
  ASSUME NEW c, NEW o, ServedOn(c, o)
  PROVE  Contract!Served(c)
BY DEF ServedOn, Made, Contract!Served, Contract!Called

(* Row d of a script that lies before pos has been served.                 *)
LEMMA ScriptsBefore ==
  ASSUME SimInv, pc \in Body \cup {"nextClass"}, NEW d \in Scripts(table), d < pos
  PROVE  Contract!Served(d)
<1>1. /\ table \in Seq(TypeDef) /\ WellFormed(table) /\ classes = ClassList(table)
      /\ pos \in Nat
  BY TableType DEF SimInv, TypedLoop, LoopInv, TypeOK
<1>2. d \in 1..Len(table) /\ classes[d] = d
  BY <1>1, TopLevelRows, TopLevelResolves DEF Scripts
<1>3. d \in 1..(pos - 1)
  BY <1>1, <1>2
<1>4. \E o \in Nat : ServedOn(d, o)
  BY <1>2, <1>3 DEF SimInv, ServedInv
<1> QED
  BY <1>4, ServedMeans

LEMMA ConstructStep ==
  ASSUME SimInv, ObjectInit
  PROVE  Contract!Serve
<1>1. /\ pc = "init" /\ Class = pos /\ Class \in Scripts(table)
      /\ object \in Nat \ {0} /\ Len(calls) \in Nat
  BY BodyClass, BodyRow, LenProperties
  DEF ObjectInit, SimInv, TypedLoop, TypeOK, Body, nullptr
<1>2. ~ Contract!Called(".ctor", Class)
  BY <1>1 DEF Contract!Called, SimInv, OnceInv
<1>3. \A d \in Scripts(table) : d < Class => Contract!Served(d)
  BY <1>1, ScriptsBefore DEF Body
<1>4. Contract!Fresh(object) /\ object \in 1..(Len(calls) + 1)
  <2>1. /\ object = Len(heap) /\ Len(heap) <= Len(calls) + 1
        /\ \A n \in DOMAIN calls : calls[n].this < object
    BY <1>1 DEF SimInv, FreshInv, nullptr
  <2> QED
    BY <1>1, <2>1 DEF Contract!Fresh
<1>5. Contract!Construct(Class, object)
  BY <1>2, <1>3, <1>4, SameScripts DEF ObjectInit, Contract!Construct
<1>6. status = "running" /\ status' \in {"running", "failed"} /\ table' = table
  BY DEF ObjectInit, status, metadata
<1> QED
  BY <1>1, <1>4, <1>5, <1>6, SameScripts DEF Contract!Serve

LEMMA UpdateStep ==
  ASSUME SimInv, InvokeUpdate
  PROVE  Contract!Serve
<1>1. /\ pc = "update" /\ Class = pos /\ Class \in Scripts(table)
      /\ calls \in Seq(Call)
  BY BodyClass, BodyRow DEF InvokeUpdate, SimInv, TypedLoop, TypeOK, Body
<1>2. ~ Contract!Called("OnUpdate", Class)
  BY <1>1 DEF Contract!Called, SimInv, OnceInv
<1>3. PICK n \in DOMAIN calls :
        calls[n].method = ".ctor" /\ calls[n].class = Class /\ calls[n].this = object
  BY <1>1 DEF SimInv, ServedInv, Made
<1>4. [calls[n] EXCEPT !.method = "OnUpdate"]
        = [method |-> "OnUpdate", class |-> Class, this |-> object]
  <2>1. calls[n] \in Call
    BY <1>1, <1>3, ElementOfSeq, LenProperties
  <2> QED
    BY <1>3, <2>1 DEF Call
<1>5. Contract!Update(Class)
  BY <1>2, <1>3, <1>4 DEF InvokeUpdate, Contract!Update
<1>6. status = "running" /\ status' \in {"running", "failed"} /\ table' = table
  BY DEF InvokeUpdate, NextIteration, status, metadata
<1> QED
  BY <1>1, <1>5, <1>6, SameScripts DEF Contract!Serve

LEMMA ReturnStep ==
  ASSUME SimInv, Return
  PROVE  Contract!Return
<1>1. /\ pc = "nextClass" /\ pos > Len(table)
      /\ Len(table) \in Nat /\ pos \in Nat /\ table \in Seq(TypeDef)
  BY ClassListType, LenProperties DEF Return, SimInv, TypedLoop, TypeOK, LoopInv, Body
<1>2. \A c \in Scripts(table) : c \in 1..Len(table)
  BY <1>1, TopLevelRows DEF Scripts
<1>3. \A c \in Scripts(table) : Contract!Served(c)
  BY <1>1, <1>2, ScriptsBefore
<1>4. status = "running" /\ status' = "returned" /\ UNCHANGED <<table, calls>>
  BY DEF Return, status, metadata
<1> QED
  BY <1>3, <1>4, SameScripts DEF Contract!Return

LEMMA SimulationStep == SimInv /\ [Next]_vars => [Contract!Next]_(Contract!vars)
<1> SUFFICES ASSUME SimInv, [Next]_vars
             PROVE  Contract!Next \/ UNCHANGED Contract!vars
  BY DEF Contract!vars
<1>1. CASE ObjectInit \/ InvokeUpdate
  BY <1>1, ConstructStep, UpdateStep DEF Contract!Next
<1>2. CASE Return
  BY <1>2, ReturnStep DEF Contract!Next
<1>3. CASE NullImage \/ NullClass \/ AttributeFault \/ NullObject \/ NoConstructor
  BY <1>3 DEF NullImage, NullClass, AttributeFault, NullObject, NoConstructor, Crash, metadata,
     status, Contract!Next, Contract!Fail
<1>4. CASE UNCHANGED <<table, calls>> /\ status' = status
  BY <1>4 DEF Contract!vars
<1>5. CASE FindBaseScript \/ GetAssemblyClassList \/ SkipClass \/ EnterClass
             \/ NewObject \/ NewObjectFails
  BY <1>4, <1>5 DEF FindBaseScript, GetAssemblyClassList, SkipClass, EnterClass,
     Subclass, NewObject, NewObjectFails, ListAttributes, metadata, status
<1>6. CASE SkipAttribute \/ ShowAttribute \/ AttributesDone \/ Describe \/ NoUpdate
  BY <1>4, <1>6 DEF SkipAttribute, ShowAttribute, AttributesDone, Describe,
     NoUpdate, NextIteration, metadata, status
<1>7. CASE RuntimeStep \/ UNCHANGED vars
  BY <1>4, <1>7 DEF RuntimeStep, Collect, Finalize, vars, metadata, status
<1> QED
  BY <1>1, <1>2, <1>3, <1>5, <1>6, <1>7
  DEF Next, Step, NativeStep, ManagedStep, Terminated

(* The loader implements the contract for every assembly in which no nested*)
(* type bears the name of a global script.                                 *)
THEOREM LoaderImplementsContract == Spec => ContractSpec
<1> DEFINE Inv == TypedLoop /\ OnceInv /\ ServedInv /\ FreshInv
<1>1. Init => Contract!Init
  BY DEF Init, InitLocals, Contract!Init, status
<1>2. Spec => []Inv
  <2>1. Init => OnceInv
    BY DEF Init, InitLocals, OnceInv, Distinct
  <2>2. Spec => []OnceInv
    BY <2>1, OnceStep, TypedLoopInvariant, PTL DEF Spec
  <2> QED
    BY <2>2, TypedLoopInvariant, ServedInvariant, FreshInvariant, PTL
<1>3. Inv /\ [Next]_vars => [NoShadow(table) => Contract!Next]_(Contract!vars)
  <2> SUFFICES ASSUME Inv, [Next]_vars, NoShadow(table)
               PROVE  [Contract!Next]_(Contract!vars)
    OBVIOUS
  <2>1. SimInv
    BY DEF SimInv
  <2> QED
    BY <2>1, SimulationStep
<1> QED
  BY <1>1, <1>2, <1>3, PTL DEF Spec, ContractSpec

-----------------------------------------------------------------------------
(* The startup before it.                                                  *)

StartupPcs == {"jitInit", "domainSet", "setMain", "register", "openCore",
               "imageCore", "openApp", "imageApp"}

Unloaded == [assembly |-> nullptr, image |-> nullptr]

Opened == {[assembly |-> 1, image |-> i] : i \in {nullptr, 1}}

(* During the startup: the locals of loadClasses are fresh, an assembly is *)
(* untouched until its step, and an image is only asked for of an assembly *)
(* that was opened.                                                        *)
StartupInv ==
  /\ InitLocals
  /\ pc \in StartupPcs \ {"imageApp"} => app = Unloaded
  /\ pc = "imageApp" => app.assembly = 1
  /\ pc \in {"jitInit", "domainSet", "setMain", "register", "openCore"} =>
       core = Unloaded
  /\ pc = "imageCore" => core.assembly = 1
  /\ pc \in {"imageCore", "imageApp"} => domain # nullptr

(* Once loadClasses runs: past a point that would have crashed on a null   *)
(* pointer, that pointer is not null; script objects and calls only exist  *)
(* past all of them.                                                       *)
LoadedInv ==
  /\ pc \in Body \cup {"loadClasses", "classList", "nextClass", "returned"} =>
       domain # nullptr
  /\ pc \in Body \cup {"classList", "nextClass", "returned"} =>
       core.image # nullptr
  /\ pc \in Body \cup {"nextClass", "returned"} => app.image # nullptr
  /\ calls # <<>> \/ heap # <<>> \/ shown # <<>> =>
       domain # nullptr /\ core.image # nullptr /\ app.image # nullptr

HostInv ==
  /\ core \in {Unloaded} \cup Opened
  /\ app \in {Unloaded} \cup Opened
  /\ domain \in {nullptr, 1}
  /\ imageRefs = app.assembly \/ pc \notin StartupPcs
  /\ pc \in StartupPcs => StartupInv
  /\ pc \notin StartupPcs => TypedLoop /\ RefInv
  /\ LoadedInv
  /\ LoaderStart

LEMMA HostInitInv == HostInit => HostInv
<1> SUFFICES ASSUME HostInit PROVE HostInv
  OBVIOUS
<1> USE DEF HostInit, Startup!Init, Startup!NewScriptAssembly,
            Startup!nullptr, nullptr, InitLocals, Unloaded
<1>1. pc = "jitInit" /\ domain = 0 /\ imageRefs = 0
  OBVIOUS
<1>2. core = Unloaded /\ app = Unloaded
  OBVIOUS
<1>3. StartupInv /\ LoadedInv /\ LoaderStart
  BY <1>1, <1>2 DEF StartupInv, LoadedInv, LoaderStart, Body, StartupPcs
<1> QED
  BY <1>1, <1>2, <1>3 DEF HostInv, StartupPcs

(* A state in which the locals are fresh and the assemblies are as the     *)
(* startup leaves them is one the loader's invariants admit.               *)
FreshState ==
  /\ InitLocals
  /\ pc \in {"loadClasses", "crashed"}
  /\ core \in {Unloaded} \cup Opened
  /\ app \in {Unloaded} \cup Opened
  /\ imageRefs = app.assembly

LEMMA FreshLoader ==
  FreshState => TypedLoop /\ RefInv /\ LoaderStart
<1> SUFFICES ASSUME FreshState PROVE TypedLoop /\ RefInv /\ LoaderStart
  OBVIOUS
<1> USE DEF FreshState, LoaderStart
<1> USE DEF Unloaded, Opened, nullptr
<1>1. core \in ScriptAssembly /\ app \in ScriptAssembly
  BY DEF ScriptAssembly
<1>2. /\ core.assembly = nullptr => core.image = nullptr
      /\ app.assembly = nullptr => app.image = nullptr
  OBVIOUS
<1>3. table \in Seq(TypeDef)
  BY TablesAssumption DEF InitLocals
<1>4. TypeOK
  BY <1>1, <1>3 DEF TypeOK, InitLocals, ScriptAssembly
<1>5. LoopInv
  BY DEF LoopInv, InitLocals, Body, output
<1>6. RefInv
  BY <1>2 DEF RefInv, Body
<1> QED
  BY <1>1, <1>2, <1>4, <1>5, <1>6 DEF TypedLoop, Init

LEMMA StartupStep ==
  ASSUME HostInv, Startup!Next, UNCHANGED locals
  PROVE  HostInv'
<1> USE DEF nullptr, Startup!nullptr, Unloaded, Opened
<1>1. pc \in StartupPcs /\ StartupInv /\ imageRefs = app.assembly
  BY DEF Startup!Next, Startup!JitInit, Startup!DomainSet, Startup!SetMain,
     Startup!RegisterCallbacks, Startup!NullDomain, Startup!OpenCore,
     Startup!ImageCore, Startup!OpenApp, Startup!ImageApp, StartupPcs, HostInv
<1>2. /\ InitLocals'
      /\ calls' = <<>> /\ heap' = <<>> /\ shown' = <<>>
  BY <1>1 DEF StartupInv, InitLocals, locals, metadata, output
<1>3. /\ core' \in {Unloaded} \cup Opened
      /\ app' \in {Unloaded} \cup Opened
      /\ domain' \in {nullptr, 1}
      /\ imageRefs' = app'.assembly
      /\ pc' \in StartupPcs \cup {"loadClasses", "crashed"}
      /\ pc' \in StartupPcs \ {"imageApp"} => app' = Unloaded
      /\ pc' = "imageApp" => app'.assembly = 1
      /\ pc' \in {"jitInit", "domainSet", "setMain", "register", "openCore"} =>
           core' = Unloaded
      /\ pc' = "imageCore" => core'.assembly = 1
      /\ pc' \in {"imageCore", "imageApp", "loadClasses"} => domain' # nullptr
  <2> USE <1>1 DEF HostInv, StartupInv, StartupPcs, Startup!runtime, Startup!assemblies
  <2>1. CASE Startup!JitInit \/ Startup!DomainSet \/ Startup!SetMain
               \/ Startup!RegisterCallbacks \/ Startup!NullDomain
    BY <2>1 DEF Startup!JitInit, Startup!DomainSet, Startup!SetMain,
       Startup!RegisterCallbacks, Startup!NullDomain
  <2>2. CASE Startup!OpenCore
    BY <2>2 DEF Startup!OpenCore
  <2>3. CASE Startup!ImageCore
    BY <2>3 DEF Startup!ImageCore
  <2>4. CASE Startup!OpenApp
    BY <2>4 DEF Startup!OpenApp
  <2>5. CASE Startup!ImageApp
    BY <2>5 DEF Startup!ImageApp
  <2> QED
    BY <2>1, <2>2, <2>3, <2>4, <2>5 DEF Startup!Next
<1>4. StartupInv'
  BY <1>2, <1>3 DEF StartupInv
<1>5. LoadedInv'
  BY <1>2, <1>3 DEF LoadedInv, Body, StartupPcs
<1>6. pc' \notin StartupPcs => TypedLoop' /\ RefInv' /\ LoaderStart'
  <2>1. FreshState' => (TypedLoop /\ RefInv /\ LoaderStart)'
    BY FreshLoader, PTL
  <2>2. pc' \notin StartupPcs => FreshState'
    BY <1>2, <1>3 DEF FreshState, StartupPcs
  <2> QED
    BY <2>1, <2>2
<1>7. pc' \in StartupPcs => LoaderStart'
  BY DEF LoaderStart, StartupPcs
<1> QED
  BY <1>3, <1>4, <1>5, <1>6, <1>7 DEF HostInv

(* The loader's steps leave its program points only by ending the pass and *)
(* never come back to their first one.                                     *)
LEMMA LoaderPcs ==
  ASSUME TypedLoop, Next
  PROVE  /\ pc' \notin StartupPcs
         /\ pc' = "loadClasses" => UNCHANGED vars
<1>1. pc' \notin StartupPcs
  BY TypedLoopStep DEF TypedLoop, TypeOK, StartupPcs
<1>2. pc = "loadClasses" => heap = <<>>
  BY DEF TypedLoop, LoopInv
<1>3. pc' = "loadClasses" => UNCHANGED vars
  BY <1>2 DEF Next, Step, NativeStep, ManagedStep, RuntimeStep, Terminated, vars,
     Crash, FindBaseScript, GetAssemblyClassList, NullImage, NullClass,
     SkipClass, EnterClass, Subclass, Return, NewObject, NewObjectFails,
     ListAttributes, SkipAttribute, ShowAttribute, AttributeFault, AttributesDone,
     NullObject, NoConstructor, ObjectInit, Describe, NoUpdate, InvokeUpdate,
     NextIteration, Collect, Finalize
<1> QED
  BY <1>1, <1>3

LEMMA LoadedStep ==
  ASSUME TypedLoop, LoadedInv, Next, UNCHANGED <<domain, mainThread, icalls>>
  PROVE  LoadedInv'
<1>1. UNCHANGED <<core, app>>
  BY DEF Next, Step, NativeStep, ManagedStep, RuntimeStep, Terminated, vars,
     assemblies, Crash, FindBaseScript, GetAssemblyClassList, NullImage,
     NullClass, SkipClass, EnterClass, Return, NewObject, NewObjectFails,
     SkipAttribute, ShowAttribute, AttributeFault, AttributesDone, NullObject, NoConstructor,
     ObjectInit, Describe, NoUpdate, InvokeUpdate, Collect, Finalize
<1> USE <1>1 DEF LoadedInv, Body
<1>2. CASE NewObject \/ NewObjectFails \/ ObjectInit \/ InvokeUpdate
  BY <1>2 DEF NewObject, NewObjectFails, ListAttributes, ObjectInit,
     InvokeUpdate, NextIteration
<1>3. CASE RuntimeStep \/ ShowAttribute
  BY <1>3 DEF RuntimeStep, ShowAttribute, Collect, Finalize, output, TypedLoop,
     TypeOK
<1>4. CASE /\ ~ RuntimeStep /\ ~ NewObject /\ ~ NewObjectFails
           /\ UNCHANGED <<calls, heap, shown>>
  BY <1>4
  DEF Next, Step, NativeStep, ManagedStep, Terminated, vars, Crash,
      FindBaseScript, GetAssemblyClassList, NullImage, NullClass, SkipClass,
      EnterClass, Subclass, Return, SkipAttribute, ShowAttribute, NewObject,
      NewObjectFails, ObjectInit, InvokeUpdate, AttributeFault, AttributesDone,
      NullObject, NoConstructor, Describe, NoUpdate, NextIteration
<1> QED
  BY <1>2, <1>3, <1>4
  DEF Next, Step, NativeStep, ManagedStep, Terminated, vars, output, Crash,
      FindBaseScript, GetAssemblyClassList, NullImage, NullClass, SkipClass,
      EnterClass, Return, SkipAttribute, ShowAttribute, AttributeFault,
      AttributesDone, NullObject, NoConstructor, Describe, NoUpdate

(* The loader waits for the startup.                                       *)
LEMMA StartupIdle ==
  ASSUME HostInv
  PROVE  ~ (pc \in StartupPcs /\ Next)
<1>1. pc \in StartupPcs => Running /\ heap = <<>>
  BY DEF HostInv, StartupInv, InitLocals, Running, StartupPcs
<1> QED
  BY <1>1 DEF Next, Step, NativeStep, ManagedStep, RuntimeStep,
     Terminated, StartupPcs, FindBaseScript, GetAssemblyClassList, NullImage,
     NullClass, SkipClass, EnterClass, Subclass, Return, NewObject,
     NewObjectFails, SkipAttribute, ShowAttribute, AttributeFault,
     AttributesDone, NullObject, NoConstructor, ObjectInit, Describe, NoUpdate, InvokeUpdate

LEMMA HostStep == HostInv /\ [HostNext]_hostVars => HostInv'
<1> SUFFICES ASSUME HostInv, [HostNext]_hostVars PROVE HostInv'
  OBVIOUS
<1>1. CASE Startup!Next /\ UNCHANGED locals
  BY <1>1, StartupStep
<1>2. CASE pc \notin StartupPcs /\ Next /\ UNCHANGED <<domain, mainThread, icalls>>
  <2>1. TypedLoop /\ RefInv /\ LoadedInv /\ LoaderStart
    BY <1>2 DEF HostInv
  <2>2. TypedLoop' /\ RefInv' /\ LoadedInv'
    BY <1>2, <2>1, TypedLoopStep, RefStep, LoadedStep
  <2>3. pc' \notin StartupPcs /\ (pc' = "loadClasses" => UNCHANGED vars)
    BY <1>2, <2>1, LoaderPcs
  <2>4. UNCHANGED <<core, app>>
    BY <1>2 DEF Next, Step, NativeStep, ManagedStep, RuntimeStep, Terminated,
       vars, assemblies, Crash, FindBaseScript, GetAssemblyClassList, NullImage,
       NullClass, SkipClass, EnterClass, Return, NewObject, NewObjectFails,
       SkipAttribute, ShowAttribute, AttributeFault, AttributesDone, NullObject, NoConstructor,
       ObjectInit, Describe, NoUpdate, InvokeUpdate, Collect, Finalize
  <2>5. LoaderStart'
    <3>1. SUFFICES ASSUME pc' = "loadClasses" PROVE Init'
      BY DEF LoaderStart
    <3> QED
      BY <2>1, <2>3, <3>1 DEF LoaderStart, Init, InitLocals, vars
  <2> QED
    BY <1>2, <2>2, <2>3, <2>4, <2>5 DEF HostInv
<1>3. ~ (pc \in StartupPcs /\ Next)
  BY StartupIdle
<1>4. CASE UNCHANGED hostVars
  BY <1>4 DEF hostVars, vars, HostInv, StartupInv, InitLocals, LoadedInv,
     LoaderStart, Init, TypedLoop, TypeOK, LoopInv, RefInv, Class, output
<1> QED
  BY <1>1, <1>2, <1>3, <1>4 DEF HostNext

THEOREM HostInvariant == HostSpec => []HostInv
BY HostInitInv, HostStep, PTL DEF HostSpec

(* Whatever fails during the startup, loadClasses is entered in a state    *)
(* from which ScriptLoader is specified.                                   *)
THEOREM LoaderStartsRight == HostSpec => []LoaderStart
<1>1. HostInv => LoaderStart
  BY DEF HostInv
<1> QED
  BY <1>1, HostInvariant, PTL

(* Although main ignores every failure, script code only runs, and 0 is    *)
(* only returned, with both assemblies and their images loaded.            *)
THEOREM LoadedBefore == HostSpec => []LoadedBeforeScripts
<1>1. HostInv => LoadedBeforeScripts
  <2>1. HostInv => /\ core.assembly = nullptr => core.image = nullptr
                   /\ app.assembly = nullptr => app.image = nullptr
    BY DEF HostInv, Unloaded, Opened, nullptr
  <2> QED
    BY <2>1 DEF HostInv, LoadedInv, LoadedBeforeScripts, Body
<1> QED
  BY <1>1, HostInvariant, PTL

-----------------------------------------------------------------------------
(* The loader's safety in the whole host.                                  *)

LoaderSafe == HeldInv /\ OnceInv /\ ServedInv /\ ShownInv /\ LeakInv

LEMMA FreshSafe ==
  InitLocals /\ pc \in StartupPcs \cup {"loadClasses", "crashed"} => LoaderSafe
BY DEF InitLocals, LoaderSafe, HeldInv, OnceInv, Distinct, ServedInv,
   ShownInv, LeakInv, Body, StartupPcs, nullptr

LEMMA SafeStep == HostInv /\ LoaderSafe /\ [HostNext]_hostVars => LoaderSafe'
<1> SUFFICES ASSUME HostInv, LoaderSafe, [HostNext]_hostVars
             PROVE  LoaderSafe'
  OBVIOUS
<1>1. CASE Startup!Next /\ UNCHANGED locals
  <2>1. InitLocals'
    <3>1. pc \in StartupPcs
      BY <1>1 DEF Startup!Next, Startup!JitInit, Startup!DomainSet, Startup!SetMain,
         Startup!RegisterCallbacks, Startup!NullDomain, Startup!OpenCore,
         Startup!ImageCore, Startup!OpenApp, Startup!ImageApp, StartupPcs
    <3> QED
      BY <1>1, <3>1 DEF HostInv, StartupInv, InitLocals, locals, metadata, output
  <2>2. pc' \in StartupPcs \cup {"loadClasses", "crashed"}
    BY <1>1 DEF Startup!Next, Startup!JitInit, Startup!DomainSet, Startup!SetMain,
       Startup!RegisterCallbacks, Startup!NullDomain, Startup!OpenCore,
       Startup!ImageCore, Startup!OpenApp, Startup!ImageApp, StartupPcs
  <2>3. (InitLocals /\ pc \in StartupPcs \cup {"loadClasses", "crashed"} => LoaderSafe)'
    BY FreshSafe, PTL
  <2> QED
    BY <2>1, <2>2, <2>3 DEF StartupPcs
<1>2. CASE pc \notin StartupPcs /\ [Next]_vars
  <2>1. TypedLoop /\ HeldInv /\ OnceInv /\ ServedInv /\ ShownInv /\ LeakInv
    BY <1>2 DEF HostInv, LoaderSafe
  <2>2. HeldInv'
    BY ONLY <1>2, <2>1, HeldStep
  <2>3. OnceInv'
    BY ONLY <1>2, <2>1, OnceStep
  <2>4. ServedInv'
    BY ONLY <1>2, <2>1, ServedStep
  <2>5. ShownInv'
    BY ONLY <1>2, <2>1, ShownStep
  <2>6. LeakInv'
    BY ONLY <1>2, <2>1, LeakStep
  <2> QED
    BY ONLY <2>2, <2>3, <2>4, <2>5, <2>6 DEF LoaderSafe
<1>3. CASE pc \in StartupPcs /\ UNCHANGED vars
  BY <1>3 DEF LoaderSafe, HeldInv, OnceInv, Distinct, ServedInv,
     ServedOn, Made, ShownInv, ShownAt, Printed, LeakInv, vars, Class, Attrs
<1>4. ~ (pc \in StartupPcs /\ Next)
  BY StartupIdle
<1> QED
  BY <1>1, <1>2, <1>3, <1>4 DEF HostNext, hostVars

(* What the loader guarantees of scripts it guarantees in the whole        *)
(* program, behind every way the startup may have gone: each script runs   *)
(* once, its finalizer comes last, and nothing is leaked twice.            *)
THEOREM HostScriptsSafe ==
  HostSpec => [](ScriptsRunOnce /\ FinalizedIsFinished /\ LeakedOnce)
<1>1. HostInit => LoaderSafe
  BY FreshSafe DEF HostInit, Startup!Init, StartupPcs
<1>2. HostInv /\ LoaderSafe => ScriptsRunOnce /\ LeakedOnce
  <2>1. ASSUME pc \in StartupPcs, HostInv PROVE LeakedOnce
    BY <2>1 DEF HostInv, StartupInv, InitLocals, LeakedOnce
  <2>2. LoaderSafe => ScriptsRunOnce
    BY DEF LoaderSafe, OnceInv, Distinct, ScriptsRunOnce
  <2>3. HostInv /\ LoaderSafe /\ pc \notin StartupPcs => LeakedOnce
    BY LeaksOnce DEF HostInv, LoaderSafe
  <2> QED
    BY <2>1, <2>2, <2>3
<1>3. HostInv /\ LoaderSafe => FinalizedIsFinished
  <2> SUFFICES ASSUME HostInv, LoaderSafe,
                      NEW o \in DOMAIN heap, heap[o].gc = "finalized"
               PROVE  ServedOn(heap[o].class, o)
    BY DEF FinalizedIsFinished, ServedOn, Made
  <2>1. heap \in Seq(Object)
    BY DEF HostInv, StartupInv, InitLocals, TypedLoop, TypeOK
  <2>2. o # object
    BY <2>1, LenProperties DEF LoaderSafe, HeldInv, nullptr
  <2> QED
    BY <2>2 DEF LoaderSafe, ServedInv
<1> QED
  BY <1>1, <1>2, <1>3, SafeStep, HostInvariant, PTL DEF HostSpec

-----------------------------------------------------------------------------
(* The contract in the whole host.                                         *)

LEMMA FreshHostStep ==
  HostInv /\ FreshInv /\ [HostNext]_hostVars => FreshInv'
<1> SUFFICES ASSUME HostInv, FreshInv, [HostNext]_hostVars PROVE FreshInv'
  OBVIOUS
<1>1. CASE pc \notin StartupPcs /\ [Next]_vars
  BY <1>1, FreshStep DEF HostInv
<1>2. CASE Startup!Next /\ UNCHANGED locals
  <2>1. pc' \notin {"attributes", "init"}
    BY <1>2 DEF Startup!Next, Startup!JitInit, Startup!DomainSet, Startup!SetMain,
       Startup!RegisterCallbacks, Startup!NullDomain, Startup!OpenCore,
       Startup!ImageCore, Startup!OpenApp, Startup!ImageApp
  <2>2. pc \in StartupPcs
    BY <1>2 DEF Startup!Next, Startup!JitInit, Startup!DomainSet, Startup!SetMain,
       Startup!RegisterCallbacks, Startup!NullDomain, Startup!OpenCore,
       Startup!ImageCore, Startup!OpenApp, Startup!ImageApp, StartupPcs
  <2> QED
    BY <1>2, <2>1, <2>2 DEF FreshInv, locals, StartupPcs
<1>3. CASE UNCHANGED vars
  BY <1>3 DEF FreshInv, vars
<1>4. ~ (pc \in StartupPcs /\ Next)
  BY StartupIdle
<1> QED
  BY <1>1, <1>2, <1>3, <1>4 DEF HostNext, hostVars

(* The whole program serves the scripts as ScriptContract says, behind     *)
(* every way the startup may have gone: a crash of it is a failed pass.    *)
THEOREM HostImplementsContract == HostSpec => ContractSpec
<1> DEFINE Inv == HostInv /\ LoaderSafe /\ FreshInv
<1>1. HostInit => Contract!Init
  BY DEF HostInit, Startup!Init, InitLocals, Contract!Init, status
<1>2. HostInit => LoaderSafe /\ FreshInv
  BY FreshSafe, LenProperties, EmptySeq
  DEF HostInit, Startup!Init, StartupPcs, InitLocals, FreshInv, nullptr
<1>3. Inv /\ [HostNext]_hostVars => [NoShadow(table) => Contract!Next]_(Contract!vars)
  <2> SUFFICES ASSUME Inv, [HostNext]_hostVars, NoShadow(table)
               PROVE  Contract!Next \/ UNCHANGED Contract!vars
    BY DEF Contract!vars
  <2>1. CASE pc \notin StartupPcs /\ [Next]_vars
    <3>1. SimInv
      BY <2>1 DEF SimInv, HostInv, LoaderSafe
    <3> QED
      BY <2>1, <3>1, SimulationStep
  <2>2. CASE Startup!Next /\ UNCHANGED locals
    <3>1. /\ status = "running"
          /\ status' = IF pc' = "crashed" THEN "failed" ELSE "running"
      BY <2>2 DEF Startup!Next, Startup!JitInit, Startup!DomainSet, Startup!SetMain,
         Startup!RegisterCallbacks, Startup!NullDomain, Startup!OpenCore,
         Startup!ImageCore, Startup!OpenApp, Startup!ImageApp, status
    <3> QED
      BY <2>2, <3>1 DEF Contract!Next, Contract!Fail, Contract!vars, locals, metadata
  <2>3. CASE UNCHANGED vars
    BY <2>3 DEF Contract!vars, vars, status
  <2>4. ~ (pc \in StartupPcs /\ Next)
    BY StartupIdle
  <2> QED
    BY <2>1, <2>2, <2>3, <2>4 DEF HostNext, hostVars
<1>4. HostSpec => []Inv
  BY <1>2, SafeStep, FreshHostStep, HostInvariant, PTL DEF HostSpec
<1> QED
  BY <1>1, <1>3, <1>4, PTL DEF HostSpec, ContractSpec

=============================================================================
