---------------------------- MODULE ScriptLoader ----------------------------
(***************************************************************************)
(* loadClasses of engine/mono.cpp: the pass over the classes of the game   *)
(* assembly that creates, describes and updates one object per script      *)
(* class, together with the garbage collector and the finalizer thread of  *)
(* the runtime, which run beside it.                                       *)
(*                                                                         *)
(* Every call into libmono that can fail or run managed code is a step of  *)
(* its own.  Passing a null pointer to libmono and an exception that       *)
(* leaves managed code both end the process (pc = "crashed"): loadClasses  *)
(* checks no argument and gives mono_runtime_invoke no exception slot.     *)
(***************************************************************************)
EXTENDS TypeDefs

CONSTANT Tables  \* the TypeDef tables the game assembly may have

ASSUME TablesAssumption ==
  \A t \in Tables : t \in Seq(TypeDef) /\ WellFormed(t)

VARIABLES
  pc,         \* the point loadClasses has reached
  core,       \* coreAssembly: the pointers of the ScriptAssembly
  app,        \* assembly: likewise for the game
  imageRefs,  \* ref_count of the game's MonoImage
  table,      \* the TypeDef table of that image
  baseClass,  \* baseScriptClass, null or not
  classes,    \* the vector of GetAssemblyClassList
  pos,        \* position of the range-based for in classes
  object,     \* the local object, an index of heap or null
  attr,       \* i of the attribute loop (from 1)
  heap,       \* the script objects allocated so far
  calls,      \* the script code the host has called, in order
  shown,      \* the attributes constructed and printed, in order: position,
              \* attribute and value
  listed      \* the lists of attributes and of fields made, in order

assemblies == <<core, app>>
metadata   == <<table, baseClass, classes>>
output     == <<shown, listed>>
vars == <<pc, core, app, imageRefs, table, baseClass, classes, pos, object,
          attr, heap, calls, shown, listed>>

ScriptAssembly == [assembly : {nullptr, 1}, image : {nullptr, 1}]

Object == [class : Nat, gc : {"live", "collected", "finalized"}]

Call == [method : {".ctor", "OnUpdate"}, class : Nat, this : Nat]

Shown == [pos : Nat, attr : Nat, value : Values]

Listing == [what : {"attributes", "fields"}, pos : Nat]

Running == pc \notin {"returned", "crashed"}

Class == classes[pos]

Attrs == table[Class].attrs

(* An image that no reference holds has been freed.                        *)
ImageFreed == imageRefs <= 0

(* Bug: the local is dead once the constructor has run.                    *)
RootedUntilInit(o) == o = object /\ pc \in {"attributes", "init"}

(* The only reference the host has to a script object is the local of the  *)
(* loop body.  That the collector scans the stack of the main thread, and  *)
(* so finds it, is taken from the runtime and not shown here.              *)
Rooted(o) == o = object

-----------------------------------------------------------------------------

(* loadClasses is entered with whatever the two loadAssembly calls left    *)
(* behind; the game's image is held by its assembly.                       *)
InitLocals ==
  /\ table \in Tables
  /\ baseClass = nullptr
  /\ classes = <<>>
  /\ pos = 0
  /\ object = nullptr
  /\ attr = 0
  /\ heap = <<>>
  /\ calls = <<>>
  /\ shown = <<>>
  /\ listed = <<>>

Init ==
  /\ pc = "loadClasses"
  /\ core \in {a \in ScriptAssembly : a.assembly = nullptr => a.image = nullptr}
  /\ app \in {a \in ScriptAssembly : a.assembly = nullptr => a.image = nullptr}
  /\ imageRefs = app.assembly
  /\ InitLocals

Crash ==
  /\ pc' = "crashed"
  /\ UNCHANGED <<assemblies, imageRefs, metadata, pos, object, attr, heap,
                 calls, output>>

FindBaseScript ==
  /\ pc = "loadClasses"
  /\ core.image # nullptr
  /\ baseClass' \in {nullptr, 1}
  /\ pc' = "classList"
  /\ UNCHANGED <<assemblies, imageRefs, table, classes, pos, object, attr,
                 heap, calls, output>>

GetAssemblyClassList ==
  /\ pc = "classList"
  /\ app.image # nullptr
  /\ classes' = ClassList(table)
  /\ pos' = 1
  /\ pc' = "nextClass"
  /\ UNCHANGED <<assemblies, imageRefs, table, baseClass, object, attr, heap,
                 calls, output>>

NullImage ==
  /\ \/ pc = "loadClasses" /\ core.image = nullptr
     \/ pc = "classList" /\ app.image = nullptr
  /\ Crash

(* Bug: null entries of the vector are skipped.                            *)
NullClassSkipped ==
  /\ pc = "nextClass"
  /\ pos <= Len(classes)
  /\ Class = nullptr \/ baseClass = nullptr
  /\ pos' = pos + 1
  /\ UNCHANGED <<pc, assemblies, imageRefs, metadata, object, attr, heap,
                 calls, output>>

(* mono_class_is_subclass_of is given every entry of the vector as it is.  *)
NullClass ==
  /\ pc = "nextClass"
  /\ pos <= Len(classes)
  /\ Class = nullptr \/ baseClass = nullptr
  /\ Crash

Subclass ==
  /\ pc = "nextClass"
  /\ pos <= Len(classes)
  /\ Class # nullptr
  /\ baseClass # nullptr

(* Bug: continue without advancing.                                        *)
SkipClassInPlace ==
  /\ Subclass
  /\ ~ table[Class].script
  /\ UNCHANGED vars

SkipClass ==
  /\ Subclass
  /\ ~ table[Class].script
  /\ pos' = pos + 1
  /\ UNCHANGED <<pc, assemblies, imageRefs, metadata, object, attr, heap,
                 calls, output>>

EnterClass ==
  /\ Subclass
  /\ table[Class].script
  /\ pc' = "newObject"
  /\ UNCHANGED <<assemblies, imageRefs, metadata, pos, object, attr, heap,
                 calls, output>>

Return ==
  /\ pc = "nextClass"
  /\ pos > Len(classes)
  /\ pc' = "returned"
  /\ UNCHANGED <<assemblies, imageRefs, metadata, pos, object, attr, heap,
                 calls, output>>

List(what) == listed' = Append(listed, [what |-> what, pos |-> pos])

(* mono_custom_attrs_from_class allocates the list of a class that has any *)
(* attributes.                                                             *)
ListAttributes ==
  /\ IF Attrs = <<>> THEN UNCHANGED listed ELSE List("attributes")
  /\ attr' = 1
  /\ pc' = "attributes"

NewObject ==
  /\ pc = "newObject"
  /\ heap' = Append(heap, [class |-> Class, gc |-> "live"])
  /\ object' = Len(heap) + 1
  /\ ListAttributes
  /\ UNCHANGED <<assemblies, imageRefs, metadata, pos, calls, shown>>

(* The failure branch closes the image and falls through to the rest of    *)
(* the loop body.                                                          *)
NewObjectFails ==
  /\ pc = "newObject"
  /\ object' = nullptr
  /\ imageRefs' = imageRefs - 1
  /\ ListAttributes
  /\ UNCHANGED <<assemblies, metadata, pos, heap, calls, shown>>

SkipAttribute ==
  /\ pc = "attributes"
  /\ attr <= Len(Attrs)
  /\ ~ Labelled(Attrs[attr])
  /\ attr' = attr + 1
  /\ UNCHANGED <<pc, assemblies, imageRefs, metadata, pos, object, heap,
                 calls, output>>

Show(value) ==
  shown' = Append(shown, [pos |-> pos, attr |-> attr, value |-> value])

(* Bug: attrs[0] is asked for its class in every round.                    *)
ShowFirstAttribute ==
  /\ pc = "attributes"
  /\ attr <= Len(Attrs)
  /\ Labelled(Attrs[1])
  /\ AttrHasField[Attrs[1].class]
  /\ Show(GetAttr(Attrs, Attrs[1].class).value)
  /\ attr' = attr + 1
  /\ UNCHANGED <<pc, assemblies, imageRefs, metadata, pos, object, heap,
                 calls, listed>>

(* mono_custom_attrs_get_attr runs the attribute's constructor, managed    *)
(* code of the game, also when the image has been closed; the string       *)
(* mono_string_to_utf8 makes of its field is never freed.                  *)
ShowAttribute ==
  /\ pc = "attributes"
  /\ attr <= Len(Attrs)
  /\ Labelled(Attrs[attr])
  /\ AttrHasField[Attrs[attr].class]
  /\ Show(GetAttr(Attrs, Attrs[attr].class).value)
  /\ attr' = attr + 1
  /\ UNCHANGED <<pc, assemblies, imageRefs, metadata, pos, object, heap,
                 calls, listed>>

(* The attribute's constructor throws, or its class has no such field, or  *)
(* the class is read from the image that was closed under it.              *)
AttributeFault ==
  /\ pc = "attributes"
  /\ ImageFreed \/ (attr <= Len(Attrs) /\ Labelled(Attrs[attr]))
  /\ Crash

(* Bug: the loop ends one attribute early.                                 *)
AttributesDoneEarly ==
  /\ pc = "attributes"
  /\ attr >= Len(Attrs)
  /\ pc' = "init"
  /\ UNCHANGED <<assemblies, imageRefs, metadata, pos, object, attr, heap,
                 calls, output>>

AttributesDone ==
  /\ pc = "attributes"
  /\ attr > Len(Attrs)
  /\ pc' = "init"
  /\ UNCHANGED <<assemblies, imageRefs, metadata, pos, object, attr, heap,
                 calls, output>>

(* Bug: a class without an instance is skipped, after its image was closed.*)
NullObjectSkipped ==
  /\ pc = "init"
  /\ object = nullptr
  /\ pc' = "nextClass"
  /\ pos' = pos + 1
  /\ UNCHANGED <<assemblies, imageRefs, metadata, object, attr, heap, calls,
                 output>>

NullObject ==
  /\ pc = "init"
  /\ object = nullptr
  /\ Crash

(* mono_runtime_object_init aborts before any script code runs: the class  *)
(* has no parameterless constructor, or it cannot be compiled.             *)
NoConstructor ==
  /\ pc = "init"
  /\ object # nullptr
  /\ Crash

(* mono_runtime_object_init: the constructor returns or throws.            *)
ObjectInit ==
  /\ pc = "init"
  /\ object # nullptr
  /\ calls' = Append(calls, [method |-> ".ctor", class |-> Class,
                             this |-> object])
  /\ pc' \in {"describe", "crashed"}
  /\ UNCHANGED <<assemblies, imageRefs, metadata, pos, object, attr, heap,
                 output>>

(* The listings of properties, fields and methods only print; for fields,  *)
(* mono_type_get_name makes strings that are never freed.                  *)
Describe ==
  /\ pc = "describe"
  /\ pc' = "update"
  /\ List("fields")
  /\ UNCHANGED <<assemblies, imageRefs, metadata, pos, object, attr, heap,
                 calls, shown>>

(* Bug: the same class is served again.                                    *)
SameIteration ==
  /\ pc' = "nextClass"
  /\ object' = nullptr
  /\ UNCHANGED pos

(* The end of the loop body: object goes out of scope.                     *)
NextIteration ==
  /\ pc' = "nextClass"
  /\ pos' = pos + 1
  /\ object' = nullptr

NoUpdate ==
  /\ pc = "update"
  /\ ~ table[Class].update
  /\ NextIteration
  /\ UNCHANGED <<assemblies, imageRefs, metadata, attr, heap, calls, output>>

(* mono_runtime_invoke: OnUpdate returns or throws.                        *)
InvokeUpdate ==
  /\ pc = "update"
  /\ table[Class].update
  /\ calls' = Append(calls, [method |-> "OnUpdate", class |-> Class,
                             this |-> object])
  /\ \/ NextIteration
     \/ pc' = "crashed" /\ UNCHANGED <<pos, object>>
  /\ UNCHANGED <<assemblies, imageRefs, metadata, attr, heap, output>>

-----------------------------------------------------------------------------
(* The runtime beside the host: a collection may stop the host at any      *)
(* point and finds the objects no root reaches; the finalizer thread runs  *)
(* their finalizers while the host runs on.                                *)

Collect(o) ==
  /\ Running
  /\ heap[o].gc = "live"
  /\ ~ Rooted(o)
  /\ heap' = [heap EXCEPT ![o].gc = "collected"]
  /\ UNCHANGED <<pc, assemblies, imageRefs, metadata, pos, object, attr,
                 calls, output>>

Finalize(o) ==
  /\ Running
  /\ heap[o].gc = "collected"
  /\ heap' = [heap EXCEPT ![o].gc = "finalized"]
  /\ UNCHANGED <<pc, assemblies, imageRefs, metadata, pos, object, attr,
                 calls, output>>

Terminated == ~ Running /\ UNCHANGED vars

-----------------------------------------------------------------------------

(* Steps of the host that run no managed code.                             *)
NativeStep ==
  \/ FindBaseScript \/ GetAssemblyClassList \/ NullImage
  \/ NullClass \/ SkipClass \/ EnterClass \/ Return
  \/ NewObject \/ NewObjectFails
  \/ SkipAttribute \/ AttributesDone
  \/ NullObject \/ Describe \/ NoUpdate

(* Steps that wait for managed code to return or throw, or find none.      *)
ManagedStep ==
  ShowAttribute \/ AttributeFault \/ NoConstructor \/ ObjectInit \/ InvokeUpdate

RuntimeStep == \E o \in DOMAIN heap : Collect(o) \/ Finalize(o)

Step == NativeStep \/ ManagedStep \/ RuntimeStep

Next == Step \/ Terminated

Spec == Init /\ [][Next]_vars

(* The main thread is scheduled; managed code need not return.             *)
FairSpec == Spec /\ WF_vars(NativeStep)

-----------------------------------------------------------------------------

TypeOK ==
  /\ pc \in {"loadClasses", "classList", "nextClass", "newObject",
             "attributes", "init", "describe", "update", "returned",
             "crashed"}
  /\ core \in ScriptAssembly
  /\ app \in ScriptAssembly
  /\ imageRefs \in Int
  /\ table \in Seq(TypeDef)
  /\ baseClass \in {nullptr, 1}
  /\ classes \in Seq(Nat)
  /\ pos \in Nat
  /\ object \in Nat
  /\ attr \in Nat
  /\ heap \in Seq(Object)
  /\ calls \in Seq(Call)
  /\ shown \in Seq(Shown)
  /\ listed \in Seq(Listing)

(* No script class is constructed twice and none is updated twice, unless  *)
(* a nested type bears the name of a global script: GetAssemblyClassList   *)
(* looks classes up by name and would list that script once more.          *)
ScriptsRunOnce ==
  NoShadow(table) =>
    \A m, n \in DOMAIN calls :
      calls[m].method = calls[n].method /\ calls[m].class = calls[n].class
        => m = n

(* loadClasses returns only when every top-level script class of the game  *)
(* was constructed and, if it has an OnUpdate, updated on that object, and *)
(* when no row of the table resolved to no class: any null pointer in the  *)
(* vector, as a nested type leaves one, has ended the process before.      *)
ReturnMeansAllRan ==
  pc = "returned" =>
    /\ \A i \in DOMAIN table : ClassFromName(table, table[i].name) # nullptr
    /\ \A c \in Scripts(table) :
         \E n \in DOMAIN calls :
           /\ calls[n].method = ".ctor" /\ calls[n].class = c
           /\ table[c].update =>
                \E m \in DOMAIN calls :
                  /\ calls[m].method = "OnUpdate"
                  /\ calls[m].class = c /\ calls[m].this = calls[n].this

(* The finalizer thread only meets objects the host is done with: their    *)
(* constructor was called and so was their OnUpdate if they have one.      *)
FinalizedIsFinished ==
  \A o \in DOMAIN heap :
    heap[o].gc = "finalized" =>
      LET Called(method) == \E n \in DOMAIN calls :
            calls[n].method = method /\ calls[n].this = o
      IN  /\ Called(".ctor")
          /\ table[heap[o].class].update => Called("OnUpdate")

(* Failed instance creations never release the image more often than it is *)
(* referenced, though every failure closes it: the null object of the      *)
(* first one ends the process before a second one can happen.              *)
ImageNotOverReleased == imageRefs >= 0

(* A script object is constructed only after all MenuItem and EditorItem   *)
(* attributes of its class were printed.                                   *)
AttributesShownFirst ==
  object # nullptr /\ pc \in {"init", "describe", "update"} =>
    \A i \in DOMAIN Attrs :
      Labelled(Attrs[i]) =>
        \E n \in DOMAIN shown : shown[n].pos = pos /\ shown[n].attr = i

(* The value printed for an attribute is the one that attribute was        *)
(* constructed with, although the object is looked up by its class, unless *)
(* another attribute of the class can be assigned to that class.           *)
ShownValuesAreOwn ==
  \A n \in DOMAIN shown :
    LET s     == shown[n]
        attrs == table[classes[s.pos]].attrs
    IN  Unambiguous(attrs) => s.value = attrs[s.attr].value

(* What the pass leaks is bounded by the metadata: each string made of a   *)
(* menu or editor attribute, each MonoCustomAttrInfo and the type names of *)
(* each class's fields are made once, however the pass goes, unless a      *)
(* nested type bears the name of a script and has it served once more.     *)
LeakedOnce ==
  NoShadow(table) =>
    /\ \A m, n \in DOMAIN shown :
         /\ classes[shown[m].pos] = classes[shown[n].pos]
         /\ shown[m].attr = shown[n].attr
         => m = n
    /\ \A m, n \in DOMAIN listed :
         /\ classes[listed[m].pos] = classes[listed[n].pos]
         /\ listed[m].what = listed[n].what
         => m = n

(* Once instance creation has failed and the image is closed, the pass     *)
(* gets no further than the attributes of that class.  Managed code of the *)
(* game still runs from the closed image, but only the constructors of     *)
(* this class's menu and editor attributes, each at most once; no script   *)
(* is constructed or updated, none is allocated, the image is not closed   *)
(* again and the pass does not return.                                     *)
OnlyAttributesAfterClose ==
  [][imageRefs < app.assembly =>
       /\ UNCHANGED <<calls, pos, imageRefs>> /\ Len(heap') = Len(heap)
       /\ pc' # "returned"
       /\ \A n \in DOMAIN shown' \ DOMAIN shown :
            /\ shown'[n].pos = pos
            /\ Labelled(Attrs[shown'[n].attr])
            /\ \A m \in DOMAIN shown :
                 shown[m].pos = pos => shown[m].attr # shown'[n].attr]_vars

(* What metadata-internals.h says of ref_count: an assembly that refers to *)
(* an image through its image field is counted.  The failure branch of     *)
(* loadClasses closes an image it never opened and drops that reference.   *)
AssemblyHoldsImage == app.assembly # nullptr => imageRefs >= 1

(* The pass ends, by returning or by a crash, unless a constructor or an   *)
(* OnUpdate never comes back.                                              *)
InManagedCode ==
  \/ pc = "attributes" /\ attr <= Len(Attrs) /\ Labelled(Attrs[attr])
  \/ pc = "init" /\ object # nullptr
  \/ pc = "update" /\ table[Class].update

PassEnds == <>(~ Running) \/ <>[]InManagedCode

=============================================================================
