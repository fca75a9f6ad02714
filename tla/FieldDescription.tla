-------------------------- MODULE FieldDescription --------------------------
(***************************************************************************)
(* How loadClasses describes the fields of a script class: the iteration   *)
(* of mono_class_get_fields, loadFieldDef with its map from type names to  *)
(* ScriptFieldType, and the flags that operator<< spells out.              *)
(*                                                                         *)
(* The flags of a field are those of its metadata row: the access in the   *)
(* lowest three bits, then one bit each for static, initonly, literal and  *)
(* so on up to the default value of a constant.                            *)
(***************************************************************************)
EXTENDS Integers, Sequences

CONSTANTS
  TypeNames,  \* the type names mono_type_get_name may answer
  FieldLists  \* the fields of the classes that are described

FIELD_ATTRIBUTE_FIELD_ACCESS_MASK == 7
FIELD_ATTRIBUTE_PRIVATE == 1
FIELD_ATTRIBUTE_PUBLIC  == 6
FIELD_ATTRIBUTE_STATIC  == 16

(* The flags of a row are a word of 16 bits.                               *)
Flags == 0..65535

Field == [type : TypeNames, flags : Flags]

ASSUME FieldListsAssumption == FieldLists \subseteq Seq(Field)

VARIABLES
  fields,   \* the class's own fields, in metadata order
  filedIt,  \* how many of them mono_class_get_fields has returned
  lines     \* what has been printed

vars == <<fields, filedIt, lines>>

-----------------------------------------------------------------------------

(* enum class ScriptFieldType: None is 0, the others count from 1.         *)
ScriptFieldType ==
  <<"Float", "Double", "Bool", "Char", "Byte", "Short", "Int", "Long",
    "UByte", "UShort", "UInt", "ULong", "Vector2", "Vector3", "Vector4",
    "Entity", "Prefab", "Texture">>

None == 0

SystemTypes ==
  {<<"System.Single", "Float">>, <<"System.Double", "Double">>,
   <<"System.Boolean", "Bool">>, <<"System.Char", "Char">>,
   <<"System.Int16", "Short">>, <<"System.Int32", "Int">>,
   <<"System.Int64", "Long">>, <<"System.Byte", "Byte">>,
   <<"System.UInt16", "UShort">>, <<"System.UInt32", "UInt">>,
   <<"System.UInt64", "ULong">>}

SimengineTypes ==
  {<<"Simengine.Vector2", "Vector2">>, <<"Simengine.Vector3", "Vector3">>,
   <<"Simengine.Vector4", "Vector4">>, <<"Simengine.Entity", "Entity">>,
   <<"Simengine.Prefab", "Prefab">>, <<"Simengine.Texture", "Texture">>}

(* Bug: an entry keeps the enumerator of the line it was copied from.      *)
CopiedEntryMap ==
  (SystemTypes \ {<<"System.Int64", "Long">>}) \cup {<<"System.Int64", "Int">>}
    \cup SimengineTypes

s_ScriptFieldTypeMap == SystemTypes \cup SimengineTypes

Number(e) == CHOOSE i \in DOMAIN ScriptFieldType : ScriptFieldType[i] = e

(* Bug: a type that is not in the map is answered with -1.                 *)
TypeOrMinusOne(name) ==
  IF \E e \in s_ScriptFieldTypeMap : e[1] = name
    THEN Number((CHOOSE e \in s_ScriptFieldTypeMap : e[1] = name)[2])
    ELSE -1

MonoTypeToScriptFieldType(name) ==
  IF \E e \in s_ScriptFieldTypeMap : e[1] = name
    THEN Number((CHOOSE e \in s_ScriptFieldTypeMap : e[1] = name)[2])
    ELSE None

(* flags & mask, for the three masks operator<< tests; Public has two bits. *)
IsSet(flags, mask) ==
  CASE mask = FIELD_ATTRIBUTE_PUBLIC  -> (flags \div 2) % 4 # 0
    [] mask = FIELD_ATTRIBUTE_PRIVATE -> flags % 2 # 0
    [] mask = FIELD_ATTRIBUTE_STATIC  -> (flags \div 16) % 2 # 0

(* Bug: a static field is shown as static only.                            *)
LabelsUnlessStatic(flags) ==
  IF IsSet(flags, FIELD_ATTRIBUTE_STATIC) THEN {"Static"}
  ELSE {l \in {"Public", "Private"} :
          \/ l = "Public"  /\ IsSet(flags, FIELD_ATTRIBUTE_PUBLIC)
          \/ l = "Private" /\ IsSet(flags, FIELD_ATTRIBUTE_PRIVATE)}

Labels(flags) ==
  {l \in {"Public", "Private", "Static"} :
     \/ l = "Public"  /\ IsSet(flags, FIELD_ATTRIBUTE_PUBLIC)
     \/ l = "Private" /\ IsSet(flags, FIELD_ATTRIBUTE_PRIVATE)
     \/ l = "Static"  /\ IsSet(flags, FIELD_ATTRIBUTE_STATIC)}

-----------------------------------------------------------------------------

Init ==
  /\ fields \in FieldLists
  /\ filedIt = 0
  /\ lines = <<>>

DescribeField ==
  /\ filedIt < Len(fields)
  /\ filedIt' = filedIt + 1
  /\ lines' = Append(lines,
       [fieldType |-> MonoTypeToScriptFieldType(fields[filedIt'].type),
        labels    |-> Labels(fields[filedIt'].flags)])
  /\ UNCHANGED fields

Described == filedIt = Len(fields) /\ UNCHANGED vars

Next == DescribeField \/ Described

Spec == Init /\ [][Next]_vars

-----------------------------------------------------------------------------

Access(f) == f.flags % (FIELD_ATTRIBUTE_FIELD_ACCESS_MASK + 1)

IsStatic(f) == (f.flags \div FIELD_ATTRIBUTE_STATIC) % 2 = 1

TypeOK ==
  /\ fields \in Seq(Field)
  /\ filedIt \in 0..Len(fields)
  /\ lines \in Seq([fieldType : 0..Len(ScriptFieldType),
                    labels    : SUBSET {"Public", "Private", "Static"}])
  /\ Len(lines) = filedIt

(* For the fields C# declares public or private the words printed tell     *)
(* exactly that, and "Static" is printed of static fields whatever their   *)
(* access is: the tests of single bits suffice for these.                  *)
PublicAndPrivateTold ==
  \A n \in DOMAIN lines :
    LET told == lines[n].labels
    IN  /\ "Static" \in told <=> IsStatic(fields[n])
        /\ Access(fields[n]) \in {FIELD_ATTRIBUTE_PUBLIC, FIELD_ATTRIBUTE_PRIVATE} =>
             /\ "Public" \in told <=> Access(fields[n]) = FIELD_ATTRIBUTE_PUBLIC
             /\ "Private" \in told <=> Access(fields[n]) = FIELD_ATTRIBUTE_PRIVATE

(* The printed type number tells the types apart: two fields of one class  *)
(* that show the same number other than None have the same type.           *)
TypesTold ==
  \A m, n \in DOMAIN lines :
    lines[m].fieldType = lines[n].fieldType /\ lines[m].fieldType # None
      => fields[m].type = fields[n].type

(* What tabledefs.h says of the flags: the access is one value under a     *)
(* mask, so Public is said of public fields and Private of private ones.   *)
(* operator<< tests the values as bits: an internal field (3) prints       *)
(* "Public, Private, " and a protected one (4) "Public, ".                 *)
AccessTold ==
  \A n \in DOMAIN lines :
    /\ "Public" \in lines[n].labels => Access(fields[n]) = FIELD_ATTRIBUTE_PUBLIC
    /\ "Private" \in lines[n].labels => Access(fields[n]) = FIELD_ATTRIBUTE_PRIVATE

=============================================================================
