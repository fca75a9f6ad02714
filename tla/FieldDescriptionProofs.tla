----------------------- MODULE FieldDescriptionProofs -----------------------
(***************************************************************************)
(* The labels of fields are right for the accesses public and private, and *)
(* the type numbers tell types apart, for every class, all flags a         *)
(* metadata row can hold and all names of types.                           *)
(***************************************************************************)
EXTENDS FieldDescription, SequenceTheorems, TLAPS

(* What testing the bits of 6, 1 and 16 says of a field.                   *)
LEMMA LabelsOfFlags ==
  ASSUME NEW f \in Field
  PROVE  /\ "Static" \in Labels(f.flags) <=> IsStatic(f)
         /\ Access(f) \in {FIELD_ATTRIBUTE_PUBLIC, FIELD_ATTRIBUTE_PRIVATE} =>
              /\ "Public" \in Labels(f.flags) <=> Access(f) = FIELD_ATTRIBUTE_PUBLIC
              /\ "Private" \in Labels(f.flags) <=> Access(f) = FIELD_ATTRIBUTE_PRIVATE
<1> DEFINE n == f.flags
<1> USE DEF FIELD_ATTRIBUTE_PUBLIC, FIELD_ATTRIBUTE_PRIVATE,
            FIELD_ATTRIBUTE_STATIC, FIELD_ATTRIBUTE_FIELD_ACCESS_MASK
<1>1. n \in Nat
  <2>1. n \in Flags
    BY DEF Field
  <2>2. Flags \subseteq Nat
    BY DEF Flags
  <2> QED
    BY <2>1, <2>2
<1>2. /\ IsSet(n, FIELD_ATTRIBUTE_PUBLIC) <=> (n \div 2) % 4 # 0
      /\ IsSet(n, FIELD_ATTRIBUTE_PRIVATE) <=> n % 2 # 0
      /\ IsSet(n, FIELD_ATTRIBUTE_STATIC) <=> (n \div 16) % 2 # 0
  BY DEF IsSet
<1>3. /\ "Public" \in Labels(n) <=> IsSet(n, FIELD_ATTRIBUTE_PUBLIC)
      /\ "Private" \in Labels(n) <=> IsSet(n, FIELD_ATTRIBUTE_PRIVATE)
      /\ "Static" \in Labels(n) <=> IsSet(n, FIELD_ATTRIBUTE_STATIC)
  BY DEF Labels
<1>4. IsStatic(f) <=> (n \div 16) % 2 # 0
  BY <1>1 DEF IsStatic
<1>5. /\ n % 8 = 6 => (n \div 2) % 4 # 0 /\ n % 2 = 0
      /\ n % 8 = 1 => (n \div 2) % 4 = 0 /\ n % 2 # 0
  BY <1>1
<1> QED
  BY <1>2, <1>3, <1>4, <1>5 DEF Access

(* A line is printed for each field the iterator has returned.             *)
LinesInv ==
  /\ fields \in Seq(Field)
  /\ filedIt \in 0..Len(fields)
  /\ lines \in Seq([fieldType : {MonoTypeToScriptFieldType(t) : t \in TypeNames},
                    labels    : {Labels(f) : f \in Flags}])
  /\ Len(lines) = filedIt
  /\ \A n \in 1..filedIt :
       /\ lines[n].labels = Labels(fields[n].flags)
       /\ lines[n].fieldType = MonoTypeToScriptFieldType(fields[n].type)

LEMMA LinesStep == LinesInv /\ [Next]_vars => LinesInv'
<1> SUFFICES ASSUME LinesInv, [Next]_vars PROVE LinesInv'
  OBVIOUS
<1>1. CASE DescribeField
  <2> DEFINE f == fields[filedIt + 1]
             line == [fieldType |-> MonoTypeToScriptFieldType(f.type),
                      labels    |-> Labels(f.flags)]
             Line == [fieldType : {MonoTypeToScriptFieldType(t) : t \in TypeNames},
                      labels    : {Labels(g) : g \in Flags}]
  <2>1. /\ fields \in Seq(Field) /\ Len(fields) \in Nat
        /\ filedIt + 1 \in 1..Len(fields)
        /\ filedIt' = filedIt + 1 /\ fields' = fields
        /\ lines' = Append(lines, line)
    BY <1>1, LenProperties DEF DescribeField, LinesInv
  <2>2. f.type \in TypeNames /\ f.flags \in Flags
    <3>1. f \in Field
      BY <2>1, ElementOfSeq
    <3> QED BY <3>1 DEF Field
  <2>3. line \in Line
    BY <2>2
  <2>4. lines \in Seq(Line) /\ Len(lines) = filedIt
    BY DEF LinesInv
  <2> HIDE DEF line, Line
  <2>5. /\ lines' \in Seq(Line) /\ Len(lines') = filedIt'
        /\ \A n \in 1..filedIt : lines'[n] = lines[n]
        /\ lines'[filedIt + 1] = line
    BY <2>1, <2>3, <2>4, AppendProperties
  <2>6. \A n \in 1..filedIt' :
          /\ lines'[n].labels = Labels(fields[n].flags)
          /\ lines'[n].fieldType = MonoTypeToScriptFieldType(fields[n].type)
    BY <2>1, <2>5 DEF LinesInv, line
  <2> QED
    BY <2>1, <2>5, <2>6 DEF LinesInv, Line
<1>2. CASE UNCHANGED vars
  BY <1>2 DEF LinesInv, vars
<1> QED
  BY <1>1, <1>2 DEF Next, Described

THEOREM LinesInvariant == Spec => []LinesInv
<1>1. Init => LinesInv
  BY FieldListsAssumption, LenProperties DEF Init, LinesInv
<1> QED
  BY <1>1, LinesStep, PTL DEF Spec

(* Public, Private and Static are told of every public or private field as *)
(* it is declared, for every class and all flags of a metadata row.        *)
THEOREM PublicAndPrivateRight == Spec => []PublicAndPrivateTold
<1>1. LinesInv => PublicAndPrivateTold
  <2> SUFFICES ASSUME LinesInv, NEW n \in DOMAIN lines
               PROVE  /\ fields[n] \in Field
                      /\ lines[n].labels = Labels(fields[n].flags)
    BY LabelsOfFlags DEF PublicAndPrivateTold
  <2>1. n \in 1..filedIt /\ filedIt \in 0..Len(fields) /\ fields \in Seq(Field)
    BY LenProperties DEF LinesInv
  <2> QED
    BY <2>1, ElementOfSeq, LenProperties DEF LinesInv
<1> QED
  BY <1>1, LinesInvariant, PTL

-----------------------------------------------------------------------------
(* The map from type names to numbers.                                     *)

(* Every enumerator of the map is one of ScriptFieldType.                  *)
LEMMA EnumeratorsOfMap ==
  \A e \in s_ScriptFieldTypeMap :
    \E i \in DOMAIN ScriptFieldType : ScriptFieldType[i] = e[2]
<1>1. DOMAIN ScriptFieldType = 1..18
  BY DEF ScriptFieldType
<1>2. \A e \in SystemTypes : \E i \in 1..18 : ScriptFieldType[i] = e[2]
  BY DEF SystemTypes, ScriptFieldType
<1>3. \A e \in SimengineTypes : \E i \in 1..18 : ScriptFieldType[i] = e[2]
  BY DEF SimengineTypes, ScriptFieldType
<1> QED
  BY <1>1, <1>2, <1>3 DEF s_ScriptFieldTypeMap

(* No enumerator is used for two names.                                    *)
LEMMA MapInjective ==
  \A e, f \in s_ScriptFieldTypeMap : e[2] = f[2] => e[1] = f[1]
BY DEF s_ScriptFieldTypeMap, SystemTypes, SimengineTypes

LEMMA NumberOf ==
  ASSUME NEW e \in s_ScriptFieldTypeMap
  PROVE  /\ Number(e[2]) \in 1..18
         /\ ScriptFieldType[Number(e[2])] = e[2]
<1>1. DOMAIN ScriptFieldType = 1..18
  BY DEF ScriptFieldType
<1> HIDE DEF ScriptFieldType
<1> QED
  BY <1>1, EnumeratorsOfMap DEF Number

(* A number other than None comes from one name only.                      *)
LEMMA NumbersTell ==
  ASSUME NEW s, NEW t,
         MonoTypeToScriptFieldType(s) = MonoTypeToScriptFieldType(t),
         MonoTypeToScriptFieldType(s) # None
  PROVE  s = t
<1> DEFINE Known(n) == \E e \in s_ScriptFieldTypeMap : e[1] = n
           Entry(n) == CHOOSE e \in s_ScriptFieldTypeMap : e[1] = n
<1>1. \A n : Known(n) => Entry(n) \in s_ScriptFieldTypeMap /\ Entry(n)[1] = n
  OBVIOUS
<1>2. \A n : MonoTypeToScriptFieldType(n) = IF Known(n) THEN Number(Entry(n)[2])
                                            ELSE None
  BY DEF MonoTypeToScriptFieldType
<1> HIDE DEF Known, Entry
<1>3. Known(s) /\ Known(t)
  <2>1. Known(s)
    BY <1>2
  <2>2. Known(t)
    BY <1>2
  <2> QED BY <2>1, <2>2
<1>4. Number(Entry(s)[2]) = Number(Entry(t)[2])
  BY <1>2, <1>3
<1>5. Entry(s)[2] = Entry(t)[2]
  BY <1>1, <1>3, <1>4, NumberOf
<1> QED
  BY <1>1, <1>3, <1>5, MapInjective

LEMMA NumberInEnum ==
  ASSUME NEW t
  PROVE  MonoTypeToScriptFieldType(t) \in 0..Len(ScriptFieldType)
<1>1. Len(ScriptFieldType) = 18
  BY DEF ScriptFieldType
<1> HIDE DEF ScriptFieldType
<1>2. CASE \E e \in s_ScriptFieldTypeMap : e[1] = t
  <2> DEFINE entry == CHOOSE e \in s_ScriptFieldTypeMap : e[1] = t
  <2>1. entry \in s_ScriptFieldTypeMap
    BY <1>2
  <2>2. MonoTypeToScriptFieldType(t) = Number(entry[2])
    BY <1>2 DEF MonoTypeToScriptFieldType
  <2> HIDE DEF entry
  <2>3. Number(entry[2]) \in 1..18
    BY <2>1, NumberOf
  <2> QED
    BY <1>1, <2>2, <2>3
<1>3. CASE ~ \E e \in s_ScriptFieldTypeMap : e[1] = t
  <2>1. MonoTypeToScriptFieldType(t) = 0
    BY <1>3 DEF MonoTypeToScriptFieldType, None
  <2> QED
    BY <1>1, <2>1
<1> QED
  BY <1>2, <1>3

(* Fields keep their types, every printed type number is an enumerator and *)
(* there is one line for each field the iterator has returned.             *)
THEOREM TypeCorrect == Spec => []TypeOK
<1>1. LinesInv => TypeOK
  <2> DEFINE Line == [fieldType : {MonoTypeToScriptFieldType(t) : t \in TypeNames},
                      labels    : {Labels(f) : f \in Flags}]
             Shown == [fieldType : 0..Len(ScriptFieldType),
                       labels    : SUBSET {"Public", "Private", "Static"}]
  <2> SUFFICES ASSUME LinesInv PROVE lines \in Seq(Shown)
    BY DEF LinesInv, TypeOK
  <2>1. \A f \in Flags : Labels(f) \subseteq {"Public", "Private", "Static"}
    BY DEF Labels
  <2>2. Line \subseteq Shown
    BY <2>1, NumberInEnum
  <2>3. lines \in Seq(Line)
    BY DEF LinesInv
  <2> HIDE DEF Line, Shown
  <2>4. \A n \in 1..Len(lines) : lines[n] \in Shown
    BY <2>2, <2>3, ElementOfSeq
  <2> QED
    BY <2>3, <2>4, SeqDef
<1> QED
  BY <1>1, LinesInvariant, PTL

(* Two fields that are printed with the same number, other than None, have *)
(* the same type: the hand-written map uses no enumerator twice.           *)
THEOREM TypesTellApart == Spec => []TypesTold
<1>1. LinesInv => TypesTold
  <2> SUFFICES ASSUME LinesInv, NEW m \in DOMAIN lines, NEW n \in DOMAIN lines,
                      lines[m].fieldType = lines[n].fieldType,
                      lines[m].fieldType # None
               PROVE  fields[m].type = fields[n].type
    BY DEF TypesTold
  <2>1. DOMAIN lines = 1..filedIt
    BY LenProperties DEF LinesInv
  <2>2. /\ lines[m].fieldType = MonoTypeToScriptFieldType(fields[m].type)
        /\ lines[n].fieldType = MonoTypeToScriptFieldType(fields[n].type)
    BY <2>1 DEF LinesInv
  <2> QED
    BY <2>2, NumbersTell
<1> QED
  BY <1>1, LinesInvariant, PTL

=============================================================================
