------------------------------ MODULE TypeDefs ------------------------------
(***************************************************************************)
(* The metadata of a script assembly as the loader sees it: the rows of    *)
(* its TypeDef table, the lookup of a class by its name, and the custom    *)
(* attributes of a class.                                                  *)
(*                                                                         *)
(* A class is identified by the number of its TypeDef row, an attribute by *)
(* its index in the MonoCustomAttrInfo of its class; 0 is the null pointer *)
(* everywhere.  What libmono answers about a class is a field of its row:  *)
(* script (mono_class_is_subclass_of BaseScript, which a class inherits)   *)
(* and update (mono_class_get_method_from_name finds a parameterless       *)
(* OnUpdate in the class or in one of its parents).                        *)
(***************************************************************************)
EXTENDS Integers, Sequences

CONSTANTS
  Names,        \* (namespace, name) pairs of types
  Values,       \* the strings attributes are constructed with
  AttrClasses,  \* attribute classes
  AttrName,     \* mono_class_get_name of an attribute class
  AttrBases,    \* the attribute classes it can be assigned to, itself included
  AttrHasField  \* it has the field the loader reads (Name or editorName)

ASSUME AttrAssumption ==
  /\ AttrBases \in [AttrClasses -> SUBSET AttrClasses]
  /\ \A c \in AttrClasses : c \in AttrBases[c]
  /\ AttrHasField \in [AttrClasses -> BOOLEAN]

nullptr == 0

Attribute == [class : AttrClasses, value : Values]

TypeDef == [name   : Names,
            nested : BOOLEAN,
            script : BOOLEAN,
            update : BOOLEAN,
            attrs  : Seq(Attribute)]

(* The rows mono_class_from_name can find.  A nested type has no namespace *)
(* of its own and is only found through its enclosing type.                *)
TopLevel(t) == {c \in DOMAIN t : ~ t[c].nested}

Scripts(t) == {c \in TopLevel(t) : t[c].script}

(* ECMA-335: the full name of a top-level type is unique in its assembly.  *)
WellFormed(t) == \A c, d \in TopLevel(t) : t[c].name = t[d].name => c = d

ClassFromName(t, name) ==
  IF \E c \in TopLevel(t) : t[c].name = name
    THEN CHOOSE c \in TopLevel(t) : t[c].name = name
    ELSE nullptr

(* Bugs: the entries are row numbers from 0; the rows are listed from the  *)
(* last to the first.                                                      *)
RowNumbers(t) == [i \in DOMAIN t |-> ClassFromName(t, t[i].name) - 1]

ReversedClassList(t) ==
  [i \in DOMAIN t |-> ClassFromName(t, t[Len(t) + 1 - i].name)]

(* The vector of GetAssemblyClassList: row i contributes the class that    *)
(* its name resolves to, which for a nested row is not the row's class.    *)
ClassList(t) == [i \in DOMAIN t |-> ClassFromName(t, t[i].name)]

(* A nested row whose name resolves to a top-level script.                 *)
Shadow(t, i) == /\ t[i].nested
                /\ ClassFromName(t, t[i].name) \in Scripts(t)

NoShadow(t) == \A i \in DOMAIN t : ~ Shadow(t, i)

(* The attribute classes the loader prints, matched on the name alone.     *)
Labelled(a) == AttrName[a.class] \in {"MenuItem", "EditorItem"}

(* mono_custom_attrs_get_attr: the first attribute of the class that can   *)
(* be assigned to the requested attribute class.                           *)
GetAttr(attrs, class) ==
  attrs[CHOOSE i \in DOMAIN attrs :
          /\ class \in AttrBases[attrs[i].class]
          /\ \A j \in 1..(i - 1) : class \notin AttrBases[attrs[j].class]]

(* No attribute can be assigned to the class of another one.               *)
Unambiguous(attrs) ==
  \A i, j \in DOMAIN attrs : attrs[j].class \in AttrBases[attrs[i].class] => i = j

=============================================================================
