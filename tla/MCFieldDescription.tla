------------------------- MODULE MCFieldDescription -------------------------
(* Classes of at most two fields.  Every type of the map meets every other *)
(* one and a type the map does not know, and every access with and without *)
(* static meets every other one; and every access occurs with the higher   *)
(* flags: readonly, const (static, literal and a default value), not       *)
(* serialized with a special name, and all of them.                        *)
EXTENDS FieldDescription

MCTypeNames == {e[1] : e \in s_ScriptFieldTypeMap}
                 \cup {"System.String", "System.SByte", "Simengine.BaseScript"}

Accesses == 0..6
HigherFlags == {32, 80 + 32768, 128 + 512, 65528}
Of(type, access, higher) == [type |-> type, flags |-> access + higher]

Typed  == {Of(t, FIELD_ATTRIBUTE_PUBLIC, 0) : t \in MCTypeNames}
Ranged == {Of("System.Int32", a, s) : a \in Accesses, s \in {0, 16}}
Higher == {Of("System.Int32", a, h) : a \in Accesses, h \in HigherFlags}

MCFieldLists == {<<>>} \cup {<<f>> : f \in Ranged \cup Higher}
  \cup {<<f, g>> : f \in Typed, g \in Typed}
  \cup {<<f, g>> : f \in Ranged, g \in Ranged}

=============================================================================
