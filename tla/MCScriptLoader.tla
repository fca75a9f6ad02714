--------------------------- MODULE MCScriptLoader ---------------------------
(* Small game assemblies for TLC: the <Module> row every image begins with *)
(* and at most MaxTypes types, among them nested ones, script classes with *)
(* and without OnUpdate, and every combination of attributes that matters. *)
EXTENDS ScriptRefinement

CONSTANT MaxTypes

MCNames == {"<Module>", "A", "B", "N"}
MCValues == {"v", "w"}

\* Menu and Editor are the two attribute classes of game/TestScript.cs,
\* SubMenu a class derived from Menu, Foreign another class called MenuItem
\* that has no field Name.
MCAttrClasses == {"Menu", "Editor", "SubMenu", "Foreign"}
MCAttrName == [Menu |-> "MenuItem", Editor |-> "EditorItem",
               SubMenu |-> "SubMenu", Foreign |-> "MenuItem"]
MCAttrBases == [Menu |-> {"Menu"}, Editor |-> {"Editor"},
                SubMenu |-> {"SubMenu", "Menu"}, Foreign |-> {"Foreign"}]
MCAttrHasField == [Menu |-> TRUE, Editor |-> TRUE, SubMenu |-> TRUE,
                   Foreign |-> FALSE]

At(class, value) == [class |-> class, value |-> value]
TestScriptAttrs == <<At("Menu", "v"), At("Editor", "w")>>
AttrLists == {<<>>, TestScriptAttrs, <<At("SubMenu", "v"), At("Menu", "w")>>,
              <<At("Foreign", "v")>>}

Plain(name, nested) == [name |-> name, nested |-> nested, script |-> FALSE,
                        update |-> FALSE, attrs |-> <<>>]
Script(name, update, attrs) == [name |-> name, nested |-> FALSE,
                                script |-> TRUE, update |-> update,
                                attrs |-> attrs]
ModuleRow == Plain("<Module>", FALSE)

Types == {Plain("B", FALSE), Plain("A", TRUE), Plain("N", TRUE)}
           \cup {Script("A", u, a) : u \in BOOLEAN, a \in AttrLists}
           \cup {Script("B", u, <<>>) : u \in BOOLEAN}

Suffixes == UNION {[1..n -> Types] : n \in 0..MaxTypes}
Image(s) == <<ModuleRow>> \o s

\* (Mapping <<ModuleRow>> over the filtered suffixes makes TLC enumerate the
\* set once.)
MCTables == {Image(s) : s \in {s \in Suffixes : WellFormed(Image(s))}}

=============================================================================
