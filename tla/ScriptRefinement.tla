-------------------------- MODULE ScriptRefinement --------------------------
(***************************************************************************)
(* The loader as an implementation of ScriptContract: the calls to script  *)
(* code are the contract's, and pc tells whether the pass still runs.      *)
(***************************************************************************)
EXTENDS ScriptLoader

status == CASE pc = "returned" -> "returned"
            [] pc = "crashed"  -> "failed"
            [] OTHER           -> "running"

Contract == INSTANCE ScriptContract WITH
  status <- status, table <- table, calls <- calls

(* The loader calls script code as the contract says: a constructor and    *)
(* then OnUpdate for each script, in metadata order, each on the object    *)
(* that was made for it, and it returns only after all of them.  Assemblies*)
(* in which a nested type bears the name of a global script are excepted:  *)
(* the lookup by name serves that script once more.                        *)
ContractSpec ==
  Contract!Init /\ [][NoShadow(table) => Contract!Next]_(Contract!vars)

=============================================================================
