----------------------------- MODULE MCDynArray -----------------------------
(* A program uses arrays of one kind: the calls for int arrays and those   *)
(* for pointer arrays have no state in common but the heap.                *)
EXTENDS DynArray

CONSTANT IntBlocks   \* bound on the buffers of int arrays

VARIABLE kind

KindInit == Init /\ kind \in {"int", "ptr"}

KindNext ==
  /\ \/ /\ kind = "int" /\ IntNext
        /\ \A b \in Blocks : b > IntBlocks => heap'[b] = <<>>
     \/ kind = "ptr" /\ PtrNext
  /\ UNCHANGED kind

KindSpec == KindInit /\ [][KindNext]_<<vars, kind>>

=============================================================================
