--------------------------- MODULE GrowableArrays ---------------------------
(***************************************************************************)
(* What the arrays of the bridge are for their callers: sequences, with an *)
(* action for what each call should do to them.                            *)
(***************************************************************************)
EXTENDS SequencesExt

CONSTANT Arrays

VARIABLES
  contents,  \* the items of each array
  promised   \* what the last get or pop should return

Init(nothing) ==
  /\ contents = [a \in Arrays |-> <<>>]
  /\ promised = nothing

Becomes(a, s) == contents' = [contents EXCEPT ![a] = s]

Keep == UNCHANGED <<contents, promised>>

Add(a, x) == Becomes(a, Append(contents[a], x)) /\ UNCHANGED promised

Set(a, i, x) == Becomes(a, [contents[a] EXCEPT ![i] = x]) /\ UNCHANGED promised

Clear(a) == Becomes(a, <<>>) /\ UNCHANGED promised

Copy(a, b) == Becomes(a, contents[b]) /\ UNCHANGED promised

Get(a, i) == promised' = contents[a][i] /\ UNCHANGED contents

Pop(a) == Becomes(a, Front(contents[a])) /\ promised' = Last(contents[a])

=============================================================================
