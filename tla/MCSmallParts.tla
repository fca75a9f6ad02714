---------------------------- MODULE MCSmallParts ----------------------------
(* Three parts that have nothing in common but that each is small: the     *)
(* engine describes fields, or it finds the game's files, or rotations are *)
(* made with raymath.  They never meet: kind chooses one.                  *)
EXTENDS MCFieldDescription, WorkingDirectory, Rotations

VARIABLE kind

(* The build tree: the engine is started in build/engine or build/Debug,   *)
(* beside game/Debug; a script may go anywhere in it.                      *)
MCStartDirs == {<<"src", "build", "engine">>, <<"src", "build", "Debug">>}
MCDirectories == MCStartDirs \cup
  {<<"src", "data", "levels">>, <<"home", "user", "saves">>,
   <<"home", "user", "logs">>, <<"tmp", "engine">>, <<"src", "build">>}

(* Half angles of 3-4-5 triangles, and of 0, 180 and 360 degrees.          *)
MCFifths == {<<5, 0>>, <<0, 5>>, <<-5, 0>>, <<3, 4>>, <<4, -3>>, <<-4, 3>>}

(* Of length 1, 1/5 and 2, along an axis, in a plane and between them.     *)
MCAxes == {<<25, 0, 0>>, <<0, -25, 0>>, <<0, 0, 5>>, <<0, 15, -20>>, <<4, 0, 3>>,
           <<30, -24, 32>>}

KindInit == /\ kind \in {"fields", "paths", "rotations"}
            /\ Init /\ PathInit /\ RotationsInit
            /\ kind # "fields" => fields = <<>>
            /\ kind # "paths" => startDir = <<"src", "build", "Debug">>

KindNext ==
  /\ \/ kind = "fields" /\ Next /\ UNCHANGED <<pathVars, rotationVars>>
     \/ kind = "paths" /\ PathNext /\ UNCHANGED <<vars, rotationVars>>
     \/ kind = "rotations" /\ RotationsNext /\ UNCHANGED <<vars, pathVars>>
  /\ UNCHANGED kind

KindSpec == KindInit /\ [][KindNext]_<<vars, pathVars, rotationVars, kind>>
=============================================================================
