----------------------------- MODULE ScriptHost -----------------------------
(***************************************************************************)
(* The whole run of the engine executable: main starts the runtime and     *)
(* loads the two assemblies (HostStartup), then serves the scripts of the  *)
(* game (ScriptLoader), the collector and the finalizer thread beside it.  *)
(* The two parts share the program counter, the two ScriptAssembly objects *)
(* and the image's reference count.                                        *)
(***************************************************************************)
EXTENDS ScriptLoader

VARIABLES domain, mainThread, icalls

Startup == INSTANCE HostStartup

locals   == <<metadata, pos, object, attr, heap, calls, output>>
hostVars == <<vars, domain, mainThread, icalls>>

HostInit == Startup!Init /\ InitLocals

HostNext ==
  \/ Startup!Next /\ UNCHANGED locals
  \/ Next /\ UNCHANGED <<domain, mainThread, icalls>>

HostSpec == HostInit /\ [][HostNext]_hostVars

-----------------------------------------------------------------------------

(* loadClasses is entered in a state the specification of ScriptLoader     *)
(* starts from, whichever of the calls before it failed: the pointers of   *)
(* an assembly that did not load are null, and the image of the game is    *)
(* counted once if it did.                                                 *)
LoaderStart == pc = "loadClasses" => Init

(* No code of the game runs, the constructors of attributes included, and  *)
(* main does not return 0, unless both assemblies were opened and have     *)
(* images.  main ignores the results of initialize and of loadAssembly, so *)
(* only the crash on a null pointer sees to it.                            *)
LoadedBeforeScripts ==
  calls # <<>> \/ heap # <<>> \/ shown # <<>> \/ pc = "returned" =>
    /\ domain # nullptr
    /\ nullptr \notin {core.assembly, core.image, app.assembly, app.image}

(* What the message "Error mono can not initialized" of main says: without *)
(* the whole of initialize there is no runtime to run scripts in.  main    *)
(* prints it and goes on: after a failed mono_domain_set scripts run       *)
(* without the main thread being set and without Debug.Log.                *)
ScriptsRunInitialized == calls # <<>> => mainThread /\ icalls

=============================================================================
