---------------------------- MODULE HostStartup ----------------------------
(***************************************************************************)
(* main of engine/main.cc up to its call of loadClasses: initialize, which *)
(* brings the Mono runtime up, and the two loadAssembly calls.  Each call  *)
(* into libmono whose result the code looks at is a step of its own, with  *)
(* both outcomes.  main ignores the result of initialize (it prints a      *)
(* message) and that of loadAssembly.                                      *)
(***************************************************************************)
EXTENDS Integers

VARIABLES
  pc,         \* the point main has reached
  domain,     \* the global MonoDomain*, null or not
  mainThread, \* mono_thread_set_main was called
  icalls,     \* Simengine.Debug::Log is registered
  core,       \* *coreAssembly
  app,        \* *appAssembly
  imageRefs   \* ref_count of the game's MonoImage

nullptr == 0

runtime    == <<domain, mainThread, icalls>>
assemblies == <<core, app>>
vars == <<pc, domain, mainThread, icalls, core, app, imageRefs>>

(* Bug: new ScriptAssembly leaves the pointers as they were in memory.     *)
StaleScriptAssembly == [assembly |-> nullptr, image |-> 1]

(* new ScriptAssembly() value-initialises both pointers.                   *)
NewScriptAssembly == [assembly |-> nullptr, image |-> nullptr]

Init ==
  /\ pc = "jitInit"
  /\ domain = nullptr
  /\ mainThread = FALSE
  /\ icalls = FALSE
  /\ core = NewScriptAssembly
  /\ app = NewScriptAssembly
  /\ imageRefs = 0

(* mono_jit_init_version                                                   *)
JitInit ==
  /\ pc = "jitInit"
  /\ domain' \in {nullptr, 1}
  /\ pc' = IF domain' = nullptr THEN "openCore" ELSE "domainSet"
  /\ UNCHANGED <<mainThread, icalls, assemblies, imageRefs>>

(* mono_domain_set; when it fails initialize returns with domain set.      *)
DomainSet ==
  /\ pc = "domainSet"
  /\ pc' \in {"setMain", "openCore"}
  /\ UNCHANGED <<runtime, assemblies, imageRefs>>

SetMain ==
  /\ pc = "setMain"
  /\ mainThread' = TRUE
  /\ pc' = "register"
  /\ UNCHANGED <<domain, icalls, assemblies, imageRefs>>

RegisterCallbacks ==
  /\ pc = "register"
  /\ icalls' = TRUE
  /\ pc' = "openCore"
  /\ UNCHANGED <<domain, mainThread, assemblies, imageRefs>>

(* mono_domain_assembly_open reads the domain it is given.                 *)
NullDomain ==
  /\ pc \in {"openCore", "openApp"}
  /\ domain = nullptr
  /\ pc' = "crashed"
  /\ UNCHANGED <<runtime, assemblies, imageRefs>>

OpenCore ==
  /\ pc = "openCore"
  /\ domain # nullptr
  /\ \E a \in {nullptr, 1} :
       /\ core' = [core EXCEPT !.assembly = a]
       /\ pc' = IF a = nullptr THEN "openApp" ELSE "imageCore"
  /\ UNCHANGED <<runtime, app, imageRefs>>

ImageCore ==
  /\ pc = "imageCore"
  /\ \E i \in {nullptr, 1} : core' = [core EXCEPT !.image = i]
  /\ pc' = "openApp"
  /\ UNCHANGED <<runtime, app, imageRefs>>

(* The assembly that is opened holds the one reference to its image.       *)
OpenApp ==
  /\ pc = "openApp"
  /\ domain # nullptr
  /\ \E a \in {nullptr, 1} :
       /\ app' = [app EXCEPT !.assembly = a]
       /\ imageRefs' = a
       /\ pc' = IF a = nullptr THEN "loadClasses" ELSE "imageApp"
  /\ UNCHANGED <<runtime, core>>

ImageApp ==
  /\ pc = "imageApp"
  /\ \E i \in {nullptr, 1} : app' = [app EXCEPT !.image = i]
  /\ pc' = "loadClasses"
  /\ UNCHANGED <<runtime, core, imageRefs>>

Next ==
  \/ JitInit \/ DomainSet \/ SetMain \/ RegisterCallbacks
  \/ NullDomain \/ OpenCore \/ ImageCore \/ OpenApp \/ ImageApp

=============================================================================
