--------------------------- MODULE WorkingDirectory ---------------------------
(***************************************************************************)
(* The paths of the engine: what main and initialize make of them with     *)
(* Path, and the directory of the process they are resolved in.  The mono  *)
(* directory is kept as it was given, relative to the working directory;   *)
(* the assemblies are opened by absolute paths.  Managed code may change   *)
(* the working directory while libmono still has files to find.            *)
(*                                                                         *)
(* A path is a std::filesystem::path: absolute or not, and its names, ".." *)
(* among them.  Of libmono it is assumed that it opens a class library     *)
(* under the directory of mono_set_dirs when it is first used, and what an *)
(* assembly references in the directory the assembly was opened from.      *)
(***************************************************************************)
EXTENDS Integers, SequencesExt

CONSTANTS
  Directories,  \* absolute directories, as sequences of names
  StartDirs     \* those the process may be started in

ASSUME DirectoriesAssumption ==
  /\ Directories \subseteq Seq(STRING) /\ StartDirs \subseteq Directories
  /\ \A d \in Directories : ".." \notin ToSet(d)

VARIABLES
  pc,
  startDir,    \* where the process was started
  workingDir,  \* std::filesystem::current_path()
  monoLib,     \* the directory given to mono_set_dirs
  basedirs,    \* directories of the assemblies that are open, as paths
  opened       \* the files libmono has looked for: kind and place

pathVars == <<pc, startDir, workingDir, monoLib, basedirs, opened>>

Path(absolute, names) == [absolute |-> absolute, names |-> names]

(* Path::append, operator/ of std::filesystem.                             *)
append(path, value) ==
  IF value.absolute THEN value ELSE [path EXCEPT !.names = @ \o value.names]

(* Bug: the path is left relative.                                         *)
AsGiven(path) == path

fromWorkingDir(path) == append(Path(TRUE, workingDir), path)

(* The directory the operating system finds a path at, name after name.    *)
Resolve(dir, path) ==
  LET at[k \in 0..Len(path.names)] ==
        IF k = 0 THEN IF path.absolute THEN <<>> ELSE dir
        ELSE IF path.names[k] = ".." THEN Front(at[k - 1])
        ELSE Append(at[k - 1], path.names[k])
  IN  at[Len(path.names)]

DataDir == Path(FALSE, <<"..", "..", "data">>)
GameDir == Path(FALSE, <<"..", "game", "Debug">>)
monoDir == append(DataDir, Path(FALSE, <<"mono", "lib">>))

LookFor(kind, path) ==
  opened' = opened \cup {[kind |-> kind, at |-> Resolve(workingDir, path)]}

-----------------------------------------------------------------------------

PathInit ==
  /\ pc = "initialize"
  /\ startDir \in StartDirs
  /\ workingDir = startDir
  /\ monoLib = Path(FALSE, <<>>)
  /\ basedirs = {}
  /\ opened = {}

(* mono_set_dirs, and mono_jit_init_version, which opens the first library.*)
initialize ==
  /\ pc = "initialize"
  /\ monoLib' = monoDir
  /\ LookFor("library", monoDir)
  /\ pc' = "loadAssembly"
  /\ UNCHANGED <<startDir, workingDir, basedirs>>

(* Both calls of loadAssembly, from the same directory.                    *)
loadAssembly ==
  /\ pc = "loadAssembly"
  /\ basedirs' = basedirs \cup {fromWorkingDir(GameDir)}
  /\ LookFor("game", fromWorkingDir(GameDir))
  /\ pc' = "loadClasses"
  /\ UNCHANGED <<startDir, workingDir, monoLib>>

(* Managed code in loadClasses: it may set the current directory, ...      *)
ChangeDirectory(d) ==
  /\ pc = "loadClasses"
  /\ workingDir' = d
  /\ UNCHANGED <<pc, startDir, monoLib, basedirs, opened>>

(* ... use a class library for the first time, ...                         *)
UseLibrary ==
  /\ pc = "loadClasses"
  /\ LookFor("library", monoLib)
  /\ UNCHANGED <<pc, startDir, workingDir, monoLib, basedirs>>

(* ... or a type of an assembly that its own assembly references.          *)
UseReference ==
  /\ pc = "loadClasses"
  /\ \E d \in basedirs : LookFor("game", d)
  /\ UNCHANGED <<pc, startDir, workingDir, monoLib, basedirs>>

Return ==
  /\ pc = "loadClasses"
  /\ pc' = "returned"
  /\ UNCHANGED <<startDir, workingDir, monoLib, basedirs, opened>>

PathNext ==
  \/ initialize \/ loadAssembly
  \/ \E d \in Directories : ChangeDirectory(d)
  \/ UseLibrary \/ UseReference
  \/ Return

PathSpec == PathInit /\ [][PathNext]_pathVars

-----------------------------------------------------------------------------

(* The game's assemblies, and what they reference, are looked for where    *)
(* main found them, however often managed code changes the directory in    *)
(* between: fromWorkingDir has fixed the path when main ran.               *)
GameFilesFound ==
  \A f \in opened : f.kind = "game" => f.at = Resolve(startDir, GameDir)

=============================================================================
