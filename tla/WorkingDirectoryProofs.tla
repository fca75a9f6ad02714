------------------------ MODULE WorkingDirectoryProofs ------------------------
(***************************************************************************)
(* The game's files are found wherever managed code moves the process, for *)
(* all directories.  What is to be shown is that an absolute path means    *)
(* the same from everywhere: walking d and then some names from the root   *)
(* is walking those names from d, as long as d does not climb itself.      *)
(***************************************************************************)
EXTENDS WorkingDirectory, SequenceTheorems, WellFoundedInduction, TLAPS

-----------------------------------------------------------------------------
(* Numbers.                                                                *)

(* A set of numbers has a least one.                                       *)
LEMMA Least ==
  ASSUME NEW S, S \subseteq Nat, S # {}
  PROVE  \E n \in S : \A m \in S : n <= m
<1> DEFINE R == OpToRel(<, Nat)
<1>1. IsWellFoundedOn(R, Nat)
  BY NatLessThanWellFounded
<1> HIDE DEF R
<1>2. PICK n \in S : \A m \in S : <<m, n>> \notin R
  BY <1>1, WFMin
<1>3. \A m \in S : ~(m < n)
  BY <1>2 DEF R, OpToRel
<1> QED
  BY <1>3

(* Induction, over the set of the numbers something holds for.             *)
LEMMA Induct ==
  ASSUME NEW S, 0 \in S, \A n \in Nat : n \in S => n + 1 \in S
  PROVE  Nat \subseteq S
<1> SUFFICES ASSUME Nat \ S # {} PROVE FALSE
  OBVIOUS
<1>1. PICK n \in Nat \ S : \A m \in Nat \ S : n <= m
  BY Least
<1>2. n - 1 \in Nat /\ n - 1 \notin Nat \ S
  BY <1>1
<1> QED
  BY <1>1, <1>2

-----------------------------------------------------------------------------
(* Walking a path.                                                         *)

(* One name further.                                                       *)
Enter(dir, name) == IF name = ".." THEN Front(dir) ELSE Append(dir, name)

(* at holds the directories on the way from dir along names.               *)
Walk(dir, names, at) ==
  /\ at[0] = dir
  /\ \A k \in 1..Len(names) : at[k] = Enter(at[k - 1], names[k])

(* Resolve is where a walk along all names ends.                           *)
LEMMA ResolveWalks ==
  ASSUME NEW dir, NEW path, Len(path.names) \in Nat
  PROVE  \E at : /\ Walk(IF path.absolute THEN <<>> ELSE dir, path.names, at)
                 /\ Resolve(dir, path) = at[Len(path.names)]
<1> DEFINE names == path.names
           start == IF path.absolute THEN <<>> ELSE dir
           Body(f, k) == IF k = 0 THEN start
                         ELSE IF names[k] = ".." THEN Front(f[k - 1])
                         ELSE Append(f[k - 1], names[k])
           Solution(n, f) == f = [k \in 0..n |-> Body(f, k)]
           S == {n \in Nat : \E f : Solution(n, f)}
<1>1. 0 \in S
  <2> DEFINE f == [k \in 0..0 |-> start]
  <2>1. f = [k \in 0..0 |-> Body(f, k)]
    OBVIOUS
  <2>2. Solution(0, f)
    BY ONLY <2>1
  <2> QED
    BY <2>2
<1>2. ASSUME NEW n \in Nat, n \in S PROVE n + 1 \in S
  <2>1. PICK f : Solution(n, f)
    BY <1>2
  <2> DEFINE g == [k \in 0..(n + 1) |-> IF k = n + 1 THEN Body(f, k) ELSE f[k]]
  <2>2. \A k \in 0..n : f[k] = Body(f, k)
    BY <2>1
  <2>3. ASSUME NEW k \in 0..(n + 1) PROVE g[k] = Body(g, k)
    <3>1. k = 0 \/ (k # 0 /\ k - 1 \in 0..n /\ g[k - 1] = f[k - 1])
      OBVIOUS
    <3>2. Body(g, k) = Body(f, k)
      BY ONLY <3>1
    <3>3. k \in 0..n => g[k] = f[k]
      OBVIOUS
    <3>4. k = n + 1 => g[k] = Body(f, k)
      OBVIOUS
    <3>5. k \in 0..n \/ k = n + 1
      OBVIOUS
    <3> HIDE DEF g, Body
    <3> QED
      BY ONLY <2>2, <3>2, <3>3, <3>4, <3>5
  <2>4. g = [k \in 0..(n + 1) |-> g[k]]
    OBVIOUS
  <2> HIDE DEF g
  <2>5. Solution(n + 1, g)
    BY ONLY <2>3, <2>4
  <2> HIDE DEF Solution
  <2> QED
    BY <2>5
<1> HIDE DEF S
<1>3. Len(names) \in S
  BY <1>1, <1>2, Induct
<1>4. \E f : Solution(Len(names), f)
  BY <1>3 DEF S
<1>5. Resolve(dir, path) = (CHOOSE f : Solution(Len(names), f))[Len(names)]
  BY DEF Resolve
<1>6. PICK at : Solution(Len(names), at) /\ Resolve(dir, path) = at[Len(names)]
  BY <1>4, <1>5
<1>7. \A k \in 0..Len(names) : at[k] = Body(at, k)
  BY <1>6
<1>8. Walk(start, names, at)
  <2>1. at[0] = start
    BY <1>7
  <2>2. \A k \in 1..Len(names) : at[k] = Enter(at[k - 1], names[k])
    BY <1>7 DEF Enter
  <2> QED
    BY <2>1, <2>2 DEF Walk
<1> QED
  BY <1>6, <1>8

(* Two walks from one directory along the same names agree.                *)
LEMMA WalksAgree ==
  ASSUME NEW dir, NEW names, NEW n \in Nat, Len(names) = n,
         NEW at, Walk(dir, names, at), NEW bt, Walk(dir, names, bt)
  PROVE  at[n] = bt[n]
<1> DEFINE S == {k \in Nat : k <= n => at[k] = bt[k]}
<1>1. 0 \in S
  BY DEF Walk
<1>2. ASSUME NEW k \in Nat, k \in S PROVE k + 1 \in S
  <2>1. CASE k + 1 <= n
    <3>1. k + 1 \in 1..Len(names) /\ (k + 1) - 1 = k
      BY <2>1
    <3>2. /\ at[k + 1] = Enter(at[k], names[k + 1])
          /\ bt[k + 1] = Enter(bt[k], names[k + 1])
      BY <3>1 DEF Walk
    <3> QED
      BY <1>2, <2>1, <3>2
  <2> QED
    BY <2>1
<1> HIDE DEF S
<1>3. n \in S
  BY <1>1, <1>2, Induct
<1> QED
  BY <1>3 DEF S

(* From the root along d one comes to d.                                   *)
LEMMA FromRoot ==
  ASSUME NEW T, NEW d \in Seq(T), \A i \in 1..Len(d) : d[i] # "..",
         NEW names, NEW at, Walk(<<>>, names, at), Len(names) \in Nat,
         Len(d) <= Len(names), \A i \in 1..Len(d) : names[i] = d[i]
  PROVE  at[Len(d)] = d
<1> DEFINE n == Len(d)
           S == {k \in Nat : k <= n => at[k] = SubSeq(d, 1, k)}
<1>1. n \in Nat
  OBVIOUS
<1>2. 0 \in S
  <2>1. SubSeq(d, 1, 0) = <<>>
    OBVIOUS
  <2> QED
    BY <2>1 DEF Walk
<1>3. ASSUME NEW k \in Nat, k \in S PROVE k + 1 \in S
  <2>1. CASE k + 1 <= n
    <3>1. /\ k + 1 \in 1..Len(names) /\ k + 1 \in 1..n /\ (k + 1) - 1 = k
          /\ at[k] = SubSeq(d, 1, k)
      BY <1>3, <2>1
    <3>2. at[k + 1] = Append(at[k], d[k + 1])
      BY <3>1 DEF Walk, Enter
    <3>3. Append(SubSeq(d, 1, k), d[k + 1]) = SubSeq(d, 1, k + 1)
      BY <3>1
    <3>4. at[k + 1] = SubSeq(d, 1, k + 1)
      BY ONLY <3>1, <3>2, <3>3
    <3> QED
      BY <3>4
  <2> QED
    BY <2>1
<1> HIDE DEF S, n
<1>4. n \in S
  BY <1>1, <1>2, <1>3, Induct
<1>5. at[n] = SubSeq(d, 1, n)
  BY <1>1, <1>4 DEF S
<1>6. SubSeq(d, 1, n) = d
  BY DEF n
<1> QED
  BY <1>5, <1>6 DEF n

(* An absolute path means the same from everywhere: to follow names from   *)
(* d, the operating system need not be in d.                               *)
LEMMA AbsoluteFromAnywhere ==
  ASSUME NEW T, NEW d \in Seq(T), \A i \in 1..Len(d) : d[i] # "..",
         NEW names \in Seq(T), NEW dir
  PROVE  Resolve(dir, Path(TRUE, d \o names)) = Resolve(d, Path(FALSE, names))
<1> DEFINE n == Len(d)
           m == Len(names)
           all == d \o names
<1>1. /\ n \in Nat /\ m \in Nat /\ Len(all) = n + m
      /\ \A i \in 1..n : all[i] = d[i]
      /\ \A i \in 1..m : all[n + i] = names[i]
  BY ConcatProperties
<1> HIDE DEF n, m, all
<1>2. PICK at : Walk(<<>>, all, at) /\ Resolve(dir, Path(TRUE, all)) = at[n + m]
  <2> DEFINE p == Path(TRUE, all)
  <2>1. p.absolute /\ p.names = all
    BY DEF Path
  <2> HIDE DEF p
  <2>2. Len(p.names) \in Nat
    BY <1>1, <2>1
  <2>3. \E at : /\ Walk(IF p.absolute THEN <<>> ELSE dir, p.names, at)
                /\ Resolve(dir, p) = at[Len(p.names)]
    BY ONLY <2>2, ResolveWalks
  <2>4. Len(p.names) = n + m
    BY ONLY <1>1, <2>1
  <2>5. (IF p.absolute THEN <<>> ELSE dir) = <<>>
    BY ONLY <2>1
  <2> QED
    BY ONLY <2>1, <2>3, <2>4, <2>5 DEF p
<1>3. PICK bt : Walk(d, names, bt) /\ Resolve(d, Path(FALSE, names)) = bt[m]
  <2> DEFINE p == Path(FALSE, names)
  <2>1. ~p.absolute /\ p.names = names
    BY DEF Path
  <2> HIDE DEF p
  <2>2. Len(p.names) \in Nat
    BY <1>1, <2>1 DEF m
  <2>3. \E bt : /\ Walk(IF p.absolute THEN <<>> ELSE d, p.names, bt)
                /\ Resolve(d, p) = bt[Len(p.names)]
    BY ONLY <2>2, ResolveWalks
  <2>4. (IF p.absolute THEN <<>> ELSE d) = d
    BY ONLY <2>1
  <2> QED
    BY ONLY <2>1, <2>3, <2>4 DEF p, m
<1>4. at[n] = d
  <2>1. n <= Len(all)
    BY <1>1
  <2> QED
    BY <1>1, <1>2, <2>1, FromRoot DEF n
<1> DEFINE ct == [k \in 0..m |-> at[n + k]]
<1>5. Walk(d, names, ct)
  <2>1. ct[0] = d
    BY <1>1, <1>4
  <2>2. ASSUME NEW k \in 1..Len(names)
        PROVE  ct[k] = Enter(ct[k - 1], names[k])
    <3>1. /\ k \in 1..m /\ n + k \in 1..Len(all) /\ (n + k) - 1 = n + (k - 1)
          /\ k - 1 \in 0..m /\ k \in 0..m
      BY <1>1 DEF m
    <3>2. at[n + k] = Enter(at[(n + k) - 1], all[n + k])
      BY <1>2, <3>1 DEF Walk
    <3>3. all[n + k] = names[k]
      BY <1>1, <3>1
    <3> QED
      BY <3>1, <3>2, <3>3
  <2> HIDE DEF ct
  <2> QED
    BY <2>1, <2>2 DEF Walk
<1>6. ct[m] = at[n + m]
  BY <1>1
<1> HIDE DEF ct
<1>7. ct[m] = bt[m]
  BY <1>1, <1>3, <1>5, WalksAgree DEF m
<1> QED
  BY <1>2, <1>3, <1>6, <1>7 DEF all

-----------------------------------------------------------------------------
(* The engine.                                                             *)

(* The path main makes of the game's directory where the process began.    *)
GamePath == append(Path(TRUE, startDir), GameDir)

(* Before scripts run nobody has changed the directory, so that the path   *)
(* fixed then begins where the process was started.                        *)
DirInv ==
  /\ startDir \in StartDirs
  /\ workingDir \in Directories
  /\ pc \in {"initialize", "loadAssembly"} => workingDir = startDir
  /\ basedirs \subseteq {GamePath}
  /\ GameFilesFound

(* What the process was started from is where the game's path leads.       *)
LEMMA GamePathFixed ==
  ASSUME startDir \in StartDirs, NEW dir
  PROVE  Resolve(dir, GamePath) = Resolve(startDir, GameDir)
<1> DEFINE names == <<"..", "game", "Debug">>
           T == STRING \cup {"..", "game", "Debug"}
<1>1. startDir \in Seq(T) /\ \A i \in 1..Len(startDir) : startDir[i] # ".."
  <2>1. startDir \in Seq(STRING) /\ \A i \in 1..Len(startDir) : startDir[i] # ".."
    BY DirectoriesAssumption DEF ToSet
  <2> QED
    BY <2>1
<1>2. names \in Seq(T) /\ GameDir = Path(FALSE, names)
  BY DEF GameDir
<1>3. GamePath = Path(TRUE, startDir \o names)
  BY <1>2 DEF GamePath, append, Path
<1> HIDE DEF names, T
<1> QED
  BY <1>1, <1>2, <1>3, AbsoluteFromAnywhere

LEMMA DirInit == PathInit => DirInv
BY DirectoriesAssumption DEF PathInit, DirInv, GameFilesFound

LEMMA DirStep == DirInv /\ [PathNext]_pathVars => DirInv'
<1> SUFFICES ASSUME DirInv, [PathNext]_pathVars PROVE DirInv'
  OBVIOUS
<1>1. ASSUME startDir' = startDir PROVE GamePath' = GamePath
  BY <1>1 DEF GamePath
<1>2. \A dir : Resolve(dir, GamePath) = Resolve(startDir, GameDir)
  BY GamePathFixed DEF DirInv
<1> USE DEF DirInv, GameFilesFound
<1>3. CASE initialize
  <2>1. startDir' = startDir /\ GamePath' = GamePath
    BY <1>1, <1>3 DEF initialize
  <2> QED
    BY <1>3, <2>1 DEF initialize, LookFor
<1>4. CASE loadAssembly
  <2>1. startDir' = startDir /\ GamePath' = GamePath
    BY <1>1, <1>4 DEF loadAssembly
  <2>2. fromWorkingDir(GameDir) = GamePath
    BY <1>4 DEF loadAssembly, fromWorkingDir, GamePath
  <2> HIDE DEF GamePath
  <2>3. /\ basedirs' = basedirs \cup {GamePath} /\ pc' = "loadClasses"
        /\ workingDir' = workingDir
        /\ opened' = opened \cup
             {[kind |-> "game", at |-> Resolve(workingDir, GamePath)]}
    BY <1>4, <2>2 DEF loadAssembly, LookFor
  <2> QED
    BY <1>2, <2>1, <2>3
<1>5. ASSUME NEW d \in Directories, ChangeDirectory(d) PROVE DirInv'
  <2>1. startDir' = startDir /\ GamePath' = GamePath
    BY <1>1, <1>5 DEF ChangeDirectory
  <2> QED
    BY <1>5, <2>1 DEF ChangeDirectory
<1>6. CASE UseLibrary
  <2>1. startDir' = startDir /\ GamePath' = GamePath
    BY <1>1, <1>6 DEF UseLibrary
  <2> QED
    BY <1>6, <2>1 DEF UseLibrary, LookFor
<1>7. CASE UseReference
  <2>1. startDir' = startDir /\ GamePath' = GamePath
    BY <1>1, <1>7 DEF UseReference
  <2>2. opened' = opened \cup {[kind |-> "game", at |-> Resolve(workingDir, GamePath)]}
    BY <1>7 DEF UseReference, LookFor
  <2> HIDE DEF GamePath
  <2> QED
    BY <1>2, <1>7, <2>1, <2>2 DEF UseReference
<1>8. CASE Return
  <2>1. startDir' = startDir /\ GamePath' = GamePath
    BY <1>1, <1>8 DEF Return
  <2> QED
    BY <1>8, <2>1 DEF Return
<1>9. CASE UNCHANGED pathVars
  <2>1. startDir' = startDir /\ GamePath' = GamePath
    BY <1>1, <1>9 DEF pathVars
  <2> QED
    BY <1>9, <2>1 DEF pathVars
<1> QED
  BY <1>3, <1>4, <1>5, <1>6, <1>7, <1>8, <1>9 DEF PathNext

(* fromWorkingDir has fixed the paths of the assemblies when main ran:     *)
(* whatever directories managed code goes through, in any number and       *)
(* order, the game's files are looked for where main found them.           *)
THEOREM FilesFound == PathSpec => []GameFilesFound
<1>1. DirInv => GameFilesFound
  BY DEF DirInv
<1> QED
  BY <1>1, DirInit, DirStep, PTL DEF PathSpec

=============================================================================
