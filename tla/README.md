# monoPlayground: the script host in TLA+

The repository builds `engine`, a small C++ program that embeds the Mono
runtime, loads two managed assemblies (`EngineApi.dll`, the engine's API for
scripts, and `Game.dll`, the scripts of a game) and serves every class of the
game that derives from `Simengine.BaseScript`: it creates one object, prints
its attributes, properties, fields and methods, runs its constructor and calls
`OnUpdate`. The repository also carries the code the engine is built on that is
compiled from headers: the renderer and the mathematics of raylib, and the inline
code of Mono's runtime. This directory holds models of the program and of that
code, the TLC runs that check them and the TLAPS proofs about them.

## Inventory

The program's own code is about 500 lines. The rest of `src/` is third-party:
mostly declarations and tables of libraries that are present as binaries, but
some headers hold the code itself. Those with state or algorithms of their own
are modelled too.

| Part | Code | State | Operations |
| --- | --- | --- | --- |
| main | `engine/main.cc` 51-77 | the two `ScriptAssembly*` | calls `initialize`, `loadAssembly` twice, `loadClasses`; ignores the results |
| runtime startup | `engine/mono.cpp` 11-16, 61-85 | the global `domain`, the registered internal call, the main thread known to Mono | `initialize`, `RegisterCallbacks` |
| assembly loading | `mono.cpp` 132-146, `mono.h` 52-56 | `ScriptAssembly`: assembly and image pointer | `loadAssembly` |
| script pass | `mono.cpp` 18-38, 148-229 | the vector of classes, the local `object`, loop positions | `GetAssemblyClassList`, `loadClasses` |
| field description | `mono.cpp` 87-128, 208-215, `mono.h` 18-49 | `s_ScriptFieldTypeMap` | `loadFieldDef`, `MonoTypeToScriptFieldType`, `operator<<` |
| Mono runtime (external) | libmono | managed heap, image reference counts, finalizer thread | collection, finalization, every `mono_*` call |
| paths | `engine/Path.h`, `main.cc` 54-63 | the process's working directory | `append`, `fromWorkingDir` |
| reflection cache | `Mono_6.12.0.86/mono/metadata/reflection-cache.h` | the domain's hash table of reflection objects, its lock | `check_object_handle`, `cache_object`, `cache_object_handle`, `check_or_construct_handle` |
| arrays of the collector's bridge | `.../sgen-dynarray.h` | size, capacity and buffer, shared between arrays | the `dyn_array_int_*` and `dyn_array_ptr_*` calls |
| render batch | `raylib/include/rlgl.h` 257-348, 1270-1471, 1777-1813, 2330-2412, 2469-2708, 3867-3877 | vertex buffer, draw calls, texture, shader and blend mode | `rlBegin`, `rlVertex3f`, `rlEnd`, `rlSetTexture`, `rlDrawRenderBatch`, `rlCheckRenderBatchLimit`, `rlSetShader`, `rlSetBlendMode` |
| matrix stack | `rlgl.h` 1038-1231, 1303-1336, 2516-2643 | three matrices, one stack, the pointer to the current matrix | `rlMatrixMode`, `rlPushMatrix`, `rlPopMatrix`, `rlTranslatef`, `rlMultMatrixf`, ... |
| mathematics | `raylib/include/raymath.h` | none | matrices, quaternions, Euler angles, camera |
| managed API | `engineMono/*.cs` | none that matters | stubs; `Debug.Log` is the internal call |
| game scripts | `game/TestScript.cs` | whatever scripts keep | constructors, `OnUpdate`, attribute classes |
| unused code | `get_method`, `main.cc` 6-49 | | never called |

**How the parts interact.** Everything the engine does runs on one thread, by
calls. The interleaving is inside the runtime: managed code (attribute
constructors, script constructors, `OnUpdate`) runs on the host's thread and may
trigger a collection anywhere, and finalizers of collected objects run on a
thread of their own. Host and collector share the managed heap; the host's only
root for a script object is a local variable on its stack. Managed code shares
the working directory with `main`. The reflection cache is entered by every
thread of the runtime. The engine links raylib, and does not call it yet; batch, matrix
stack and mathematics work together in a program that draws: matrices are applied
when a vertex is submitted or when the batch is drawn, and both use `raymath.h`'s
conventions for rotations.

**What is hard.** Almost no call is checked, so the program's correctness under
failure rests on *where* a null pointer or an exception kills it. The behaviours
that a test would hardly reach are: failures of each single call followed by the
rest of the program; the reference count of the game's image after a failed
instance creation; a collection or a finalizer between two steps of the loop
body; metadata that no hand-written game contains (nested classes, equal names,
derived attribute classes); managed code that throws or does not return. In the
libraries they are long sequences of legal calls: a batch that is drawn in the
middle of something, a shared buffer, a lookup without a lock, a matrix popped in
another mode.
`PROJECT.json` lists the hazards by line.

**What makes each part correct.**

* Startup and loading: the loader is entered with consistent pointers, and no
  script runs without both assemblies, whatever fails before.
* Script pass: each script class is constructed once, then updated once on the
  same object, in metadata order; its finalizer comes after its last call; a pass
  that returns has served everybody; after a failed creation no script is
  constructed or updated any more; what is never freed is made once.
* Attributes and fields: what is printed is true of the attribute or field.
* Paths: the files of the game are found wherever scripts change the directory to.
* Reflection cache: one object for each item and reflected type, whatever threads do.
* Arrays: no buffer is lost, freed twice or used after it was freed; each array is
  the sequence its caller has made of it.
* Render batch: every primitive is drawn once, in order, from its own vertices and
  with the state it was submitted under.
* Matrix stack: the matrices are those OpenGL 1.1 would have.
* Mathematics: what is written out several times (rotations as matrices, as
  quaternions, as angles, about an axis) is the same each time.

## Modules

| Module | What it models |
| --- | --- |
| `TypeDefs` | the metadata: TypeDef rows, lookup by name, `GetAssemblyClassList`'s vector, custom attributes |
| `ScriptLoader` | `loadClasses` step by step, the collector and the finalizer thread beside it; all its properties |
| `ScriptContract` | abstract: what the pass promises the scripts, without vectors, positions, heap or images |
| `ScriptRefinement` | the loader seen as an implementation of the contract: the mapping and `ContractSpec` |
| `HostStartup` | `initialize`, the two `loadAssembly` calls and the part of `main` around them |
| `ScriptHost` | the whole program: `HostStartup` followed by `ScriptLoader`, sharing `pc`, the assemblies and the image count |
| `FieldDescription` | the field loop, the type map and the flag tests of `operator<<` |
| `WorkingDirectory` | `Path`, the paths of `main` and `initialize`, and managed code that changes the directory |
| `ReflectionCache` | the functions of `reflection-cache.h`, for threads with nested calls |
| `ReflectionStore` | abstract: an object is published once for its request, and answers are published objects |
| `DynArray` | `sgen-dynarray.h`: int arrays with shared buffers, pointer arrays with single items |
| `GrowableArrays` | abstract: the arrays as sequences, an action for each call |
| `RenderBatch` | vertices, draw calls and state of `rlgl.h`, and a caller that draws with them |
| `ImmediateMode` | abstract: OpenGL 1.1 immediate mode, primitives drawn in order with the state of their moment |
| `RenderBatchRefinement` | the loop of `rlDrawRenderBatch` as the refinement mapping, `ImmediateSpec` |
| `MatrixStack` | the matrix functions of `rlgl.h` beside the stacks of OpenGL 1.1 its caller believes in |
| `RayMath` | the functions of `raymath.h` on matrices, quaternions, angles and axes |
| `Pose` | a body moved by quaternions and by matrices at once, and the camera in its place |
| `Rotations` | three angles and an axis, and every function that makes a rotation of them |
| `MCScriptLoader`, `MCScriptHost`, `MCFieldDescription`, `MCDynArray`, `MCRenderBatch`, `MCSmallParts` | instances for TLC |
| `ScriptHostProofs`, `FieldDescriptionProofs`, `WorkingDirectoryProofs`, `ReflectionCacheProofs`, `DynArrayProofs`, `RenderBatchProofs`, `MatrixProofs` (matrix stack and rotations), `PoseProofs` | theorems |

### State and code: the script host

* `pc` is the point main's thread has reached: `jitInit` ... `imageApp` in the
  startup, `loadClasses`, `classList`, `nextClass` (the head of the range-based
  `for`), then the loop body `newObject`, `attributes` (the attribute loop, `attr`
  is its `i` counted from 1), `init` (`mono_runtime_object_init`), `describe`
  (the three listings), `update`. `returned` is the return of `loadClasses`, which
  `main` follows with `return 0`; `crashed` is the end of the process.
* Pointers are natural numbers and 0 is null. A class is the number of its
  TypeDef row, an object its index in `heap`. `object` is the C++ local and is
  null between two loop bodies, where it does not exist.
* A call into libmono that can fail has one action or disjunct per outcome. Two
  kinds of failure end the process, because the code does not handle them:
  passing null to libmono (`NullImage`, `NullClass`, `NullObject`, `NullDomain`,
  the null field of `AttributeFault`) and an exception that leaves managed code
  (`mono_runtime_invoke` is given no exception slot). A class without a
  parameterless constructor is a third: `mono_runtime_object_init` aborts
  (`NoConstructor`).
* `imageRefs` is `ref_count` of the game's image: the assembly holds 1, and
  `mono_image_close` takes 1 away. An image without references has been freed;
  reading attributes from it may crash (`AttributeFault`) or may not.
* `calls`, `shown` and `listed` are histories, in order and with repetitions: the
  scripts the host has called, the attributes it has constructed and printed, and
  the lists of attributes and of fields it has made. Each entry of `shown` is a run
  of a managed constructor, each entry of `shown` and of `listed` something that
  is never freed.
* `Collect(o)` may take any object that is not the value of the local `object`;
  `Finalize(o)` runs later and in parallel. That the collector finds the local, by
  scanning the host's stack conservatively, is an assumption about sgen (`Rooted`)
  and not a result; what follows from it for the order of calls and finalizers is.
  Managed code may keep an object alive longer, which is an object that `Collect`
  never takes.

### State and code: paths

A path is what `std::filesystem::path` is: absolute or not, and its names.
`Resolve` is what the operating system does with it. `opened` is a history of the
files libmono has looked for: class libraries under the directory of
`mono_set_dirs`, game files where the assemblies were opened.

### State and code: reflection cache

A call is named by its thread and its depth, because the constructor a call runs
may ask the cache itself; a caller's step waits until the calls above it on the
stack have returned. One action is one access to shared state: reading the
pointer to the hash table, looking up an entry without the lock, taking the
domain's lock, making the table, the second look, entering, unlocking. `Check`
and `Cache` are the calls of `check_object_handle`, `check_or_construct_handle`
and `cache_object(_handle)`. `Construct` is external: an error, no object, or an
object; `Load` holds the loader lock, which one thread has at a time and takes
again when it likes. `answers` is a history of what callers got.

### State and code: arrays

An array is the struct: `size`, `capacity` (-1 for a copy) and `data`, which is
null, a buffer, or, with `OPTIMIZATION_SINGLETON_DYN_ARRAY`, the item itself.
`heap` holds the elements of each allocated buffer. The pure functions on one
array and the heap (`ensure_capacity`, `add`, `uninit`, ...) are composed as the
C functions call each other. `GrowableArrays` runs beside them; `returned` and
`promised` are what the last get or pop answered and should have.

### State and code: render batch

`batch.vertices` is the buffer below `vertexCounter`, `batch.draws` the draw
calls below `drawCounter`. A vertex records what its caller meant by it (mode and
place in its primitive), so that what OpenGL assembles can be compared with it;
the texture is that of the draw call, as in the code, and `asked` is what the
caller set: a texture, or none since the last `rlEnd` or draw, the last texture it
ever set, and the blend function. `issued` is what the last call gave to OpenGL. `CloseDraw`,
`CheckLimit`, `NextDraw` are the code `rlBegin` and `rlSetTexture` both contain.
One step is one call of the API. Vertex positions, colors, texture coordinates
and depth are left out; matrices are in `MatrixStack`.

`rlVertex3f` appears in two modules: here for where a vertex is put, in
`MatrixStack` for what it is multiplied by.

### State and code: matrix stack

A matrix is the sequence of its factors in the order in which they apply to a
vertex; `rlMatrixMultiply(left, right)` is `left \o right`. Two matrices are
equal if their factors are, which is finer than equality of numbers.
`currentMatrix` is the name of the matrix the pointer points to. `top` and
`scopes` are the stacks of OpenGL 1.1, kept by the caller. A vertex of `pending`
is the transform it was submitted with and the product it was meant to have.

### State and code: mathematics

A float is a count of 1/`Unit`. A product or quotient that is no such count stops
TLC, so that all results of a run are exact; rounding is left out. An angle is its
cosine and sine. `Unit` and the inputs are chosen so that everything is exact:
the 24 Hurwitz quaternions for `Pose`, half angles of 3-4-5 triangles for
`Rotations`. `Root` of a number without an integer root stops TLC as well.

### What callers are assumed to do

Libraries have callers, and the models contain them. They keep to what the code
can do, and each assumption is a named constant or definition. Where the code does
less than its comments say, the caller that runs into it is shut out, and can be
let in to see the counterexample:

* **Render batch**, `Disciplined`: a caller relies on the room `rlEnd` leaves, or
  reserves room and draws quads only. `MCRenderBatch` includes one that is not
  disciplined. With reservations in all modes `RoomKept` fails for it, without the
  first conjunct: the padding `rlBegin` adds (`rlgl.h:1289`) takes up vertices
  that `rlCheckRenderBatchLimit` ("for a given number of vertex", 2685) had made
  room for. Its quads may lose their texture: when closing a draw call of lines
  draws the batch, the new draw call gets the mode lines, the texture is entered
  there, and `rlBegin(RL_QUADS)` replaces it with the default one (1298).
* **Render batch**, the habit `newFactors`: a caller without it calls
  `rlSetBlendFactors` before it sets the custom mode. Called while the mode is set,
  the factors never reach OpenGL (1780), although 437 says to use the two
  together. `RestlessHabits` is the caller that does so, with a run of its own
  (`blend_factors`); `ImmediateSpec` is about those that do not.
* **Render batch**, quads drawn with no texture set: `rlSetTexture(0)` leaves the
  texture of the draw call (1425-1437), so that such a quad has the default texture
  or, if nothing has drawn the batch since, the last one that was set. The contract
  promises just that (`InUse` of `ImmediateMode`): another texture would be a
  violation, which of the two it is is left open.
* No batch is loaded while another has vertices: `rlLoadRenderBatch` resets the
  one vertex counter of all batches (2342, 900).
* **Matrix stack**, `Careless`: a set of habits, empty in the run. Adding one to
  `MatrixStack.cfg` gives a counterexample to `MatricesAsOpenGL` or
  `DrawnAsSubmitted`: `"pendingChange"` changes projection or modelview under
  vertices that wait (2544, where the batch uses the matrices of its own moment);
  `"fillInScope"` lets `rlEnd` draw within a scope, and pop every matrix for good
  (1317); `"modeInScope"` chooses a mode within a scope, which makes modelview
  current instead of transform (1041); `"identityInScope"` resets transform but
  not the camera's modelview (1082); `"multiplied"` calls `rlMultMatrixf`,
  `rlFrustum` or `rlOrtho` on something else than an identity, where they multiply
  on the other side than `rlTranslatef` (1167); `"afterPop"` goes on after a
  modelview scope within a projection scope, when transform stays current (1072);
  `"deep"` pushes onto a full stack, which is only logged (1050), and violates
  `TypeOK`.
* **Arrays**, `Careless`: likewise for `DynArray.cfg`, `AsPromised` and `BuffersOwned`:
  `"copyEmpty"` copies an empty array over one with a buffer, whose size stays
  while its buffer is freed (`sgen-dynarray.h:125`); `"setAllEmpty"` sets an array
  that holds one item to an empty one, and the next add brings that item back
  (346); `"ensureOne"` makes room for one item, which then counts as an item
  (314). The bridge's callers also leave an array alone while others share its
  buffer, and make a copy independent before they set its elements. The comment
  at 23 says that an array of size 1 has no buffer; one of a larger capacity does.
* **Mathematics**: at a rotation about y by a right angle `QuaternionToEuler`
  answers other angles (`raymath.h:2067`); the quaternion from a vector to its
  opposite is zero (1840); `MatrixRotate` about an axis of length 0 scales
  (1281) where `QuaternionFromAxisAngle` answers the identity; `QuaternionDivide`
  (1744) divides member by member and has no inverse in `QuaternionMultiply`, and
  is left out.
* **Paths**: class libraries are looked for relative to the working directory
  (`main.cc:54`), so that after a script has changed it they are looked for
  elsewhere. `GameFilesFound` is about the game's files only.

### External behaviour assumed of libmono

`mono_class_from_name` finds top-level types only and answers null otherwise;
(namespace, name) is unique among them (ECMA-335, `WellFormed`).
`mono_class_is_subclass_of` and `mono_class_get_method_from_name` see inherited
bases and methods, hence `script` and `update` are facts of a class.
`mono_custom_attrs_get_attr` constructs the first attribute of the class that can
be assigned to the requested one. A class library is opened when it is first
used, a referenced assembly in the directory of the one that references it.

## Runs

| Run | Configuration | Question | Result |
| --- | --- | --- | --- |
| `loader` | `ScriptLoader.cfg` | do the invariants of `ScriptLoader` hold, does the pass end and keep the contract | holds |
| `image_held` | `ImageHeld.cfg` | is an image held while its assembly refers to it | violated |
| `host` | `ScriptHost.cfg` | does the startup hand over a state the loader is specified for, do scripts need both assemblies | holds |
| `initialized` | `HostInitialized.cfg` | does `initialize` succeed before scripts run | violated |
| `field_access` | `FieldAccess.cfg` | are the words right for every access | violated |
| `small_parts` | `SmallParts.cfg` | are field types told apart, are public, private and static told right; are the game's files found wherever the working directory is; do the ways to make a rotation of angles and axes agree | holds |
| `reflection` | `ReflectionCache.cfg` | is there one object for each request, does every call return | holds |
| `arrays` | `DynArray.cfg` | are buffers owned, are arrays the sequences of their callers | holds |
| `batch` | `RenderBatch.cfg` | is everything submitted drawn as OpenGL 1.1 would | holds |
| `blend_factors` | `BlendFactors.cfg` | does OpenGL have the blend factors that were set last | violated |
| `matrices` | `MatrixStack.cfg` | are the matrices those of OpenGL 1.1 | holds |
| `raymath` | `Pose.cfg` | do quaternions, matrices and the camera agree on a body that moves | holds |

The properties, and what each rules out:

* `ScriptsRunOnce`: no script is constructed or updated twice. It holds for
  assemblies without *shadowing*, a nested type whose name (with the empty
  namespace metadata gives it) is that of a global script class: the lookup by
  name lists that script twice, and then it does run twice.
* `ReturnMeansAllRan`: a return of the pass means that every script was served
  and that every row resolved. The second half is how the program treats nested
  types: one nested type, compiler-generated ones included, is a null in the
  vector, and the pass crashes there.
* `FinalizedIsFinished`: collector and finalizer never get ahead of the loop body.
* `ImageNotOverReleased`, `OnlyAttributesAfterClose`: the failure branch of the
  instance creation closes the image and falls through. The attribute loop then
  runs the constructors of the class's menu and editor attributes from the closed
  image, each at most once; the null object ends the process before the loop can
  construct or update a script, go on to another class or close the image again.
* `AttributesShownFirst`, `ShownValuesAreOwn`: no object is constructed before
  all menu and editor attributes of its class were printed, and the value
  printed is the attribute's own unless a derived attribute class is in the way.
* `ContractSpec`: the calls to script code, in order, are those of the abstract
  contract, unless the assembly has shadowing.
* `LeakedOnce`: the strings of `mono_string_to_utf8` and `mono_type_get_name` and
  the attribute lists of `mono_custom_attrs_from_class` are never freed, but in an
  assembly without shadowing each attribute is converted once, and each class has
  its attributes and its fields listed once. The histories are sequences, so that
  a repetition counts.
* `PassEnds`: see fairness.
* `LoaderStart`, `LoadedBeforeScripts`: see above; `main` ignores every result, so
  only the crashes on null pointers make them true.
* `PublicAndPrivateTold`, `TypesTold`: for the accesses C# scripts mostly use, and
  for the type numbers.
* `GameFilesFound`: what the game's assemblies reference is looked for where `main`
  found the assemblies, after any sequence of directory changes.
* `SameObject`, `StoreSpec`: two threads that miss the same entry construct two
  objects, and only one of them is ever handed out; an object whose construction
  failed is not; an entry is never replaced.
* `CallsReturn`: no thread waits for ever for the domain's lock, although
  constructors ask the cache and may hold the loader lock.
* `BuffersOwned`: no sequence of calls leaks a buffer, frees one twice, or leaves
  an array without the buffer it counts on. `AsPromised`: contents and answers are
  those of sequences.
* `RoomKept`, `TextureKept`: the vertices of a primitive that was begun fit, and a
  quad has the texture that was set for it, whatever was closed or drawn since.
  `OffsetsMatch`: the counters of the draw calls, padding included, add up to the
  vertex counter, also when vertices have been lost. `ImmediateSpec`: the
  primitives OpenGL assembles from the buffer by the offsets and indices of
  `rlDrawRenderBatch` are those the caller submitted, once, in order, with their
  mode, texture, shader and blend function.
* `MatricesAsOpenGL`, `DrawnAsSubmitted`: the emulation with one stack and
  transform is right for its caller, and what waits in the batch is still drawn
  with the matrices it was submitted under.
* `PointsAgree`: a quaternion and a matrix that were composed step by step, in
  world or body axes, inverted and converted, take every point to the same place.
  `ViewUndoes`, `ProjectionUndone`: `MatrixLookAt` is the inverse of the body's
  matrix, and `Vector3Unproject` undoes view and projection. `VolumeKept`:
  determinants. `EulerKeepsHeading`: the angles of `QuaternionToEuler` are the whole
  rotation off the right angles about y, and at them still point the x axis where
  the body's does. `EulerAgree`, `AxisAgree`: conversions and constructions agree on
  order, sign and transposition. The 24 attitudes of `Pose` have the angle about y
  at 0 and at both right angles only; the pitches between are in `Rotations`, whose
  angles are those of 3-4-5 triangles, and `EulerAgree` compares them.
* `BlendAsAsked` (violated): OpenGL has the blend function, with its factors, that
  the last `rlSetBlendMode` asked for.

**Findings.** `AssemblyHoldsImage`: after a failed `mono_object_new` the image
that the game's assembly refers to has no reference left. `ScriptsRunInitialized`:
after a failed `mono_domain_set` scripts run without `mono_thread_set_main` and
without the internal call behind `Debug.Log`. `AccessTold`: the access of a field
is compared bit by bit, and an internal field is printed "Public, Private, ".
`BlendAsAsked`: factors set while the custom blend mode is on stay without effect,
also when the mode is set again.

### Bounds

* Assemblies: the `<Module>` row every image begins with and at most three types
  (two in the host runs), chosen from a plain class, a nested class with a name of
  its own, a nested class with a script's name, and scripts with and without
  `OnUpdate`. Three types are enough for two scripts with a row between, before or
  behind them, which is what the loop, the lookup by name and the failure branch
  can tell apart.
* Attributes: lists of at most two. They contain both classes of
  `TestScript.cs`, a class derived from `MenuItem` in front of a `MenuItem`, and
  a foreign `MenuItem` without the field the loader reads.
* Collections and finalizations: every object at every point.
  three types outside it, and all pairs of accesses with and without static, and
  with the flags of const and other high-bit fields.
* Directories: the two build directories, and five others, at different depths.
* Reflection cache: two threads, calls within calls (`MaxDepth` 2), two reflected
  types, two objects (`MaxObjects`), so that two constructions race for one entry.
* Arrays: three int arrays, so that a buffer can have two copies, or two pointer
  arrays; at most three elements (`MaxSize`), which crosses both steps of growth,
  from nothing or a single item to two and from two to four; two buffers
  (`IntBlocks`) or three (`MaxBlocks`) at a time.
* Batch: a buffer of four quads (`ElementCount`) and four draw calls
  (`DrawCalls`), the smallest in which both limits are reached by every mode and a
  draw call can be closed, padded and followed by others; two textures, two
  shaders, two blend modes.
* Matrices: products of two factors, which tell left from right, three nested
  scopes (`MaxStack`), which tell the first entry, one between and the last, and
  two waiting vertices (`EndLimit`).
* Mathematics: 24 attitudes, places within one unit of the origin in each
  direction (`MaxOffset`), points on all sides in front of the camera; six half
  angles in three axes, six axes of three lengths. `small_parts` holds three
  parts that never meet (`kind` chooses one), `FieldDescription`,
  `WorkingDirectory` and `Rotations`, which needs another `Unit` than `Pose`: with
  a common one TLC's numbers would overflow. `CHECK_DEADLOCK` is off there because
  a description and a choice of rotations come to their end.

### Fairness

`FairSpec` of `ScriptLoader` is weakly fair to `NativeStep`, the steps of the host
that run no managed code: the operating system schedules the main thread, and
those calls return. There is no fairness for managed code (`ManagedStep`), because
a script's constructor may loop for ever, and none for the collector. `PassEnds`
therefore says: the process stops, or from some point on the host waits in managed
code.

`FairSpec` of `ReflectionCache` is weakly fair to every call's `Step`: threads are
scheduled, and whoever holds the lock goes on. It is strongly fair to `Construct`,
because a constructor that makes calls is interrupted by them and is enabled again
after each: a constructor makes finitely many calls and ends. Nothing is assumed
about who gets the lock first, beyond weak fairness: the objects are bounded, so
that nobody can be overtaken for ever.

## Proofs

TLC shows the properties for small instances, TLAPS for every value of the
constants: every table of type definitions, every number of threads, every size of
the buffer. The assumptions on constants are named (`AttrAssumption`,
`TablesAssumption`, `FieldListsAssumption`, `DirectoriesAssumption`,
`CacheAssumption`, `ArrayAssumption`, `NullAssumption`, `BatchAssumption`,
`MatrixAssumption`, `UnitAssumption`, `PoseAssumption`, `RotationsAssumption`), and
TLC evaluates them in the runs.

* `ScriptHostProofs`, the loader. *Metadata lemmas*: what the lookup by name returns, the
  vector resolves every top-level row to itself (`TopLevelResolves`), without
  shadowing a script is listed at its own row only (`ScriptAtItsRow`), the search
  for an attribute finds one (`GetAttrType`, by the least element of a non-empty
  set of numbers). *Types* (`TypeCorrect`) need `LoopInv`: `TypeOK` is not
  inductive because `table[classes[pos]].attrs` only has a type when the entry is
  a row of the table, which is true in the loop body only. *The image*
  (`NotOverReleased`, `OnlyAttributesRun`) needs `RefInv`: a lost reference implies
  that the object is null and the pass is between the failed creation and the
  crash; `LeakInv` adds that the attributes shown of the class are those before
  `attr`. *Once* (`RunOnce`) needs `OnceInv`:
  calls made so far belong to rows before `pos`, and to row `pos` once the body
  has made them. *Everybody, and the finalizer last* (`ReturnAfterAll`,
  `FinalizerLast`) need `ServedInv`: every row before `pos` that holds a script
  has been constructed and updated on one object, and every object but the one in
  use has had its calls; a return then means that `pos` is past the table, and
  `Collect` only takes objects that are done. *Attributes* (`AttributesFirst`,
  `ValuesAreOwn`) need `ShownInv`: in the attribute loop everything labelled
  before `attr` has been printed, and each printed value comes from `GetAttr`.
  *Leaks* (`LeaksBounded`) need `LeakInv`: the histories of what was shown and
  listed hold nothing twice and nothing beyond the place the pass has reached, and
  without shadowing two positions of the vector are two classes.
* `ScriptHostProofs`, the contract. `LoaderImplementsContract`: every step of the
  loader is a step of `ScriptContract` or a stutter, in every table without
  shadowing. `pc` gives the contract's `status`, `calls` is the same variable.
  `OnceInv` and `ServedInv` give the guards of the contract (not called before,
  all earlier scripts served); `FreshInv` relates `heap` and `calls`, so that the
  object of a constructor call is new to the history of calls.
* `ScriptHostProofs`, the whole program. `HostInv` says that the startup keeps the
  loader's locals fresh and that the loader's invariants hold from then on; each
  step of the startup is checked against the loader's `Init`, and the loader's own
  step lemmas are reused unchanged. `LoaderStartsRight` and `LoadedBefore` follow.
  `HostScriptsSafe` carries the loader's safety over to the whole program, and
  `HostImplementsContract` its refinement: behind every way the startup may go,
  a step of the startup changes nothing the contract speaks of, a step of the
  loader is what it was, and a crash is the contract's stop.
* `FieldDescriptionProofs`. The arithmetic of the three flag tests for all 2^16
  values of the flags of a metadata row, const fields (0x8000) included, and the invariant that line n describes field n
  (`PublicAndPrivateRight`). `TypesTellApart` treats the type map as a finite
  function with distinct values, `TypeCorrect` bounds the numbers.
* `WorkingDirectoryProofs`. `FilesFound`: `DirInv` says that nobody has moved the
  process before scripts run, so that the path `fromWorkingDir` fixes begins where
  the process was started, and that it is the only one libmono keeps for the
  game. That this path leads to the same place from everywhere is
  `AbsoluteFromAnywhere`, about `Resolve` on directories and paths of any length:
  from the root along d one comes to d, if d has no `..`, and from there on two
  walks along the same names agree.
* `ReflectionCacheProofs`. `CacheInv` says what each call knows between two
  steps: holding the lock means being the domain's lock holder (`Exclusive`), the
  object in hand was made for the request and without an error, the table exists
  from the second look on, the entry is still empty before `Insert` and is the
  object before `Unlock`; and all answers are entries (`TableInv`).
  `SameObjectAlways` follows, and `CacheIsStore` is the whole refinement: each
  step publishes, answers or leaves the store alone.
* `RenderBatchProofs`. `TypeCorrect` needs `SizesInv`: `vertexCounter` stays
  within the buffer although `rlBegin` and `rlSetTexture` pad it, and the list of
  draw calls never fills up. `RoomCorrect` needs `RoomInv`: for a disciplined
  caller every draw call begins at a multiple of 4 and holds whole primitives but
  for the one being submitted, so that the padding of the next `rlBegin` ends at a
  multiple of 4; and between primitives the buffer is either left by `rlEnd` below
  its limit or empty, so that a multiple of 4 leaves room for four vertices.
  `TextureCorrect` needs `TextureInv`: a texture that was asked for is that of the
  current draw call, which otherwise has the default texture or the last one set;
  an empty draw call has the mode of quads, so that `rlBegin` keeps it, and draw
  calls of lines and triangles have the default texture. The habit of
  a caller never changes, so that both are proved for disciplined ones within one
  invariant and hold of all.
* `RenderBatchProofs`, the refinement. `BatchImplementsImmediate`: what is drawn, now or
  later, is what OpenGL 1.1 would have drawn, for buffers of any size, any number
  of draw calls and every disciplined caller. Draw calls are lists over one buffer
  of vertices, and the mapping runs the loop of `rlDrawRenderBatch` over them; the
  lemmas say what a change of the last draw call and of the end of the buffer does
  to the list of primitives: a vertex completes one or none (`VertexDrawn`),
  closing a draw call with its padding none (`ClosedDrawn`), drawing the batch
  moves all from pending to drawn. `CountInv` (the vertices of the draw calls
  with their padding are those of the buffer) is what `OffsetsCorrect` rests on:
  the offset the loop computes for a draw call is the place its first vertex was
  stored at. `ImmediateInv` adds that the vertices of the primitive being
  submitted are the last of the buffer, in order, with the texture of the draw
  call and the state of OpenGL that will draw them. `BlendInv` says that OpenGL has
  the blend function that was asked for, of every caller that leaves the factors
  of the custom mode alone.
* `DynArrayProofs`, under `Careful` (no careless call). `AsPromised` alone is not
  inductive: what an array holds is in its buffer, and a write by another array
  must not reach it. Nor is `BuffersOwned`: a copy borrows a buffer it does not
  own. `ArrayInv` says that every array in use is empty, or owns a buffer of its
  capacity, or holds a single item, or is a copy; that a copy reads the buffer of
  an int array in use that is at least as long; that no buffer has two owners and
  one without an owner is free; and that the contents the caller believes in are
  the elements. Each call is then shown to be a replacement of one array and its
  buffer (`Replaced`, `Swap`) that leaves the other owners' buffers alone. The
  capacity after growth (`GrownFacts`) is an induction over the rounds of
  doubling. The theorems are about `Spec`, int and pointer arrays side by side;
  the run takes one kind at a time to stay small.
* `MatrixProofs`, the matrix stack, under `Careful` (no careless habit).
  `MatricesAsOpenGL` is not inductive: a pop needs to know what was pushed. `PointerInv` ties the
  current matrix to mode and scopes, `ScopeInv` says that modelview scopes are
  innermost, that the first of them has saved the identity in transform, and that
  what OpenGL saved is the entry of the stack times the modelview.
* `PoseProofs`, for every unit that is a multiple of 16 and every bound on the
  place. `PointsAgree` is not inductive: it speaks of the matrix on a few points,
  and the inverse and the quaternion read back depend on every entry.
  `Rigid` (`RigidHolds`) says that the quaternion is four counts of a half with
  norm 4, that the matrix is whole numbers, and that its rotation is the one
  `QuaternionToMatrix` makes of the counts (`Turns`). The lemmas compute each
  function on the counts and show first that no product or quotient in it is
  inexact, so that the definedness of a step is proved along with its result. What
  is left is algebra of integers: `TurnsComposed` (the product of two matrices
  turns as the product of their quaternions, in the other order),
  `AttitudeTurns`, `InvertRotates` (the cofactors of `MatrixInvert` are the
  transposed rotation and the place turned back), `FromMatrix` (each of the four
  branches of `QuaternionFromMatrix` finds the counts or their negatives).
  From `Rigid` the rest follows state by state: `CameraReversed` computes
  `MatrixLookAt` as the same inverse (`ViewUndoesHolds`); `DeterminantMixed`
  evaluates the 24 products for a rigid matrix times a projection
  (`VolumeKeptHolds`); `InvertLens` inverts such a product through its minors, and
  `UnprojectReturns` follows a point through camera, projection, division and back
  (`ProjectionUndoneHolds`); `EulerOfAttitude` finds the angles in the matrix: off
  the right angle about y they leave a rotation about x and z alone
  (`RigidUnlocked`), at it the sine of y is the only entry of the first column
  (`RigidLocked`), and `EulerKeepsHeadingHolds` is both. One algebra covers all 24
  attitudes and all places.
* `MatrixProofs`, the rotations, for every unit that is a multiple of 5^6 and all
  constants of `RotationsAssumption`: half angles of 3-4-5 triangles, and axes
  that `Vector3Normalize` makes counts of 1/25 (`Divisible`; of 1/5, if the axis
  lies in a plane of coordinates, where `QuaternionFromVector3ToVector3` is
  followed). This is the arithmetic in which every product, quotient and root on
  the way is exact: sine and cosine of a half angle are counts of 1/5, those of
  the whole of 1/25, a quaternion of counts of 1/125, its matrix of 1/5^6 (`Over1`
  to `Over4`, `Over`). The invariant `Chosen` only says that angles and axis were
  chosen from the constants; the work is what follows from it in each state. Every
  function is computed on counts (`RotateZYXCounts`, `RotateXYZCounts`,
  `EulerThirds`, `ThirdsTurn`, `ThirdsEuler`, `AxisMatrix`, `AxisThirds`,
  `AxisAngleMoves`), and two results are compared as polynomials in sines and
  cosines. `EulerAgreeHolds`: the product of the three single rotations is the
  matrix of `MatrixRotateZYX` in the one order and of `MatrixRotateXYZ` in the
  other (`ChainsAgree`), and that of the quaternion of half angles, by c^2 + s^2 =
  1 for each half (`EulerTurns`). The angles that `QuaternionToEuler` finds may
  differ from those it started from: beyond a right angle about y, the cosine of y
  changes its sign and x and z turn by 180 degrees, and the matrix is the same
  (`ArcOf`, `SineOf`, `EulerFound`). No angle about y is a right one, since twice
  a square would be 25 (`NoRightAngle`). `AxisAgreeHolds`: `MatrixRotate` has the
  entries of the matrix of `QuaternionFromAxisAngle` (`AxisTurns`),
  `Vector3RotateByAxisAngle` moves a vector as they do, and the cross product and
  the dot product of a vector and its image are multiples of the quaternion, by
  twice its w, so that normalizing gives back the quaternion or its opposite
  (`AcrossImage`, `OntoImage`, `OppositeMoves`).

Every safety property of the passing runs is proved, and so are all refinements
(the contract, for the loader and for the host; the store; immediate mode; for the
arrays `AsPromised` says it state by state). The induction theorems of the library
take an operator, which the provers cannot instantiate; induction over numbers is
done over the set of the numbers something holds for, from the least element of
its complement (`Least`, `Induct`), and a recursive function is unfolded after a
solution of its equation has been shown to exist (`OffsetEquation`,
`ResolveWalks`, `GrownFacts`).

Model-checked only: `PassEnds` and `CallsReturn`, because the proof system does
not reason about fairness and ENABLED. The theorems about `raymath.h` are about
values for which its results are exact; other angles and axes would round, and
rounding is not modelled.

## Not modelled

* The text that is printed, except attribute values, field types and field flags;
  the listings of properties and methods have no effect.
* `get_method`, the classes of `main.cc`: never called. The managed API consists
  of empty classes and stubs.
* The end of the process after `main` returns (no `mono_jit_cleanup` is called).
* Most of Mono's headers: structures, prototypes, opcode lists, and the culture
  and normalization tables, which are the longest files of the repository. There
  is no code in them to translate; the code is in a binary. Their length is why
  the lines the models stand for are a small share of all lines in `src/`.
* `raylib.h`: declarations of a binary.
* The rest of `rlgl.h`: loading of textures, framebuffers, vertex buffers and
  shader programs and the setting of OpenGL state pass their arguments on to
  OpenGL. Of the batch, colors, texture coordinates, depth, additional texture
  units, stereo rendering, and the loading and unloading of batches; of the
  matrices, `rlSetMatrixProjection`, `rlSetMatrixModelview` and stereo.
* The rest of `raymath.h`: `Vector2`, the member by member functions,
  interpolation, `MatrixPerspective` (a `MatrixFrustum` with a tangent). Rounding.
* Overflow of the capacity in `sgen-dynarray.h`, which takes 2^30 elements.

## Plan

1. In place: loader, contract, startup, host, fields, paths, reflection cache,
   arrays, render batch, matrix stack, rotations and camera.
2. Next models: the objects rlgl owns on the GPU (`rlLoadShaderCode` with its
   fallbacks to the default shader, the unloading of batches and programs), the
   handle stack of Mono's `handle.h`; batch and matrix stack composed, with
   `rlEnd`'s pops within a scope.
3. Next proofs: the properties of the models of item 2.
