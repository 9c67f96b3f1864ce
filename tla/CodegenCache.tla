---------------------------- MODULE CodegenCache ----------------------------
(***************************************************************************)
(* CodegenHasher::load: a generated hash function is compiled into a       *)
(* shared library in the build directory of its artifact, and libraries    *)
(* are shared between artifacts through a cache keyed by a fingerprint of  *)
(* the generated code.                                                     *)
(*                                                                         *)
(* A version of the generated code stands for its fingerprint.  Of the     *)
(* modification times only the comparisons that the loader and the build   *)
(* make are kept.  The build is an external program: it compiles what is   *)
(* older than the inputs, links what is older than the objects, and writes *)
(* the library in place, so that a kill may leave it torn.                 *)
(*                                                                         *)
(* Assumed: a directory is emitted into, built by hand or removed only     *)
(* while no loader works in it, and one loader works in it at a time.      *)
(***************************************************************************)
EXTENDS Integers, FiniteSets

CONSTANTS
  Loader,         \* processes that call load
  Dir,            \* codegen directories
  MaxVersion,     \* bound on the versions of the generated code
  MaxKills,       \* bound on the loads that die
  Rollback        \* an older version may be emitted again

Version == 1 .. MaxVersion
None    == 0

ASSUME CodegenAssumption ==
  /\ MaxVersion \in Nat \ {0}
  /\ MaxKills \in Nat
  /\ Rollback \in BOOLEAN

\* A library: the version it was built from and whether it opens. A foreign one
\* was built on another machine, and its dependencies are not met here.
Condition == {"good", "torn", "foreign", "missing"}
Library   == [of : Version \cup {None}, condition : Condition]
Missing   == [of |-> None, condition |-> "missing"]
Exists(library) == library # Missing

VARIABLES
  caching,        \* processes with VORTEX_CODEGEN_BUILD_CACHE set
  inputs,         \* inputs[d]: version of the generated code
  objects,        \* objects[d]: version of the compiled objects
  lib,            \* lib[d]: the library in the build directory
  marker,         \* marker[d]: contents of .vortex_codegen_build_fingerprint
  objects_old,    \* directories whose inputs are newer than the objects
  library_old,    \* ... than the library
  relink,         \* directories whose objects are newer than the library
  cache,          \* cache[f]: the cached library
  pc, dir, fingerprint, restored,   \* of each loader
  opened,         \* opened[p]: the version loaded by p
  kills,
  disturbed       \* directories in which a load died

files   == <<inputs, objects, lib, marker, objects_old, library_old, relink>>
process == <<pc, dir, fingerprint, restored, opened>>
history == <<kills, disturbed>>
vars    == <<caching, files, process, cache, history>>

Working == {"check", "adopted", "restore", "restored", "build", "link",
            "linking", "built", "store", "open"}
Stage   == Working \cup {"idle", "loaded", "failed"}

InUse(d) == \E p \in Loader : pc[p] \in Working /\ dir[p] = d

TypeOK ==
  /\ caching \in SUBSET Loader
  /\ inputs \in [Dir -> Version]
  /\ objects \in [Dir -> Version \cup {None}]
  /\ lib \in [Dir -> Library]
  /\ marker \in [Dir -> Version \cup {None}]
  /\ {objects_old, library_old, relink} \subseteq SUBSET Dir
  /\ cache \in [Version -> Library]
  /\ pc \in [Loader -> Stage]
  /\ dir \in [Loader -> Dir]
  /\ fingerprint \in [Loader -> Version \cup {None}]
  /\ restored \in SUBSET Loader
  /\ opened \in [Loader -> Version \cup {None}]
  /\ \A p \in Loader : opened[p] # None <=> pc[p] = "loaded"
  /\ kills \in 0 .. MaxKills
  /\ disturbed \in SUBSET Dir

\* The artifacts have been emitted; the cache may hold libraries of other
\* machines.
Init ==
  /\ caching \in SUBSET Loader
  /\ inputs = [d \in Dir |-> 1]
  /\ objects = [d \in Dir |-> None]
  /\ lib = [d \in Dir |-> Missing]
  /\ marker = [d \in Dir |-> None]
  /\ objects_old = {}
  /\ library_old = {}
  /\ relink = {}
  /\ cache \in [Version -> Library]
  /\ \A f \in Version : cache[f] \in {Missing, [of |-> f, condition |-> "foreign"]}
  /\ pc = [p \in Loader |-> "idle"]
  /\ dir \in [Loader -> Dir]
  /\ fingerprint = [p \in Loader |-> None]
  /\ restored = {}
  /\ opened = [p \in Loader |-> None]
  /\ kills = 0
  /\ disturbed = {}

GoTo(p, stage) == pc' = [pc EXCEPT ![p] = stage]

\* load: unload, read the manifest, fingerprint the inputs
Load(p) ==
  \E d \in Dir :
    /\ pc[p] \in {"idle", "loaded", "failed"}
    /\ ~InUse(d)
    /\ dir' = [dir EXCEPT ![p] = d]
    /\ fingerprint' = [fingerprint EXCEPT ![p] = inputs[d]]
    /\ restored' = restored \ {p}
    /\ opened' = [opened EXCEPT ![p] = None]
    /\ GoTo(p, "check")
    /\ UNCHANGED <<caching, files, cache, history>>

\* Mutant: any library that exists will do.
AdoptableAtAnyAge(d) == Exists(lib[d])

\* inputs_newer_than_library
Adoptable(d) == Exists(lib[d]) /\ d \notin library_old

Cached(p) == p \in caching /\ Exists(cache[fingerprint[p]])

\* Mutant: an adopted library goes to the cache as well.
CheckStores(p) ==
  LET d == dir[p]
  IN /\ pc[p] = "check"
     /\ GoTo(p, CASE Exists(lib[d]) /\ marker[d] = fingerprint[p] -> "open"
                  [] Exists(lib[d]) /\ marker[d] # fingerprint[p] /\ Adoptable(d) -> "built"
                  [] OTHER -> IF Cached(p) THEN "restore" ELSE "build")
     /\ UNCHANGED <<caching, files, dir, fingerprint, restored, opened, cache, history>>

\* existing_library_is_fresh, and the choice of prepare_codegen_library
Check(p) ==
  LET d == dir[p]
  IN /\ pc[p] = "check"
     /\ GoTo(p, CASE Exists(lib[d]) /\ marker[d] = fingerprint[p] -> "open"
                  [] Exists(lib[d]) /\ marker[d] # fingerprint[p] /\ Adoptable(d) -> "adopted"
                  [] OTHER -> IF Cached(p) THEN "restore" ELSE "build")
     /\ UNCHANGED <<caching, files, dir, fingerprint, restored, opened, cache, history>>

\* copy_file_atomic: the cached library appears at once, with a new time.
Restore(p) ==
  LET d == dir[p]
  IN /\ pc[p] = "restore"
     /\ lib' = [lib EXCEPT ![d] = cache[fingerprint[p]]]
     /\ library_old' = library_old \ {d}
     /\ relink' = relink \ {d}
     /\ GoTo(p, "restored")
     /\ UNCHANGED <<caching, inputs, objects, marker, objects_old, dir, fingerprint,
                    restored, opened, cache, history>>

\* write_text_file of the marker, at its three places
Mark(p) ==
  /\ pc[p] \in {"adopted", "restored", "built"}
  /\ marker' = [marker EXCEPT ![dir[p]] = fingerprint[p]]
  /\ restored' = restored \cup (IF pc[p] = "restored" THEN {p} ELSE {})
  /\ GoTo(p, IF pc[p] = "built" /\ p \in caching THEN "store" ELSE "open")
  /\ UNCHANGED <<caching, inputs, objects, lib, objects_old, library_old, relink, dir,
                 fingerprint, opened, cache, history>>

-----------------------------------------------------------------------------
(* The build, as cmake --build runs it.                                    *)

NeedsCompiling(d) == objects[d] = None \/ d \in objects_old
NeedsLinking(d)   == ~Exists(lib[d]) \/ d \in relink

Compile(p) ==
  LET d == dir[p]
  IN /\ pc[p] = "build"
     /\ IF NeedsCompiling(d)
          THEN /\ objects' = [objects EXCEPT ![d] = inputs[d]]
               /\ objects_old' = objects_old \ {d}
               /\ relink' = relink \cup {d}
          ELSE UNCHANGED <<objects, objects_old, relink>>
     /\ GoTo(p, "link")
     /\ UNCHANGED <<caching, inputs, lib, marker, library_old, dir, fingerprint,
                    restored, opened, cache, history>>

Link(p) ==
  LET d == dir[p]
  IN /\ pc[p] = "link"
     /\ IF NeedsLinking(d)
          THEN /\ lib' = [lib EXCEPT ![d] = [of |-> objects[d], condition |-> "torn"]]
               /\ library_old' = library_old \ {d}
               /\ relink' = relink \ {d}
               /\ GoTo(p, "linking")
          ELSE /\ GoTo(p, "built")
               /\ UNCHANGED <<lib, library_old, relink>>
     /\ UNCHANGED <<caching, inputs, objects, marker, objects_old, dir, fingerprint,
                    restored, opened, cache, history>>

Linked(p) ==
  /\ pc[p] = "linking"
  /\ lib' = [lib EXCEPT ![dir[p]].condition = "good"]
  /\ GoTo(p, "built")
  /\ UNCHANGED <<caching, inputs, objects, marker, objects_old, library_old, relink, dir,
                 fingerprint, restored, opened, cache, history>>

\* store_cached_library
Store(p) ==
  /\ pc[p] = "store"
  /\ cache' = [cache EXCEPT ![fingerprint[p]] = lib[dir[p]]]
  /\ GoTo(p, "open")
  /\ UNCHANGED <<caching, files, dir, fingerprint, restored, opened, history>>

Opens(p) == lib[dir[p]].condition = "good"

\* Mutant: a restored library that does not open is not built again.
OpenOnce(p) ==
  /\ pc[p] = "open"
  /\ opened' = [opened EXCEPT ![p] = IF Opens(p) THEN lib[dir[p]].of ELSE None]
  /\ restored' = restored \ {p}
  /\ GoTo(p, IF Opens(p) THEN "loaded" ELSE "failed")
  /\ UNCHANGED <<caching, files, dir, fingerprint, cache, history>>

\* A library restored from the cache that does not open is built here.
Open(p) ==
  /\ pc[p] = "open"
  /\ opened' = [opened EXCEPT ![p] = IF Opens(p) THEN lib[dir[p]].of ELSE None]
  /\ restored' = restored \ {p}
  /\ GoTo(p, IF Opens(p) THEN "loaded" ELSE IF p \in restored THEN "build" ELSE "failed")
  /\ UNCHANGED <<caching, files, dir, fingerprint, cache, history>>

\* The process dies, or a command or a file operation fails and load throws.
Die(p) ==
  /\ pc[p] \in Working
  /\ kills < MaxKills
  /\ kills' = kills + 1
  /\ disturbed' = disturbed \cup {dir[p]}
  /\ GoTo(p, "idle")
  /\ UNCHANGED <<caching, files, dir, fingerprint, restored, opened, cache>>

-----------------------------------------------------------------------------
(* What happens to an artifact between the loads.                          *)

\* emit_codegen writes every input anew.
Emit(d) ==
  /\ ~InUse(d)
  /\ \E v \in Version :
       /\ v > inputs[d] \/ (Rollback /\ v # inputs[d])
       /\ inputs' = [inputs EXCEPT ![d] = v]
  /\ objects_old' = objects_old \cup {d}
  /\ library_old' = library_old \cup {d}
  /\ UNCHANGED <<caching, objects, lib, marker, relink, process, cache, history>>

\* The commands of the generated README.md: they know nothing of the marker.
BuildByHand(d) ==
  /\ ~InUse(d)
  /\ LET compiled == IF NeedsCompiling(d) THEN inputs[d] ELSE objects[d]
     IN /\ objects' = [objects EXCEPT ![d] = compiled]
        /\ IF NeedsCompiling(d) \/ NeedsLinking(d)
             THEN /\ lib' = [lib EXCEPT ![d] = [of |-> compiled, condition |-> "good"]]
                  /\ library_old' = library_old \ {d}
             ELSE UNCHANGED <<lib, library_old>>
  /\ objects_old' = objects_old \ {d}
  /\ relink' = relink \ {d}
  /\ UNCHANGED <<caching, inputs, marker, process, cache, history>>

\* The build directory is removed.
RemoveBuild(d) ==
  /\ ~InUse(d)
  /\ objects' = [objects EXCEPT ![d] = None]
  /\ lib' = [lib EXCEPT ![d] = Missing]
  /\ marker' = [marker EXCEPT ![d] = None]
  /\ relink' = relink \ {d}
  /\ disturbed' = disturbed \ {d}
  /\ UNCHANGED <<caching, inputs, objects_old, library_old, process, cache, kills>>

Step(p) ==
  \/ Load(p) \/ Check(p) \/ Restore(p) \/ Mark(p) \/ Compile(p) \/ Link(p)
  \/ Linked(p) \/ Store(p) \/ Open(p) \/ Die(p)

Next ==
  \/ \E p \in Loader : Step(p)
  \/ \E d \in Dir : Emit(d) \/ BuildByHand(d) \/ RemoveBuild(d)

Spec == Init /\ [][Next]_vars

-----------------------------------------------------------------------------
(* Properties.                                                             *)

\* store_cached_library is reached only with a whole library of the version
\* that was fingerprinted, however many loads died before it: what another
\* directory restores under a fingerprint is the library of that fingerprint.
CacheHonest ==
  /\ TypeOK
  /\ \A f \in Version :
      Exists(cache[f]) => cache[f].of = f /\ cache[f].condition # "torn"

\* A load that succeeds has opened the library of the generated code it was
\* asked for, whether it was adopted, restored or built.
LoadsCurrent ==
  \A p \in Loader : pc[p] = "loaded" => opened[p] = fingerprint[p]

\* Unless a load died in the same build directory, every load succeeds, also
\* when the library in the cache cannot be opened on this machine.
LoadsSucceed ==
  [][\A p \in Loader :
       pc[p] # "failed" /\ pc'[p] = "failed" => dir[p] \in disturbed]_vars
=============================================================================
