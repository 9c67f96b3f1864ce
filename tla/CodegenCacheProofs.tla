------------------------- MODULE CodegenCacheProofs -------------------------
(***************************************************************************)
(* What the library cache of the codegen loader promises, for any number   *)
(* of loaders, directories, versions and kills.                            *)
(*                                                                         *)
(* None of it is inductive.  That the cache is honest rests on what the    *)
(* loader at "store" knows of the library it copies, and it knows it only  *)
(* by the modification times: a library that is not older than the inputs  *)
(* was made of them (ITimes), nobody else works in the directory (IAlone), *)
(* and the stages before left a whole library there (IStage) -- which a    *)
(* loader that died may not have done, so a torn library must be known to  *)
(* be linked again before it is stored.  That loads succeed needs more: in *)
(* a directory where nobody died a library that is adopted is whole, and   *)
(* one that was restored and does not open will be compiled again          *)
(* (IClean).  That loads are current also needs the marker to tell the     *)
(* version of the library beside it (IMarked), and it does so only while   *)
(* no older version is emitted again: see Rollback.                        *)
(***************************************************************************)
EXTENDS CodegenCache, TLAPS

IType ==
  /\ caching \in SUBSET Loader
  /\ inputs \in [Dir -> Version]
  /\ objects \in [Dir -> Version \cup {None}]
  /\ lib \in [Dir -> Library]
  /\ marker \in [Dir -> Version \cup {None}]
  /\ objects_old \in SUBSET Dir
  /\ library_old \in SUBSET Dir
  /\ relink \in SUBSET Dir
  /\ cache \in [Version -> Library]
  /\ pc \in [Loader -> Stage]
  /\ dir \in [Loader -> Dir]
  /\ fingerprint \in [Loader -> Version \cup {None}]
  /\ restored \in SUBSET Loader
  /\ opened \in [Loader -> Version \cup {None}]
  /\ \A p \in Loader : opened[p] # None <=> pc[p] = "loaded"
  /\ kills \in 0 .. MaxKills
  /\ disturbed \in SUBSET Dir

\* One loader works in a directory, on the version it fingerprinted.
IAlone ==
  /\ \A p, q \in Loader : pc[p] \in Working /\ pc[q] \in Working /\ dir[p] = dir[q] => p = q
  /\ \A p \in Loader : pc[p] \in Working => fingerprint[p] = inputs[dir[p]]

\* What is newer than the inputs was made from them, and a library that is not
\* will be linked again.
DirTimes(d) ==
  /\ objects[d] # None /\ d \notin objects_old => objects[d] = inputs[d]
  /\ Exists(lib[d]) => lib[d].of \in Version
  /\ Exists(lib[d]) /\ d \notin library_old => lib[d].of = inputs[d]
  /\ Exists(lib[d]) /\ d \in library_old => d \in objects_old \/ d \in relink
ITimes == \A d \in Dir : DirTimes(d)

Torn(library) == library.condition = "torn"

\* What a loader may count on at each stage.
StageOf(p, d) ==
  /\ pc[p] \in {"adopted", "restored", "linking", "built", "store", "open"} => Exists(lib[d])
  /\ pc[p] \in {"adopted", "restored", "linking", "built", "store"} => d \notin library_old
  /\ pc[p] = "restore" => Exists(cache[inputs[d]])
  /\ pc[p] = "restored" => ~Torn(lib[d])
  /\ pc[p] = "open" /\ p \in restored => ~Torn(lib[d]) /\ d \notin library_old
  /\ pc[p] = "build" => ~Torn(lib[d]) \/ NeedsCompiling(d) \/ d \in relink
  /\ pc[p] = "link" => /\ ~NeedsCompiling(d)
                       /\ ~Torn(lib[d]) \/ d \in relink
  /\ pc[p] \in {"built", "store"} => ~Torn(lib[d])
  /\ pc[p] \in Working /\ p \in restored => pc[p] = "open"
IStage == \A p \in Loader : StageOf(p, dir[p])

Honest(f) == Exists(cache[f]) => cache[f].of = f /\ ~Torn(cache[f])
ICache == \A f \in Version : Honest(f)

\* Nobody died here: at rest, the library is whole or was never built.
Good(d) == lib[d].condition = "good"
Settled(d) ==
  /\ ~Exists(lib[d]) => objects[d] = None
  /\ Exists(lib[d]) => Good(d)
  /\ Exists(lib[d]) /\ d \in library_old => d \in objects_old
CleanStage(p, d) ==
  /\ pc[p] = "check" => Settled(d)
  /\ pc[p] \in {"adopted", "built", "store"} => Good(d)
  /\ pc[p] \in {"restore", "restored", "build"} => NeedsCompiling(d)
  /\ pc[p] = "link" => d \in relink
  /\ pc[p] = "open" =>
       IF p \in restored THEN NeedsCompiling(d)
       ELSE Good(d) /\ (d \in library_old => d \in objects_old)
IClean ==
  /\ \A d \in Dir : d \notin disturbed /\ ~InUse(d) => Settled(d)
  /\ \A p \in Loader : dir[p] \notin disturbed => CleanStage(p, dir[p])

IInv == IType /\ IAlone /\ ITimes /\ IStage /\ ICache /\ IClean

\* Without an older version emitted again, a marker of the current version means a
\* library of it.
Marked(d) ==
  /\ marker[d] <= inputs[d]
  /\ marker[d] = inputs[d] => Exists(lib[d]) /\ d \notin library_old
IMarked ==
  /\ \A d \in Dir : Marked(d)
  /\ \A p \in Loader : pc[p] = "open" => dir[p] \notin library_old
  /\ LoadsCurrent

-----------------------------------------------------------------------------
\* A missing library is none, and the fields of a library are what was put there.
LEMMA LibraryFacts ==
  /\ Missing \in Library /\ ~Exists(Missing)
  /\ Missing.condition = "missing"
  /\ \A v, c : [of |-> v, condition |-> c].of = v /\ [of |-> v, condition |-> c].condition = c
  BY DEF Missing, Library, Condition, Exists

-----------------------------------------------------------------------------
\* Freshly emitted artifacts and a cache with libraries of other machines.
LEMMA InitIInv == Init => IInv
<1>. SUFFICES ASSUME Init PROVE IInv
  OBVIOUS
<1>. USE DEF Init
<1>1. IType
  <2>1. 1 \in Version /\ 0 \in 0 .. MaxKills
    BY CodegenAssumption DEF Version
  <2>. QED
    BY <2>1, LibraryFacts DEF IType, Stage, Working, None
<1>2. IAlone /\ ITimes /\ IStage
  BY LibraryFacts DEF IAlone, ITimes, DirTimes, IStage, StageOf, Working
<1>3. ICache
  BY LibraryFacts DEF ICache, Honest, Torn, Exists
<1>4. IClean
  BY LibraryFacts DEF IClean, CleanStage, Settled
<1>. QED
  BY <1>1, <1>2, <1>3, <1>4 DEF IInv

-----------------------------------------------------------------------------
\* load takes a directory nobody works in, with the fingerprint of its inputs.
LEMMA LoadIInv == ASSUME IInv, NEW p \in Loader, Load(p) PROVE IInv'
<1>1. IType /\ IAlone /\ ITimes /\ IStage /\ ICache /\ IClean
  BY DEF IInv
<1>2. PICK d \in Dir :
        /\ pc[p] \in {"idle", "loaded", "failed"}
        /\ ~InUse(d)
        /\ dir' = [dir EXCEPT ![p] = d]
        /\ fingerprint' = [fingerprint EXCEPT ![p] = inputs[d]]
        /\ restored' = restored \ {p}
        /\ opened' = [opened EXCEPT ![p] = None]
        /\ pc' = [pc EXCEPT ![p] = "check"]
        /\ UNCHANGED <<caching, files, cache, history>>
  BY DEF Load, GoTo
<1>3. /\ pc' \in [Loader -> Stage] /\ dir' \in [Loader -> Dir]
      /\ fingerprint' \in [Loader -> Version \cup {None}]
      /\ opened' \in [Loader -> Version \cup {None}]
      /\ pc'[p] = "check" /\ dir'[p] = d /\ fingerprint'[p] = inputs[d] /\ opened'[p] = None
      /\ p \notin restored' /\ restored' \in SUBSET Loader
      /\ UNCHANGED <<caching, inputs, objects, lib, marker, objects_old, library_old, relink,
                     cache, kills, disturbed>>
  BY <1>1, <1>2 DEF IType, Stage, Working, files, history
<1>4. ASSUME NEW q \in Loader, q # p
      PROVE  /\ pc'[q] = pc[q] /\ dir'[q] = dir[q] /\ fingerprint'[q] = fingerprint[q]
             /\ opened'[q] = opened[q] /\ (q \in restored' <=> q \in restored)
  BY <1>1, <1>2, <1>4 DEF IType
<1>5. IType'
  BY <1>1, <1>3, <1>4 DEF IType
<1>6. IAlone'
  <2>1. \A q \in Loader : q # p /\ pc'[q] \in Working => dir'[q] # d
    BY <1>2, <1>4 DEF InUse
  <2>2. ASSUME NEW q \in Loader, NEW r \in Loader, pc'[q] \in Working, pc'[r] \in Working,
               dir'[q] = dir'[r]
        PROVE  q = r
    BY <1>1, <1>3, <1>4, <2>1, <2>2 DEF IAlone
  <2>3. ASSUME NEW q \in Loader, pc'[q] \in Working
        PROVE  fingerprint'[q] = inputs'[dir'[q]]
    BY <1>1, <1>3, <1>4, <2>3 DEF IAlone
  <2>. QED
    BY <2>2, <2>3 DEF IAlone
<1>7. ITimes' /\ ICache'
  BY <1>1, <1>3 DEF ITimes, DirTimes, ICache, Honest, Torn
<1>8. IStage'
  <2>1. StageOf(p, dir[p])'
    BY <1>3 DEF StageOf
  <2>2. ASSUME NEW q \in Loader, q # p PROVE StageOf(q, dir[q])'
    BY <1>1, <1>3, <1>4, <2>2 DEF IStage, StageOf, Torn, NeedsCompiling
  <2>. QED
    BY <2>1, <2>2 DEF IStage
<1>9. IClean'
  <2>1. \A e \in Dir : ~InUse(e)' => ~InUse(e) /\ e # d
    <3>1. ASSUME NEW e \in Dir, NEW q \in Loader, pc[q] \in Working, dir[q] = e
          PROVE  pc'[q] \in Working /\ dir'[q] = e
      BY <1>2, <1>4, <3>1 DEF Working
    <3>2. \A e \in Dir : InUse(e) => InUse(e)'
      BY <3>1 DEF InUse
    <3>3. InUse(d)'
      BY <1>3 DEF InUse, Working
    <3>. QED
      BY <3>2, <3>3
  <2>2. ASSUME NEW e \in Dir, e \notin disturbed', ~InUse(e)' PROVE Settled(e)'
    BY <1>1, <1>3, <2>1, <2>2 DEF IClean, Settled, Good
  <2>3. dir'[p] \notin disturbed' => CleanStage(p, dir[p])'
    BY <1>1, <1>2, <1>3 DEF IClean, CleanStage, Settled, Good
  <2>4. ASSUME NEW q \in Loader, q # p, dir'[q] \notin disturbed'
        PROVE  CleanStage(q, dir[q])'
    BY <1>1, <1>3, <1>4, <2>4 DEF IClean, CleanStage, Settled, Good, NeedsCompiling
  <2>. QED
    BY <2>2, <2>3, <2>4 DEF IClean
<1>. QED
  BY <1>5, <1>6, <1>7, <1>8, <1>9 DEF IInv

-----------------------------------------------------------------------------
\* A step inside load: prepare_codegen_library, the build, and dlopen.
Work(p) == \/ Check(p) \/ Restore(p) \/ Mark(p) \/ Compile(p) \/ Link(p) \/ Linked(p)
           \/ Store(p) \/ Open(p)

\* Such a step moves its loader and its directory, and nobody else's.
LEMMA WorkFrame ==
  ASSUME IInv, NEW p \in Loader, Work(p)
  PROVE  /\ pc[p] \in Working /\ dir[p] \in Dir
         /\ UNCHANGED <<caching, inputs, dir, fingerprint, kills, disturbed>>
         /\ \A q \in Loader : q # p =>
              /\ pc'[q] = pc[q] /\ opened'[q] = opened[q]
              /\ (q \in restored' <=> q \in restored)
              /\ (pc[q] \in Working => dir[q] # dir[p])
         /\ \A e \in Dir : e # dir[p] =>
              /\ objects'[e] = objects[e] /\ lib'[e] = lib[e] /\ marker'[e] = marker[e]
              /\ (e \in objects_old' <=> e \in objects_old)
              /\ (e \in library_old' <=> e \in library_old)
              /\ (e \in relink' <=> e \in relink)
<1>. USE DEF GoTo, files
<1>1. IType /\ IAlone
  BY DEF IInv
<1>2. PICK d \in Dir : d = dir[p]
  BY <1>1 DEF IType
<1>3. /\ pc[p] \in Working
      /\ UNCHANGED <<caching, inputs, dir, fingerprint, kills, disturbed>>
  BY DEF Work, Check, Restore, Mark, Compile, Link, Linked, Store, Open, Working, history
<1>5. ASSUME NEW q \in Loader, q # p
      PROVE  /\ pc'[q] = pc[q] /\ opened'[q] = opened[q]
             /\ (q \in restored' <=> q \in restored)
             /\ (pc[q] \in Working => dir[q] # d)
  <2>1. pc[q] \in Working => dir[q] # d
    BY <1>1, <1>2, <1>3, <1>5 DEF IAlone
  <2>2. pc'[q] = pc[q]
    BY <1>1, <1>5 DEF Work, Check, Restore, Mark, Compile, Link, Linked, Store, Open, IType
  <2>3. opened'[q] = opened[q] /\ (q \in restored' <=> q \in restored)
    BY <1>1, <1>5 DEF Work, Check, Restore, Mark, Compile, Link, Linked, Store, Open, IType
  <2>. QED
    BY <2>1, <2>2, <2>3
<1>6. ASSUME NEW e \in Dir, e # d
      PROVE  /\ objects'[e] = objects[e] /\ lib'[e] = lib[e] /\ marker'[e] = marker[e]
             /\ (e \in objects_old' <=> e \in objects_old)
             /\ (e \in library_old' <=> e \in library_old)
             /\ (e \in relink' <=> e \in relink)
  <2>1. CASE Check(p) \/ Store(p) \/ Open(p)
    BY <2>1 DEF Check, Store, Open
  <2>2. CASE Mark(p)
    BY <1>1, <1>2, <1>6, <2>2 DEF Mark, IType
  <2>3. CASE Restore(p) \/ Linked(p)
    BY <1>1, <1>2, <1>6, <2>3 DEF Restore, Linked, IType
  <2>4. CASE Compile(p)
    BY <1>1, <1>2, <1>6, <2>4 DEF Compile, IType
  <2>5. CASE Link(p)
    BY <1>1, <1>2, <1>6, <2>5 DEF Link, IType
  <2>. QED
    BY <2>1, <2>2, <2>3, <2>4, <2>5 DEF Work
<1>. QED
  BY <1>2, <1>3, <1>5, <1>6

\* Each step leaves what the next stage counts on, also in the cache.
LEMMA WorkIInv == ASSUME IInv, NEW p \in Loader, Work(p) PROVE IInv'
<1>. USE DEF GoTo, files
<1>1. IType /\ IAlone /\ ITimes /\ IStage /\ ICache /\ IClean
  BY DEF IInv
<1>2. PICK d \in Dir : d = dir[p]
  BY <1>1 DEF IType
<1>3. /\ pc[p] \in Working
      /\ UNCHANGED <<caching, inputs, dir, fingerprint, kills, disturbed>>
  BY WorkFrame
<1>4. /\ fingerprint[p] = inputs[d] /\ inputs[d] \in Version
      /\ DirTimes(d) /\ StageOf(p, d) /\ (d \notin disturbed => CleanStage(p, d))
      /\ lib[d] \in Library /\ objects[d] \in Version \cup {None}
      /\ cache[inputs[d]] \in Library /\ Honest(inputs[d])
  BY <1>1, <1>2, <1>3 DEF IAlone, IType, ITimes, IStage, ICache, IClean
<1>5. \A q \in Loader : q # p =>
        /\ pc'[q] = pc[q] /\ opened'[q] = opened[q]
        /\ (q \in restored' <=> q \in restored)
        /\ (pc[q] \in Working => dir[q] # d)
  BY <1>2, WorkFrame
<1>6. \A e \in Dir : e # d =>
        /\ objects'[e] = objects[e] /\ lib'[e] = lib[e]
        /\ (e \in objects_old' <=> e \in objects_old)
        /\ (e \in library_old' <=> e \in library_old)
        /\ (e \in relink' <=> e \in relink)
  BY <1>2, WorkFrame
<1>7. /\ cache' \in [Version -> Library] /\ ICache'
      /\ \A f \in Version : Exists(cache[f]) => Exists(cache'[f])
  <2>1. CASE Store(p)
    <3>1. /\ Exists(lib[d]) /\ lib[d].of = inputs[d] /\ ~Torn(lib[d])
      BY <1>4, <2>1 DEF Store, StageOf, DirTimes
    <3>2. cache' = [cache EXCEPT ![inputs[d]] = lib[d]]
      BY <1>2, <1>4, <2>1 DEF Store
    <3>. QED
      BY <1>1, <1>4, <3>1, <3>2 DEF ICache, Honest, Torn, IType
  <2>2. CASE ~Store(p)
    <3>1. cache' = cache
      BY <2>2 DEF Work, Check, Restore, Mark, Compile, Link, Linked, Open
    <3>. QED
      BY <1>1, <3>1 DEF ICache, Honest, Torn, IType
  <2>. QED
    BY <2>1, <2>2
<1>8. IType'
  <2>1. CASE Check(p)
    <3>1. pc' \in [Loader -> Stage] /\ pc'[p] # "loaded"
      BY <1>1, <2>1 DEF Check, IType, Stage, Working
    <3>. QED
      BY <1>1, <1>3, <1>5, <1>7, <2>1, <3>1 DEF Check, IType, Working
  <2>2. CASE Restore(p)
    <3>1. pc' \in [Loader -> Stage] /\ pc'[p] = "restored" /\ lib' \in [Dir -> Library]
      BY <1>1, <1>2, <1>4, <2>2 DEF Restore, IType, Stage, Working
    <3>. QED
      BY <1>1, <1>3, <1>5, <1>7, <2>2, <3>1 DEF Restore, IType, Working
  <2>3. CASE Mark(p)
    <3>1. /\ pc' \in [Loader -> Stage] /\ pc'[p] # "loaded"
          /\ marker' \in [Dir -> Version \cup {None}] /\ restored' \in SUBSET Loader
      BY <1>1, <2>3 DEF Mark, IType, Stage, Working
    <3>. QED
      BY <1>1, <1>3, <1>5, <1>7, <2>3, <3>1 DEF Mark, IType, Working
  <2>4. CASE Compile(p)
    <3>1. /\ pc' \in [Loader -> Stage] /\ pc'[p] = "link"
          /\ objects' \in [Dir -> Version \cup {None}]
          /\ objects_old' \in SUBSET Dir /\ relink' \in SUBSET Dir
      BY <1>1, <1>2, <1>4, <2>4 DEF Compile, IType, Stage, Working
    <3>. QED
      BY <1>1, <1>3, <1>5, <1>7, <2>4, <3>1 DEF Compile, IType, Working
  <2>5. CASE Link(p)
    <3>1. [of |-> objects[d], condition |-> "torn"] \in Library
      BY <1>4 DEF Library, Condition
    <3>2. /\ pc' \in [Loader -> Stage] /\ pc'[p] # "loaded"
          /\ lib' \in [Dir -> Library]
          /\ library_old' \in SUBSET Dir /\ relink' \in SUBSET Dir
      BY <1>1, <1>2, <2>5, <3>1 DEF Link, IType, Stage, Working
    <3>. QED
      BY <1>1, <1>3, <1>5, <1>7, <2>5, <3>2 DEF Link, IType, Working
  <2>6. CASE Linked(p)
    <3>1. [lib[d] EXCEPT !.condition = "good"] \in Library
      BY <1>4 DEF Library, Condition
    <3>2. /\ pc' \in [Loader -> Stage] /\ pc'[p] # "loaded"
          /\ lib' \in [Dir -> Library]
      BY <1>1, <1>2, <2>6, <3>1 DEF Linked, IType, Stage, Working
    <3>. QED
      BY <1>1, <1>3, <1>5, <1>7, <2>6, <3>2 DEF Linked, IType, Working
  <2>7. CASE Store(p)
    <3>1. pc' \in [Loader -> Stage] /\ pc'[p] # "loaded"
      BY <1>1, <2>7 DEF Store, IType, Stage, Working
    <3>. QED
      BY <1>1, <1>3, <1>5, <1>7, <2>7, <3>1 DEF Store, IType, Working
  <2>8. CASE Open(p)
    <3>1. Good(d) => lib[d].of \in Version
      BY <1>4, LibraryFacts DEF Good, DirTimes, Exists
    <3>2. /\ pc' \in [Loader -> Stage] /\ (pc'[p] = "loaded" <=> Good(d))
          /\ opened'[p] = (IF Good(d) THEN lib[d].of ELSE None)
          /\ restored' \in SUBSET Loader
      BY <1>1, <1>2, <2>8 DEF Open, Opens, Good, IType, Stage, Working
    <3>3. opened'[p] # None <=> pc'[p] = "loaded"
      BY <3>1, <3>2 DEF Version, None
    <3>4. opened' \in [Loader -> Version \cup {None}]
      BY <1>1, <1>2, <2>8, <3>1 DEF Open, Opens, Good, IType
    <3>. QED
      BY <1>1, <1>3, <1>5, <1>7, <2>8, <3>2, <3>3, <3>4 DEF Open, IType
  <2>. QED
    BY <2>1, <2>2, <2>3, <2>4, <2>5, <2>6, <2>7, <2>8 DEF Work
<1>9. /\ DirTimes(d)' /\ StageOf(p, dir[p])'
      /\ d \notin disturbed => CleanStage(p, dir[p])'
      /\ d \notin disturbed /\ pc'[p] \notin Working => Settled(d)'
  <2>1. CASE Check(p)
    <3>1. /\ pc[p] = "check"
          /\ UNCHANGED <<objects, lib, objects_old, library_old, relink, restored, opened, cache>>
          /\ pc'[p] \in Working \ {"check"}
          /\ \/ /\ pc'[p] = "open" /\ Exists(lib[d])
             \/ /\ pc'[p] = "adopted" /\ Exists(lib[d]) /\ d \notin library_old
             \/ /\ pc'[p] = "restore" /\ Exists(cache[inputs[d]])
                /\ ~Exists(lib[d]) \/ d \in library_old
             \/ /\ pc'[p] = "build" /\ (~Exists(lib[d]) \/ d \in library_old)
      BY <1>1, <1>2, <1>4, <2>1 DEF Check, IType, Adoptable, Cached, Working
    <3>2. ~Exists(lib[d]) => ~Torn(lib[d])
      BY LibraryFacts DEF Exists, Torn
    <3>. QED
      BY <1>2, <1>3, <1>4, <3>1, <3>2 DEF StageOf, DirTimes, CleanStage, Settled, Good,
         NeedsCompiling, Torn, Working
  <2>2. CASE Restore(p)
    <3>1. /\ pc[p] = "restore" /\ pc'[p] = "restored"
          /\ lib'[d] = cache[inputs[d]] /\ d \notin library_old'
          /\ UNCHANGED <<objects, objects_old, restored, opened, cache>>
      BY <1>1, <1>2, <1>4, <2>2 DEF Restore, IType
    <3>. QED
      BY <1>2, <1>3, <1>4, <3>1 DEF Honest, StageOf, DirTimes, CleanStage, Settled,
         Good, NeedsCompiling, Torn, Working
  <2>3. CASE Mark(p)
    <3>1. /\ pc[p] \in {"adopted", "restored", "built"}
          /\ p \notin restored
          /\ pc'[p] \in {"store", "open"} /\ (pc'[p] = "store" => pc[p] = "built")
          /\ p \in restored' <=> pc[p] = "restored"
          /\ UNCHANGED <<objects, lib, objects_old, library_old, relink, opened, cache>>
      BY <1>1, <1>2, <1>3, <1>4, <2>3 DEF Mark, IType, StageOf
    <3>. QED
      BY <1>2, <1>3, <1>4, <3>1 DEF StageOf, DirTimes, CleanStage, Settled, Good,
         NeedsCompiling, Torn, Working
  <2>4. CASE Compile(p)
    <3>1. /\ pc[p] = "build" /\ pc'[p] = "link"
          /\ UNCHANGED <<lib, library_old, restored, opened, cache>>
          /\ IF NeedsCompiling(d)
             THEN objects'[d] = inputs[d] /\ d \notin objects_old' /\ d \in relink'
             ELSE UNCHANGED <<objects, objects_old, relink>>
      BY <1>1, <1>2, <1>4, <2>4 DEF Compile, IType
    <3>2. inputs[d] # None
      BY <1>4 DEF Version, None
    <3>. QED
      BY <1>2, <1>3, <1>4, <3>1, <3>2 DEF StageOf, DirTimes, CleanStage, Settled, Good,
         NeedsCompiling, Torn, Working
  <2>5. CASE Link(p)
    <3>1. /\ pc[p] = "link"
          /\ UNCHANGED <<objects, objects_old, restored, opened, cache>>
          /\ IF NeedsLinking(d)
             THEN /\ lib'[d] = [of |-> objects[d], condition |-> "torn"]
                  /\ d \notin library_old' /\ pc'[p] = "linking"
             ELSE UNCHANGED <<lib, library_old, relink>> /\ pc'[p] = "built"
      BY <1>1, <1>2, <1>4, <2>5 DEF Link, IType
    <3>2. /\ Exists([of |-> objects[d], condition |-> "torn"])
      BY LibraryFacts DEF Exists
    <3>. QED
      BY <1>2, <1>3, <1>4, <3>1, <3>2, LibraryFacts DEF NeedsLinking, StageOf,
         DirTimes, CleanStage, Settled, Good, NeedsCompiling, Torn, Working
  <2>6. CASE Linked(p)
    <3>1. /\ pc[p] = "linking" /\ pc'[p] = "built"
          /\ lib'[d] = [lib[d] EXCEPT !.condition = "good"]
          /\ UNCHANGED <<objects, objects_old, library_old, relink, restored, opened, cache>>
      BY <1>1, <1>2, <1>4, <2>6 DEF Linked, IType
    <3>2. lib'[d].of = lib[d].of /\ lib'[d].condition = "good"
      BY <1>4, <3>1 DEF Library
    <3>3. Exists(lib'[d])
      BY <3>2, LibraryFacts DEF Exists
    <3>. QED
      BY <1>2, <1>3, <1>4, <3>1, <3>2, <3>3 DEF StageOf, DirTimes, CleanStage, Settled,
         Good, NeedsCompiling, Torn, Working
  <2>7. CASE Store(p)
    <3>1. /\ pc[p] = "store" /\ pc'[p] = "open"
          /\ UNCHANGED <<objects, lib, objects_old, library_old, relink, restored, opened>>
      BY <1>1, <1>2, <1>4, <2>7 DEF Store, IType
    <3>. QED
      BY <1>2, <1>3, <1>4, <3>1 DEF StageOf, DirTimes, CleanStage, Settled, Good,
         NeedsCompiling, Torn, Working
  <2>8. CASE Open(p)
    <3>1. /\ pc[p] = "open" /\ p \notin restored'
          /\ pc'[p] = IF Good(d) THEN "loaded" ELSE IF p \in restored THEN "build" ELSE "failed"
          /\ UNCHANGED <<objects, lib, objects_old, library_old, relink, cache>>
      BY <1>1, <1>2, <1>4, <2>8 DEF Open, Opens, Good, IType
    <3>. QED
      BY <1>2, <1>3, <1>4, <3>1 DEF StageOf, DirTimes, CleanStage, Settled, Good,
         NeedsCompiling, Torn, Working
  <2>. QED
    BY <2>1, <2>2, <2>3, <2>4, <2>5, <2>6, <2>7, <2>8 DEF Work
<1>10. IAlone'
  <2>1. \A q \in Loader : pc'[q] \in Working => pc[q] \in Working
    BY <1>3, <1>5
  <2>. QED
    BY <1>1, <1>3, <2>1 DEF IAlone
<1>11. ITimes'
  <2>1. ASSUME NEW e \in Dir, e # d PROVE DirTimes(e)'
    BY <1>1, <1>3, <1>6, <2>1 DEF ITimes, DirTimes
  <2>. QED
    BY <1>9, <2>1 DEF ITimes
<1>12. IStage'
  <2>1. ASSUME NEW q \in Loader, q # p PROVE StageOf(q, dir[q])'
    <3>1. CASE pc[q] \in Working
      <4>1. dir[q] \in Dir /\ dir[q] # d /\ StageOf(q, dir[q]) /\ inputs[dir[q]] \in Version
        BY <1>1, <1>5, <2>1, <3>1 DEF IType, IStage
      <4>. QED
        BY <1>3, <1>5, <1>6, <1>7, <2>1, <4>1 DEF StageOf, Torn, NeedsCompiling
    <3>2. CASE pc[q] \notin Working
      BY <1>3, <1>5, <2>1, <3>2 DEF StageOf, Working
    <3>. QED
      BY <3>1, <3>2
  <2>. QED
    BY <1>9, <2>1 DEF IStage
<1>13. IClean'
  <2>1. ASSUME NEW e \in Dir, e # d, ~InUse(e)' PROVE ~InUse(e)
    BY <1>2, <1>3, <1>5, <2>1 DEF InUse
  <2>2. ~InUse(d)' => pc'[p] \notin Working
    BY <1>2, <1>3 DEF InUse
  <2>3. ASSUME NEW e \in Dir, e \notin disturbed', ~InUse(e)' PROVE Settled(e)'
    <3>1. CASE e = d
      BY <1>3, <1>9, <2>2, <2>3, <3>1
    <3>2. CASE e # d
      BY <1>1, <1>3, <1>6, <2>1, <2>3, <3>2 DEF IClean, Settled, Good
    <3>. QED
      BY <3>1, <3>2
  <2>4. dir'[p] \notin disturbed' => CleanStage(p, dir[p])'
    BY <1>2, <1>3, <1>9
  <2>5. ASSUME NEW q \in Loader, q # p, dir'[q] \notin disturbed'
        PROVE  CleanStage(q, dir[q])'
    <3>1. CASE pc[q] \in Working
      <4>1. dir[q] \in Dir /\ dir[q] # d /\ CleanStage(q, dir[q])
        BY <1>1, <1>3, <1>5, <2>5, <3>1 DEF IType, IClean
      <4>. QED
        BY <1>3, <1>5, <1>6, <2>5, <4>1 DEF CleanStage, Settled, Good, NeedsCompiling
    <3>2. CASE pc[q] \notin Working
      BY <1>3, <1>5, <2>5, <3>2 DEF CleanStage, Working
    <3>. QED
      BY <3>1, <3>2
  <2>. QED
    BY <2>3, <2>4, <2>5 DEF IClean
<1>. QED
  BY <1>7, <1>8, <1>10, <1>11, <1>12, <1>13 DEF IInv

-----------------------------------------------------------------------------
\* A load that dies leaves its directory disturbed, and as its times tell.
LEMMA DieIInv == ASSUME IInv, NEW p \in Loader, Die(p) PROVE IInv'
<1>1. IType /\ IAlone /\ ITimes /\ IStage /\ ICache /\ IClean
  BY DEF IInv
<1>2. PICK d \in Dir : d = dir[p]
  BY <1>1 DEF IType
<1>3. /\ pc[p] \in Working
      /\ UNCHANGED <<caching, inputs, objects, lib, marker, objects_old, library_old, relink,
                     dir, fingerprint, restored, opened, cache>>
      /\ kills < MaxKills /\ kills' = kills + 1
      /\ disturbed' = disturbed \cup {d}
      /\ pc' = [pc EXCEPT ![p] = "idle"]
  BY <1>2 DEF Die, GoTo, files
<1>4. /\ pc' \in [Loader -> Stage] /\ pc'[p] = "idle"
      /\ \A q \in Loader : q # p => pc'[q] = pc[q]
  BY <1>1, <1>3 DEF IType, Stage
<1>5. IType'
  <2>1. kills' \in 0 .. MaxKills
    BY <1>1, <1>3, CodegenAssumption DEF IType
  <2>2. \A q \in Loader : opened'[q] # None <=> pc'[q] = "loaded"
    BY <1>1, <1>3, <1>4 DEF IType, Working
  <2>. QED
    BY <1>1, <1>3, <1>4, <2>1, <2>2 DEF IType
<1>6. IAlone' /\ ITimes' /\ ICache'
  BY <1>1, <1>3, <1>4 DEF IAlone, ITimes, DirTimes, ICache, Honest, Torn, Working
<1>7. IStage'
  <2>1. ASSUME NEW q \in Loader PROVE StageOf(q, dir[q])'
    BY <1>1, <1>3, <1>4, <2>1 DEF IStage, StageOf, Torn, NeedsCompiling, Working
  <2>. QED
    BY <2>1 DEF IStage
<1>8. IClean'
  <2>1. ASSUME NEW e \in Dir, e \notin disturbed', ~InUse(e)' PROVE Settled(e)'
    <3>1. ~InUse(e)
      BY <1>2, <1>3, <1>4, <2>1 DEF InUse
    <3>. QED
      BY <1>1, <1>3, <2>1, <3>1 DEF IClean, Settled, Good
  <2>2. ASSUME NEW q \in Loader, dir'[q] \notin disturbed' PROVE CleanStage(q, dir[q])'
    BY <1>1, <1>2, <1>3, <1>4, <2>2 DEF IClean, CleanStage, Settled, Good, NeedsCompiling
  <2>. QED
    BY <2>1, <2>2 DEF IClean
<1>. QED
  BY <1>5, <1>6, <1>7, <1>8 DEF IInv

-----------------------------------------------------------------------------
\* Emitting, building by hand and removing the build directory touch one directory
\* that no loader works in.
LEMMA BetweenIInv ==
  ASSUME IInv, NEW d \in Dir, Emit(d) \/ BuildByHand(d) \/ RemoveBuild(d)
  PROVE  IInv'
<1>1. IType /\ IAlone /\ ITimes /\ IStage /\ ICache /\ IClean
  BY DEF IInv
<1>2. /\ ~InUse(d) /\ UNCHANGED <<caching, pc, dir, fingerprint, restored, opened, cache, kills>>
      /\ disturbed' \in {disturbed, disturbed \ {d}}
  BY DEF Emit, BuildByHand, RemoveBuild, process, history
<1>3. ASSUME NEW e \in Dir, e # d
      PROVE  /\ inputs'[e] = inputs[e] /\ objects'[e] = objects[e] /\ lib'[e] = lib[e]
             /\ (e \in objects_old' <=> e \in objects_old)
             /\ (e \in library_old' <=> e \in library_old)
             /\ (e \in relink' <=> e \in relink)
             /\ (e \in disturbed' <=> e \in disturbed)
  <2>1. CASE Emit(d)
    BY <1>1, <1>3, <2>1 DEF Emit, IType, history
  <2>2. CASE BuildByHand(d)
    BY <1>1, <1>3, <2>2 DEF BuildByHand, IType, history
  <2>3. CASE RemoveBuild(d)
    BY <1>1, <1>3, <2>3 DEF RemoveBuild, IType
  <2>. QED
    BY <2>1, <2>2, <2>3
<1>4. /\ DirTimes(d) /\ inputs[d] \in Version /\ objects[d] \in Version \cup {None}
      /\ lib[d] \in Library /\ (d \notin disturbed => Settled(d))
  BY <1>1, <1>2 DEF IType, ITimes, IClean
<1>5. /\ DirTimes(d)' /\ (d \notin disturbed' => Settled(d)')
  <2>1. CASE Emit(d)
    <3>1. /\ d \in objects_old' /\ d \in library_old'
          /\ UNCHANGED <<objects, lib, disturbed>>
      BY <2>1 DEF Emit, history
    <3>. QED
      BY <1>4, <3>1 DEF DirTimes, Settled, Good
  <2>2. CASE BuildByHand(d)
    <3>1. PICK v : v = IF NeedsCompiling(d) THEN inputs[d] ELSE objects[d]
      OBVIOUS
    <3>2. v = inputs[d] /\ v \in Version
      BY <1>4, <3>1 DEF DirTimes, NeedsCompiling
    <3>3. /\ objects'[d] = v /\ d \notin objects_old' /\ UNCHANGED <<inputs, disturbed>>
          /\ d \notin relink'
          /\ IF NeedsCompiling(d) \/ NeedsLinking(d)
             THEN lib'[d] = [of |-> v, condition |-> "good"] /\ d \notin library_old'
             ELSE UNCHANGED <<lib, library_old>>
      BY <1>1, <2>2, <3>1 DEF BuildByHand, IType, history
    <3>4. Exists([of |-> v, condition |-> "good"])
      BY LibraryFacts DEF Exists
    <3>5. CASE NeedsCompiling(d) \/ NeedsLinking(d)
      BY <3>2, <3>3, <3>4, <3>5, LibraryFacts DEF DirTimes, Settled, Good
    <3>6. CASE ~(NeedsCompiling(d) \/ NeedsLinking(d))
      BY <1>4, <3>2, <3>3, <3>6 DEF DirTimes, Settled, Good, NeedsCompiling, NeedsLinking
    <3>. QED
      BY <3>5, <3>6
  <2>3. CASE RemoveBuild(d)
    <3>1. lib'[d] = Missing /\ objects'[d] = None
      BY <1>1, <2>3 DEF RemoveBuild, IType
    <3>. QED
      BY <3>1, LibraryFacts DEF DirTimes, Settled
  <2>. QED
    BY <2>1, <2>2, <2>3
<1>6. IType'
  <2>1. CASE Emit(d)
    BY <1>1, <2>1 DEF Emit, IType, process, history
  <2>2. CASE BuildByHand(d)
    <3>1. \A v \in Version \cup {None} : [of |-> v, condition |-> "good"] \in Library
      BY DEF Library, Condition
    <3>2. /\ objects' \in [Dir -> Version \cup {None}] /\ lib' \in [Dir -> Library]
          /\ objects_old' \in SUBSET Dir /\ library_old' \in SUBSET Dir
          /\ relink' \in SUBSET Dir
      BY <1>1, <1>4, <2>2, <3>1 DEF BuildByHand, IType
    <3>3. UNCHANGED <<inputs, marker, disturbed>>
      BY <2>2 DEF BuildByHand, history
    <3>. QED
      BY <1>1, <1>2, <3>2, <3>3 DEF IType
  <2>3. CASE RemoveBuild(d)
    BY <1>1, <2>3, LibraryFacts DEF RemoveBuild, IType, process
  <2>. QED
    BY <2>1, <2>2, <2>3
<1>7. \A q \in Loader : pc[q] \in Working => dir[q] # d
  BY <1>2 DEF InUse
<1>8. IAlone' /\ ICache'
  BY <1>1, <1>2, <1>3, <1>7 DEF IAlone, ICache, Honest, Torn, IType
<1>9. ITimes'
  <2>1. ASSUME NEW e \in Dir, e # d PROVE DirTimes(e)'
    BY <1>1, <1>3, <2>1 DEF ITimes, DirTimes
  <2>. QED
    BY <1>5, <2>1 DEF ITimes
<1>10. IStage'
  <2>1. ASSUME NEW q \in Loader PROVE StageOf(q, dir[q])'
    <3>1. CASE pc[q] \in Working
      <4>1. dir[q] \in Dir /\ dir[q] # d /\ StageOf(q, dir[q])
        BY <1>1, <1>7, <3>1 DEF IType, IStage
      <4>. QED
        BY <1>2, <1>3, <4>1 DEF StageOf, Torn, NeedsCompiling
    <3>2. CASE pc[q] \notin Working
      BY <1>2, <3>2 DEF StageOf, Working
    <3>. QED
      BY <3>1, <3>2
  <2>. QED
    BY <2>1 DEF IStage
<1>11. IClean'
  <2>1. ASSUME NEW e \in Dir, e \notin disturbed', ~InUse(e)' PROVE Settled(e)'
    <3>1. ~InUse(e)
      BY <1>2, <2>1 DEF InUse
    <3>. QED
      BY <1>1, <1>3, <1>5, <2>1, <3>1 DEF IClean, Settled, Good
  <2>2. ASSUME NEW q \in Loader, dir'[q] \notin disturbed' PROVE CleanStage(q, dir[q])'
    <3>1. CASE pc[q] \in Working
      <4>1. dir[q] \in Dir /\ dir[q] # d
        BY <1>1, <1>7, <3>1 DEF IType
      <4>2. CleanStage(q, dir[q])
        BY <1>1, <1>2, <1>3, <2>2, <4>1 DEF IClean
      <4>. QED
        BY <1>2, <1>3, <4>1, <4>2 DEF CleanStage, Settled, Good, NeedsCompiling
    <3>2. CASE pc[q] \notin Working
      BY <1>2, <3>2 DEF CleanStage, Working
    <3>. QED
      BY <3>1, <3>2
  <2>. QED
    BY <2>1, <2>2 DEF IClean
<1>. QED
  BY <1>6, <1>8, <1>9, <1>10, <1>11 DEF IInv

-----------------------------------------------------------------------------
\* Every step preserves the invariant.
LEMMA NextIInv == IInv /\ [Next]_vars => IInv'
<1>. SUFFICES ASSUME IInv, [Next]_vars PROVE IInv'
  OBVIOUS
<1>1. ASSUME NEW p \in Loader, Step(p) PROVE IInv'
  BY <1>1, LoadIInv, WorkIInv, DieIInv DEF Step, Work
<1>2. ASSUME NEW d \in Dir, Emit(d) \/ BuildByHand(d) \/ RemoveBuild(d) PROVE IInv'
  BY <1>2, BetweenIInv
<1>3. CASE UNCHANGED vars
  <2>1. UNCHANGED <<caching, inputs, objects, lib, marker, objects_old, library_old, relink,
                    pc, dir, fingerprint, restored, opened, cache, kills, disturbed>>
    BY <1>3 DEF vars, files, process, history
  <2>2. IType' /\ IAlone' /\ ITimes' /\ ICache'
    BY <2>1 DEF IInv, IType, IAlone, ITimes, DirTimes, ICache, Honest, Torn
  <2>3. IStage'
    BY <2>1 DEF IInv, IStage, StageOf, Torn, NeedsCompiling
  <2>4. IClean'
    BY <2>1 DEF IInv, IClean, CleanStage, Settled, Good, InUse, NeedsCompiling
  <2>. QED
    BY <2>2, <2>3, <2>4 DEF IInv
<1>. QED
  BY <1>1, <1>2, <1>3 DEF Next

\* The invariant holds in every state of every behaviour.
LEMMA Invariance == Spec => []IInv
  BY InitIInv, NextIInv, PTL DEF Spec

\* store_cached_library copies only a whole library of the version that was
\* fingerprinted: no loader that died before it, in any directory, can make the cache
\* return a torn library or one of another version.
THEOREM CacheIsHonest == Spec => []CacheHonest
<1>1. IInv => CacheHonest
  BY DEF IInv, IType, ICache, Honest, Torn, CacheHonest, TypeOK
<1>. QED
  BY <1>1, Invariance, PTL

\* load fails only in a build directory where an earlier load died: a restored library
\* that cannot be opened is built again, and a library that was adopted, by its time or
\* by its marker, opens.
THEOREM LoadsDoSucceed == Spec => LoadsSucceed
<1>. DEFINE Succeeds == \A p \in Loader :
                          pc[p] # "failed" /\ pc'[p] = "failed" => dir[p] \in disturbed
<1>1. IInv /\ [Next]_vars => Succeeds
  <2>. SUFFICES ASSUME IInv, [Next]_vars, NEW p \in Loader,
                       pc[p] # "failed", pc'[p] = "failed"
                PROVE  dir[p] \in disturbed
    OBVIOUS
  <2>1. pc \in [Loader -> Stage]
    BY DEF IInv, IType
  <2>2. PICK q \in Loader : Step(q)
    BY DEF Next, Emit, BuildByHand, RemoveBuild, vars, process
  <2>3. q = p
    BY <2>1, <2>2 DEF Step, Load, Check, Restore, Mark, Compile, Link, Linked, Store,
       Open, Die, GoTo
  <2>4. Open(p)
    BY <2>1, <2>2, <2>3 DEF Step, Load, Check, Restore, Mark, Compile, Link, Linked, Store,
       Open, Die, GoTo, Working
  <2>5. pc[p] = "open" /\ ~Good(dir[p]) /\ p \notin restored
    BY <2>1, <2>4 DEF Open, Opens, Good, GoTo
  <2>. QED
    BY <2>5 DEF IInv, IClean, CleanStage
<1>2. IInv /\ [Next]_vars => [Succeeds]_vars
  BY <1>1
<1>. QED
  BY <1>2, Invariance, PTL DEF Spec, LoadsSucceed

-----------------------------------------------------------------------------
\* No marker has been written, and nobody has loaded anything.
LEMMA InitIMarked == Init => IMarked
  BY CodegenAssumption DEF Init, IMarked, Marked, LoadsCurrent, None

\* The marker is written (at its three places) only beside a library of that version,
\* and the library that is opened is one the times or the marker vouch for.
LEMMA MarkedWork == ASSUME IInv, IMarked, NEW p \in Loader, Work(p) PROVE IMarked'
<1>. USE DEF GoTo, files
<1>1. IType /\ IAlone /\ ITimes /\ IStage
  BY DEF IInv
<1>2. PICK d \in Dir : d = dir[p]
  BY <1>1 DEF IType
<1>3. /\ pc[p] \in Working
      /\ UNCHANGED <<caching, inputs, dir, fingerprint, kills, disturbed>>
  BY WorkFrame
<1>4. /\ fingerprint[p] = inputs[d] /\ inputs[d] \in Version
      /\ DirTimes(d) /\ StageOf(p, d) /\ Marked(d)
      /\ (pc[p] = "open" => d \notin library_old)
      /\ pc[p] # "loaded"
  BY <1>1, <1>2, <1>3 DEF IAlone, IType, ITimes, IStage, IMarked, Working
<1>5. \A q \in Loader : q # p =>
        /\ pc'[q] = pc[q] /\ opened'[q] = opened[q]
        /\ (pc[q] \in Working => dir[q] # d)
  BY <1>2, WorkFrame
<1>6. \A e \in Dir : e # d =>
        /\ lib'[e] = lib[e] /\ marker'[e] = marker[e]
        /\ (e \in library_old' <=> e \in library_old)
  BY <1>2, WorkFrame
<1>7. /\ Marked(d)'
      /\ pc'[p] = "open" => d \notin library_old'
      /\ pc'[p] = "loaded" => opened'[p] = inputs[d]
  <2>1. CASE Check(p)
    <3>1. /\ UNCHANGED <<lib, library_old, marker>> /\ pc'[p] # "loaded"
          /\ (pc'[p] = "open" => marker[d] = inputs[d])
      BY <1>1, <1>2, <1>4, <2>1 DEF Check, IType
    <3>. QED
      BY <1>3, <1>4, <3>1 DEF Marked
  <2>2. CASE Restore(p)
    <3>1. /\ pc[p] = "restore" /\ pc'[p] = "restored" /\ marker' = marker
          /\ lib'[d] = cache[inputs[d]] /\ d \notin library_old'
      BY <1>1, <1>2, <1>4, <2>2 DEF Restore, IType
    <3>. QED
      BY <1>3, <1>4, <3>1 DEF Marked, StageOf
  <2>3. CASE Mark(p)
    <3>1. /\ pc[p] \in {"adopted", "restored", "built"} /\ pc'[p] \in {"store", "open"}
          /\ marker'[d] = inputs[d] /\ UNCHANGED <<lib, library_old>>
      BY <1>1, <1>2, <1>4, <2>3 DEF Mark, IType
    <3>. QED
      BY <1>3, <1>4, <3>1 DEF Marked, StageOf, Version
  <2>4. CASE Compile(p)
    <3>1. pc'[p] = "link" /\ UNCHANGED <<lib, library_old, marker>>
      BY <1>1, <2>4 DEF Compile, IType
    <3>. QED
      BY <1>3, <1>4, <3>1 DEF Marked
  <2>5. CASE Link(p)
    <3>1. pc'[p] \in {"linking", "built"} /\ marker' = marker
      BY <1>1, <2>5 DEF Link, IType
    <3>2. \/ UNCHANGED <<lib, library_old>>
          \/ lib'[d] = [of |-> objects[d], condition |-> "torn"] /\ d \notin library_old'
      BY <1>1, <1>2, <2>5 DEF Link, IType
    <3>3. Exists([of |-> objects[d], condition |-> "torn"])
      BY LibraryFacts DEF Exists
    <3>. QED
      BY <1>3, <1>4, <3>1, <3>2, <3>3 DEF Marked
  <2>6. CASE Linked(p)
    <3>1. /\ pc'[p] = "built" /\ UNCHANGED <<library_old, marker>>
          /\ lib'[d] = [lib[d] EXCEPT !.condition = "good"]
      BY <1>1, <1>2, <2>6 DEF Linked, IType
    <3>2. lib[d] \in Library
      BY <1>1 DEF IType
    <3>3. Exists(lib'[d])
      BY <3>1, <3>2, LibraryFacts DEF Exists, Library
    <3>. QED
      BY <1>3, <1>4, <3>1, <3>3 DEF Marked
  <2>7. CASE Store(p)
    <3>1. /\ pc[p] = "store" /\ pc'[p] = "open" /\ UNCHANGED <<lib, library_old, marker>>
      BY <1>1, <2>7 DEF Store, IType
    <3>. QED
      BY <1>3, <1>4, <3>1 DEF Marked, StageOf
  <2>8. CASE Open(p)
    <3>1. /\ pc[p] = "open" /\ pc'[p] \in {"loaded", "build", "failed"}
          /\ UNCHANGED <<lib, library_old, marker>>
          /\ pc'[p] = "loaded" => opened'[p] = lib[d].of
      BY <1>1, <1>2, <2>8 DEF Open, Opens, IType
    <3>2. lib[d].of = inputs[d]
      BY <1>4, <3>1 DEF StageOf, DirTimes
    <3>. QED
      BY <1>3, <1>4, <3>1, <3>2 DEF Marked
  <2>. QED
    BY <2>1, <2>2, <2>3, <2>4, <2>5, <2>6, <2>7, <2>8 DEF Work
<1>8. ASSUME NEW e \in Dir PROVE Marked(e)'
  <2>1. CASE e = d
    BY <1>7, <2>1
  <2>2. CASE e # d
    BY <1>3, <1>6, <2>2 DEF IMarked, Marked
  <2>. QED
    BY <2>1, <2>2
<1>9. ASSUME NEW q \in Loader, pc'[q] = "open" PROVE dir'[q] \notin library_old'
  <2>1. CASE q = p
    BY <1>2, <1>3, <1>7, <1>9, <2>1
  <2>2. CASE q # p
    <3>1. pc[q] = "open" /\ dir[q] # d /\ dir[q] \in Dir
      BY <1>1, <1>5, <1>9, <2>2 DEF Working, IType
    <3>. QED
      BY <1>3, <1>6, <3>1 DEF IMarked
  <2>. QED
    BY <2>1, <2>2
<1>10. LoadsCurrent'
  BY <1>2, <1>3, <1>4, <1>5, <1>7 DEF IMarked, LoadsCurrent
<1>. QED
  BY <1>8, <1>9, <1>10 DEF IMarked

\* A newer version makes every marker stale; a build by hand leaves it beside a library
\* of the inputs; a removed build directory takes it away.
LEMMA MarkedBetween ==
  ASSUME ~Rollback, IInv, IMarked,
         NEW d \in Dir, Emit(d) \/ BuildByHand(d) \/ RemoveBuild(d)
  PROVE  IMarked'
<1>1. IType
  BY DEF IInv
<1>2. ~InUse(d) /\ UNCHANGED <<pc, dir, fingerprint, opened>>
  BY DEF Emit, BuildByHand, RemoveBuild, process
<1>3. ASSUME NEW e \in Dir, e # d
      PROVE  /\ inputs'[e] = inputs[e] /\ lib'[e] = lib[e] /\ marker'[e] = marker[e]
             /\ (e \in library_old' <=> e \in library_old)
  <2>1. CASE Emit(d)
    BY <1>1, <1>3, <2>1 DEF Emit, IType
  <2>2. CASE BuildByHand(d)
    BY <1>1, <1>3, <2>2 DEF BuildByHand, IType
  <2>3. CASE RemoveBuild(d)
    BY <1>1, <1>3, <2>3 DEF RemoveBuild, IType
  <2>. QED
    BY <2>1, <2>2, <2>3
<1>4. Marked(d) /\ inputs[d] \in Version /\ marker[d] \in Version \cup {None}
  BY <1>1 DEF IType, IMarked
<1>5. Marked(d)'
  <2>1. CASE Emit(d)
    <3>1. PICK v \in Version : v > inputs[d] /\ inputs' = [inputs EXCEPT ![d] = v]
      BY <2>1 DEF Emit
    <3>2. inputs'[d] > inputs[d] /\ inputs'[d] \in Version /\ marker' = marker
      BY <1>1, <2>1, <3>1 DEF Emit, IType
    <3>. QED
      BY <1>4, <3>2 DEF Marked, Version, None
  <2>2. CASE BuildByHand(d)
    <3>1. UNCHANGED <<inputs, marker>>
      BY <2>2 DEF BuildByHand
    <3>2. PICK v : v = IF NeedsCompiling(d) THEN inputs[d] ELSE objects[d]
      OBVIOUS
    <3>3. \/ UNCHANGED <<lib, library_old>>
          \/ lib'[d] = [of |-> v, condition |-> "good"] /\ d \notin library_old'
      BY <1>1, <2>2, <3>2 DEF BuildByHand, IType
    <3>4. Exists([of |-> v, condition |-> "good"])
      BY LibraryFacts DEF Exists
    <3>. QED
      BY <1>4, <3>1, <3>3, <3>4 DEF Marked
  <2>3. CASE RemoveBuild(d)
    <3>1. marker'[d] = None /\ inputs'[d] = inputs[d]
      BY <1>1, <2>3 DEF RemoveBuild, IType
    <3>. QED
      BY <1>4, <3>1 DEF Marked, Version, None
  <2>. QED
    BY <2>1, <2>2, <2>3
<1>6. ASSUME NEW e \in Dir PROVE Marked(e)'
  <2>1. CASE e = d
    BY <1>5, <2>1
  <2>2. CASE e # d
    BY <1>3, <2>2 DEF IMarked, Marked
  <2>. QED
    BY <2>1, <2>2
<1>7. ASSUME NEW q \in Loader, pc'[q] = "open" PROVE dir'[q] \notin library_old'
  <2>1. pc[q] = "open" /\ dir[q] # d /\ dir[q] \in Dir
    BY <1>1, <1>2, <1>7 DEF Working, InUse, IType
  <2>. QED
    BY <1>2, <1>3, <2>1 DEF IMarked
<1>. QED
  BY <1>2, <1>6, <1>7 DEF IMarked, LoadsCurrent

\* Every step preserves what the marker tells, unless an older version comes back.
LEMMA MarkedStep == ASSUME ~Rollback, IInv, IMarked, [Next]_vars PROVE IMarked'
<1>1. IType
  BY DEF IInv
<1>2. ASSUME NEW p \in Loader, Load(p) PROVE IMarked'
  <2>1. /\ UNCHANGED <<inputs, lib, marker, library_old>>
        /\ pc'[p] = "check"
        /\ \A q \in Loader : q # p => /\ pc'[q] = pc[q] /\ opened'[q] = opened[q]
                                      /\ dir'[q] = dir[q] /\ fingerprint'[q] = fingerprint[q]
    BY <1>1, <1>2 DEF Load, GoTo, files, IType
  <2>. QED
    BY <2>1 DEF IMarked, Marked, LoadsCurrent
<1>3. ASSUME NEW p \in Loader, Work(p) PROVE IMarked'
  BY <1>3, MarkedWork
<1>4. ASSUME NEW p \in Loader, Die(p) PROVE IMarked'
  <2>1. /\ UNCHANGED <<inputs, lib, marker, library_old, dir, fingerprint, opened>>
        /\ pc'[p] = "idle"
        /\ \A q \in Loader : q # p => pc'[q] = pc[q]
    BY <1>1, <1>4 DEF Die, GoTo, files, IType
  <2>. QED
    BY <2>1 DEF IMarked, Marked, LoadsCurrent
<1>5. ASSUME NEW d \in Dir, Emit(d) \/ BuildByHand(d) \/ RemoveBuild(d) PROVE IMarked'
  BY <1>5, MarkedBetween
<1>6. CASE UNCHANGED vars
  BY <1>6 DEF vars, files, process, history, IMarked, Marked, LoadsCurrent
<1>. QED
  BY <1>2, <1>3, <1>4, <1>5, <1>6 DEF Next, Step, Work

\* A load that succeeds opened the library of the code it fingerprinted, through every
\* path of existing_library_is_fresh and prepare_codegen_library, as long as no older
\* version is emitted again. With Rollback the marker can agree with a library of
\* another version: the run codegen_rollback shows it.
THEOREM LoadsAreCurrent == ASSUME ~Rollback PROVE Spec => []LoadsCurrent
<1>1. IInv /\ IMarked /\ [Next]_vars => IMarked'
  BY MarkedStep
<1>2. IMarked => LoadsCurrent
  BY DEF IMarked
<1>. QED
  BY <1>1, <1>2, InitIMarked, Invariance, PTL DEF Spec
=============================================================================
