--------------------------- MODULE LeadArtifacts ---------------------------
(***************************************************************************)
(* The output directory of LEAD: train_and_generate writes the generated   *)
(* model, rewrites its sources and publishes lead.json; Hasher::load reads *)
(* lead.json, builds the model's library when there is none and opens it.  *)
(* Nothing locks the directory and no file is replaced atomically, so that *)
(* a loader may see any file torn, and a process may die between any two   *)
(* steps.                                                                  *)
(*                                                                         *)
(* A training stands for what it writes.  The compiler and the linker are  *)
(* external: they read the sources at once, unlink the library first and   *)
(* write it in place.                                                      *)
(*                                                                         *)
(* Assumed: one training runs at a time, and the generated sources and     *)
(* their injected wrappers have the form that trainer.cpp looks for.       *)
(***************************************************************************)
EXTENDS LeadMapping, Sequences, FiniteSets

CONSTANTS
  Loader,         \* processes with one Hasher each
  Trainings,      \* sequences of options of the trainings that may run
  Predictions,    \* of the model, in units of 1 / Grain
  MaxLoads,       \* bound on the calls to load of one process
  MaxKills        \* bound on the processes that die

TrainOptions ==
  [rows : 1 .. Base, space_bits : 1 .. 4 * WordBits, scale : Nat \X (Nat \ {0}),
   calibrate : BOOLEAN, low : Int, high : Int, emit_code : BOOLEAN,
   key_type : {"u64", "u32", "f64"}]

ASSUME LeadAssumption ==
  /\ Trainings \subseteq Seq(TrainOptions) /\ Predictions \subseteq Int
  /\ MaxLoads \in Nat /\ MaxKills \in Nat

None == 0

VARIABLES
  trainings,      \* the options of each training
  file,           \* file[f]: the training that wrote it, and in which state
  current,        \* the training that runs or ran last
  todo,           \* the writes it has left
  retrained,      \* it started over a published, loadable lead.json
  pc,             \* of each loader
  manifest,       \* manifest[l]: the training of Hasher::manifest_
  building,       \* building[l]: the sources that l compiles
  opened,         \* opened[l]: the code in the library that l has opened
  hasher,         \* hasher[l]: what Hasher::hash uses
  loads,          \* calls to load of each process
  kills

trainer == <<trainings, current, todo, retrained>>
load    == <<pc, manifest, building, opened>>
vars    == <<trainer, file, load, hasher, loads, kills>>

(* Of the sources, "plain" is as emitted and "raw" with predict_raw; a     *)
(* library built from an empty source has no symbols.                      *)
File   == {"sources", "data", "model.json", "library", "lead.json"}
Status == {"missing", "torn", "plain", "raw", "empty", "whole"}
Wrote(status, t) == [status |-> status, by |-> t]
Missing == Wrote("missing", None)

Training == DOMAIN trainings

NoModel   == [code |-> None, raw |-> FALSE, data |-> None]
NewHasher == [mapping |-> None, key_type |-> "u64", raw |-> FALSE,
              calibration |-> None, loaded |-> FALSE, model |-> NoModel]
Idle      == {"idle", "failed", "done"}

Init ==
  /\ trainings \in Trainings
  /\ file = [f \in File |-> Missing]
  /\ current = None
  /\ todo = <<>>
  /\ retrained = FALSE
  /\ pc = [l \in Loader |-> "idle"]
  /\ manifest = [l \in Loader |-> None]
  /\ building = [l \in Loader |-> Missing]
  /\ opened = [l \in Loader |-> NoModel]
  /\ hasher = [l \in Loader |-> NewHasher]
  /\ loads = [l \in Loader |-> 0]
  /\ kills = 0

-----------------------------------------------------------------------------
(* The trainer.                                                            *)

Step(f, status) == [file |-> f, status |-> status]

\* emit_model and write_manifest of rm_model, with the sources open throughout
Emit == <<Step("sources", "torn"), Step("data", "torn"), Step("data", "whole"),
          Step("model.json", "torn"), Step("model.json", "whole"),
          Step("sources", "plain")>>

\* the .cpp, and then the header
Inject == <<Step("sources", "torn"), Step("sources", "raw")>>

Publish == <<Step("lead.json", "torn"), Step("lead.json", "whole")>>

\* Mutant: lead.json is written with the rest of the metadata.
PublishFirst(t) ==
  (IF trainings[t].emit_code THEN <<Publish[1], Publish[2]>> \o Emit \o Inject \o Inject
   ELSE Publish)

\* Mutant: the sources are not rewritten.
PlanWithoutInject(t) ==
  (IF trainings[t].emit_code THEN Emit ELSE <<>>) \o Publish

Plan(t) ==
  (IF trainings[t].emit_code THEN Emit \o Inject \o Inject ELSE <<>>) \o Publish

Loadable(t) == trainings[t].emit_code

Train ==
  /\ todo = <<>>
  /\ current + 1 \in Training
  /\ current' = current + 1
  /\ todo' = Plan(current + 1)
  /\ retrained' = (retrained \/ (file["lead.json"].status = "whole"
                                 /\ Loadable(file["lead.json"].by)))
  /\ UNCHANGED <<trainings, file, load, hasher, loads, kills>>

Write ==
  /\ todo # <<>>
  /\ file' = [file EXCEPT ![Head(todo).file] = Wrote(Head(todo).status, current)]
  /\ todo' = Tail(todo)
  /\ UNCHANGED <<trainings, current, retrained, load, hasher, loads, kills>>

\* The process of the training dies.
KillTraining ==
  /\ todo # <<>>
  /\ kills < MaxKills
  /\ kills' = kills + 1
  /\ todo' = <<>>
  /\ UNCHANGED <<trainings, current, retrained, file, load, hasher, loads>>

-----------------------------------------------------------------------------
(* Hasher::load                                                            *)

GoTo(l, stage) == pc' = [pc EXCEPT ![l] = stage]

\* LeadManifest::load, up to the assignment of the mapping
ReadManifest(l) ==
  LET lead == file["lead.json"]
      ok   == lead.status = "whole" /\ Loadable(lead.by)
  IN
  /\ pc[l] \in Idle
  /\ loads[l] < MaxLoads
  /\ loads' = [loads EXCEPT ![l] = @ + 1]
  /\ manifest' = [manifest EXCEPT ![l] = IF lead.status = "whole" THEN lead.by ELSE @]
  /\ hasher' = [hasher EXCEPT ![l].mapping = IF ok THEN lead.by ELSE @]
  /\ GoTo(l, IF ok THEN "model" ELSE "failed")
  /\ UNCHANGED <<trainer, file, building, opened, kills>>

\* RmModel::load: the old library is closed, and model.json read if it is there;
\* without one, the headers give the name
ReadModel(l) ==
  /\ pc[l] = "model"
  /\ hasher' = [hasher EXCEPT ![l].model = NoModel]
  /\ GoTo(l, IF file["model.json"].status = "torn"
                \/ {file["model.json"].status, file["sources"].status} = {"missing"}
             THEN "failed" ELSE "find")
  /\ UNCHANGED <<trainer, file, manifest, building, opened, loads, kills>>

LibraryExists == file["library"].status # "missing"

FindLibrary(l) ==
  /\ pc[l] = "find"
  /\ GoTo(l, IF LibraryExists THEN "open" ELSE "compile")
  /\ UNCHANGED <<trainer, file, manifest, building, opened, hasher, loads, kills>>

\* A torn source is refused by the compiler, or still empty.
Compile(l) ==
  /\ pc[l] = "compile"
  /\ CASE file["sources"].status \in {"plain", "raw"} ->
            /\ building' = [building EXCEPT ![l] = file["sources"]]
            /\ GoTo(l, "link")
       [] file["sources"].status = "torn" ->
            \/ /\ building' = [building EXCEPT ![l] = Wrote("empty", file["sources"].by)]
               /\ GoTo(l, "link")
            \/ /\ GoTo(l, "failed")
               /\ UNCHANGED building
  /\ UNCHANGED <<trainer, file, manifest, opened, hasher, loads, kills>>

\* The name of the library now stands for the file that l writes.
Link(l) ==
  /\ pc[l] = "link"
  /\ file' = [file EXCEPT !["library"] = Wrote("torn", None)]
  /\ pc' = [k \in Loader |-> IF k = l THEN "linking"
                             ELSE IF pc[k] = "linking" THEN "unlinked" ELSE pc[k]]
  /\ UNCHANGED <<trainer, manifest, building, opened, hasher, loads, kills>>

Linked(l) ==
  /\ pc[l] \in {"linking", "unlinked"}
  /\ file' = IF pc[l] = "linking"
             THEN [file EXCEPT !["library"] = building[l]] ELSE file
  /\ building' = [building EXCEPT ![l] = Missing]
  /\ GoTo(l, "open")
  /\ UNCHANGED <<trainer, manifest, opened, hasher, loads, kills>>

\* A torn or empty library does not open, or lacks symbols.
Open(l) ==
  /\ pc[l] = "open"
  /\ IF file["library"].status \in {"plain", "raw"}
     THEN /\ opened' = [opened EXCEPT ![l] =
                 [code |-> file["library"].by, raw |-> file["library"].status = "raw",
                  data |-> None]]
          /\ GoTo(l, "data")
     ELSE GoTo(l, "failed") /\ UNCHANGED opened
  /\ UNCHANGED <<trainer, file, manifest, building, hasher, loads, kills>>

\* infer_load of the generated code asks only for enough bytes: the data of
\* another training may do.
LoadData(l) ==
  LET data == file["data"] IN
  /\ pc[l] = "data"
  /\ \/ /\ data.status = "whole"
        /\ hasher' = [hasher EXCEPT ![l].model = [opened[l] EXCEPT !.data = data.by]]
        /\ GoTo(l, "check")
     \/ /\ data.status # "whole" \/ data.by # opened[l].code
        /\ GoTo(l, "failed")
        /\ UNCHANGED hasher
  /\ opened' = [opened EXCEPT ![l] = NoModel]
  /\ UNCHANGED <<trainer, file, manifest, building, loads, kills>>

-----------------------------------------------------------------------------
KeyType(t) == trainings[t].key_type

(* compute_calibration keeps the range of the raw predictions over the     *)
(* training data; calibration is off when it has no extent.                *)
Calibrates(t) == trainings[t].calibrate /\ trainings[t].low < trainings[t].high

MaxIndex(t) == trainings[t].rows - 1

\* The rest of Hasher::load.  A refused key type leaves the flags of an
\* earlier load.
Finish(l) ==
  LET h   == hasher[l]
      key == KeyType(h.model.code)
      t   == manifest[l]
  IN
  /\ pc[l] = "check"
  /\ IF key # KeyType(t)
     THEN /\ hasher' = [hasher EXCEPT ![l].key_type = key]
          /\ GoTo(l, "failed")
     ELSE /\ hasher' = [hasher EXCEPT ![l] =
                [@ EXCEPT !.key_type = key,
                          !.raw = h.model.raw,
                          !.calibration = IF Calibrates(t) /\ h.model.raw
                                             /\ MaxIndex(t) > 0
                                          THEN t ELSE None,
                          !.loaded = TRUE]]
          /\ GoTo(l, "done")
  /\ UNCHANGED <<trainer, file, manifest, building, opened, loads, kills>>

\* The process dies, with its Hasher; another takes its place.
KillLoader(l) ==
  /\ pc[l] \notin Idle
  /\ kills < MaxKills
  /\ kills' = kills + 1
  /\ GoTo(l, "idle")
  /\ manifest' = [manifest EXCEPT ![l] = None]
  /\ building' = [building EXCEPT ![l] = Missing]
  /\ opened' = [opened EXCEPT ![l] = NoModel]
  /\ hasher' = [hasher EXCEPT ![l] = NewHasher]
  /\ UNCHANGED <<trainer, file, loads>>

Load(l) == \/ ReadManifest(l) \/ ReadModel(l) \/ FindLibrary(l) \/ Compile(l)
           \/ Link(l) \/ Linked(l) \/ Open(l) \/ LoadData(l) \/ Finish(l)

Next ==
  \/ Train
  \/ Write
  \/ KillTraining
  \/ \E l \in Loader : Load(l) \/ KillLoader(l)

Spec == Init /\ [][Next]_vars

-----------------------------------------------------------------------------
(* Hasher::hash                                                            *)

\* Neither Hasher nor RmModel refuses.
Answers(l) == hasher[l].loaded /\ hasher[l].model.code # None
              /\ (hasher[l].raw => hasher[l].model.raw)

Config(t) == Mapping(MaxIndex(t), trainings[t].space_bits,
                     scale_factor_fixed(trainings[t].scale[1], trainings[t].scale[2]))

\* For the prediction p / Grain, as a numerator and a denominator.
Calibrated(l, p) ==
  LET c == hasher[l].calibration
      m == MaxIndex(hasher[l].mapping)
  IN IF c = None THEN <<p, Grain>>
     ELSE apply_calibration(m, trainings[c].low, trainings[c].high, p)

hash(l, p) ==
  map_double(Config(hasher[l].mapping), Calibrated(l, p)[1], Calibrated(l, p)[2])

hash64(l, p) == msb_u64(hash(l, p), trainings[hasher[l].mapping].space_bits)
hash128(l, p) == msb_u128(hash(l, p), trainings[hasher[l].mapping].space_bits)

-----------------------------------------------------------------------------
TypeOK ==
  /\ trainings \in Trainings
  /\ file \in [File -> [status : Status, by : Training \cup {None}]]
  /\ current \in Training \cup {None}
  /\ todo \in Seq([file : File, status : Status])
  /\ retrained \in BOOLEAN
  /\ pc \in [Loader -> Idle \cup {"model", "find", "compile", "link", "linking",
                                  "unlinked", "open", "data", "check"}]
  /\ manifest \in [Loader -> Training \cup {None}]
  /\ building \in [Loader -> [status : Status, by : Training \cup {None}]]
  /\ \A l \in Loader : hasher[l].mapping \in Training \cup {None}
  /\ loads \in [Loader -> 0 .. MaxLoads]
  /\ kills \in 0 .. MaxKills

\* lead.json is published last: until somebody trains over it, a loadable one
\* vouches for everything it points to, and for a library built from it.
\* (train_and_generate: emit_model, inject_raw_predict_support, manifest.write)
PublishedFilesAgree ==
  /\ TypeOK
  /\ LET lead == file["lead.json"] IN
     lead.status = "whole" /\ Loadable(lead.by) /\ ~retrained =>
        /\ file["sources"] = Wrote("raw", lead.by)
        /\ file["data"] = Wrote("whole", lead.by)
        /\ file["model.json"] = Wrote("whole", lead.by)
        /\ file["library"].status \in {"missing", "torn", "raw"}
        /\ file["library"].status = "raw" => file["library"].by = lead.by

\* A hash comes from the code, the data, the mapping and the calibration of one
\* training, calibrated whenever that training is: however loads, builds and
\* deaths interleave, as long as nobody trains over a published directory.
AnswersAgree ==
  \A l \in Loader : Answers(l) /\ ~retrained =>
    LET h == hasher[l] IN
    /\ h.model = [code |-> h.mapping, raw |-> TRUE, data |-> h.mapping]
    /\ h.key_type = KeyType(h.mapping)
    /\ h.calibration = h.mapping <=> Calibrates(h.mapping) /\ MaxIndex(h.mapping) > 0

\* A load that got past lead.json is refused only because of a library that
\* another process is writing, or died writing.
RefusalIsJustified ==
  [][\A l \in Loader :
       pc[l] \notin Idle /\ pc'[l] = "failed" /\ ~retrained
         => pc[l] = "open" /\ file["library"].status = "torn"]_vars

\* The bits of a hash that do not fit into so many words.
Excess(bits, words) == IF bits > words * WordBits THEN bits - words * WordBits ELSE 0

\* The words give the same hash as integers without a width; a larger
\* prediction never has a smaller hash, the hash stays in the scaled range, and
\* its leading words are its most significant bits.
\* (MappingConfig::compute, IndexMapper::map_double and map)
HashKeepsOrder ==
  \A l \in Loader : Answers(l) /\ pc[l] = "done" =>
    LET c == Config(hasher[l].mapping)
        value(p) == Value(hash(l, p))
    IN
    /\ \A p \in Predictions :
         /\ value(p) = HashRef(c, Calibrated(l, p)[1], Calibrated(l, p)[2])
         /\ value(p) <= RangeRef(c)
         /\ hash64(l, p) = value(p) \div PowerOf2(Excess(c.space_bits, 1))
         /\ hash128(l, p)[1] + Base * hash128(l, p)[2]
               = value(p) \div PowerOf2(Excess(c.space_bits, 2))
         /\ p + 1 \in Predictions => value(p) <= value(p + 1)
    /\ \A i \in 0 .. c.max_index :
         /\ Value(map(c, i)) <= RangeRef(c)
         /\ Value(map(c, i)) <= Value(map(c, i + 1))

=============================================================================
