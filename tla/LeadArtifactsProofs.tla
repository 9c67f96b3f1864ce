------------------------ MODULE LeadArtifactsProofs ------------------------
(***************************************************************************)
(* The safety of LEAD's output directory, for any number of loaders, any   *)
(* options, and any bounds on loads and deaths: what a published lead.json *)
(* vouches for, what a loaded Hasher answers with, and when a load may be  *)
(* refused; and, for any width of the words, that hashes keep the order of *)
(* the predictions.                                                        *)
(*                                                                         *)
(* None of the first three is inductive.  That the files behind a new      *)
(* lead.json are all of one training follows from how many writes of the   *)
(* plan are left (IPlan, IProgress); that nobody has built or loaded       *)
(* anything from half-written files follows from lead.json being absent    *)
(* until then (IUnpublished); and that a loader mixes nothing follows from *)
(* what it carries at every stage of the load (LoaderOf).                  *)
(*                                                                         *)
(* The order of the hashes needs of the state only that a Hasher that has  *)
(* loaded has a mapping and a calibration with an extent (IHasher).  The   *)
(* rest is arithmetic: what the loops over words compute, as numbers       *)
(* (ShiftWords, MulWords, DivWords, MaxFacts, MaskFacts), and from that    *)
(* the range, the fraction of it and the hash (RangeWords, ScaleWords,     *)
(* HashWords), which are monotone (HashGrows, MapGrows).                   *)
(***************************************************************************)
EXTENDS LeadArtifacts, SetsAndLists, SequenceTheorems, TLAPS

-----------------------------------------------------------------------------
(* The invariant.                                                          *)
StepSet == [file : File, status : Status]

Model == [code : Training \cup {None}, raw : BOOLEAN, data : Training \cup {None}]
KeyTypes == {"u64", "u32", "f64"}
Hashers == [mapping : Training \cup {None}, key_type : KeyTypes, raw : BOOLEAN,
            calibration : Training \cup {None}, loaded : BOOLEAN, model : Model]
Stages == Idle \cup {"model", "find", "compile", "link", "linking", "unlinked",
                     "open", "data", "check"}
Written == [status : Status, by : Training \cup {None}]

IType ==
  /\ trainings \in Trainings
  /\ file \in [File -> Written]
  /\ current \in Training \cup {None}
  /\ todo \in Seq(StepSet)
  /\ retrained \in BOOLEAN
  /\ pc \in [Loader -> Stages]
  /\ manifest \in [Loader -> Training \cup {None}]
  /\ building \in [Loader -> Written]
  /\ opened \in [Loader -> Model]
  /\ hasher \in [Loader -> Hashers]
  /\ loads \in [Loader -> 0 .. MaxLoads]
  /\ kills \in 0 .. MaxKills

\* A file with something in it names a training, and so does what a loader holds.
Vouched(w) == w.status \in {"plain", "raw", "whole"} => w.by \in Training
VouchedLoader(l) ==
  /\ Vouched(building[l])
  /\ pc[l] \notin Idle => manifest[l] \in Training
  /\ pc[l] = "data" => opened[l].code \in Training
  /\ pc[l] = "check" => hasher[l].model.code \in Training
IVouched ==
  /\ \A f \in File : Vouched(file[f])
  /\ \A l \in Loader : VouchedLoader(l)

\* The writes of the plan that are left.
Left == Len(todo)

\* The writes left are the last ones of the plan.
IPlan ==
  todo # <<>> =>
    /\ current \in Training
    /\ Left <= Len(Plan(current))
    /\ \A i \in 1 .. Left : todo[i] = Plan(current)[i + Len(Plan(current)) - Left]

\* A load would get past lead.json.
Published == file["lead.json"].status = "whole" /\ Loadable(file["lead.json"].by)

\* A loadable training has sources as soon as it has started to write.
ISources ==
  /\ file["sources"].status \in {"missing", "torn", "plain", "raw"}
  /\ todo # <<>> /\ Loadable(current) /\ Left <= 11 => file["sources"].status # "missing"
  /\ Published \/ (\E l \in Loader : pc[l] \notin Idle) => file["sources"].status # "missing"

\* What the plan has written once so many writes are left.
IProgress ==
  ~retrained /\ todo # <<>> /\ Loadable(current) =>
    /\ Left <= 9 => file["data"] = Wrote("whole", current)
    /\ Left <= 7 => file["model.json"] = Wrote("whole", current)
    /\ Left <= 2 => file["sources"] = Wrote("raw", current)

\* Before lead.json is there, no load gets anywhere.
IUnpublished ==
  ~retrained /\ ~Published =>
    /\ file["library"] = Missing
    /\ \A l \in Loader : pc[l] \in {"idle", "failed"} /\ ~hasher[l].loaded

\* The files that a published lead.json vouches for.
IFiles ==
  LET p == file["lead.json"].by IN
  ~retrained /\ Published =>
    /\ todo = <<>>
    /\ file["sources"] = Wrote("raw", p)
    /\ file["data"] = Wrote("whole", p)
    /\ file["model.json"] = Wrote("whole", p)
    /\ file["library"].status \in {"missing", "torn", "raw"}
    /\ file["library"].status = "raw" => file["library"].by = p

OfTraining(p) == [code |-> p, raw |-> TRUE, data |-> p]

\* All that loader l holds, at its stage of the load, is of training p.
LoaderOf(p, l) ==
  /\ pc[l] \notin Idle => manifest[l] = p /\ hasher[l].mapping = p
  /\ pc[l] \in {"link", "linking", "unlinked"} => building[l] = Wrote("raw", p)
  /\ pc[l] \in {"linking", "unlinked", "open"} => file["library"].status # "missing"
  /\ pc[l] = "data" => opened[l] = [code |-> p, raw |-> TRUE, data |-> None]
  /\ pc[l] = "check" => hasher[l].model = OfTraining(p)
  /\ hasher[l].loaded =>
       /\ hasher[l].model \in {NoModel, OfTraining(p)}
       /\ hasher[l].mapping = p
       /\ hasher[l].key_type = KeyType(p)
       /\ hasher[l].calibration = IF Calibrates(p) /\ MaxIndex(p) > 0 THEN p ELSE None

ILoaders == ~retrained /\ Published => \A l \in Loader : LoaderOf(file["lead.json"].by, l)

IInv == IType /\ IVouched /\ IPlan /\ ISources /\ IProgress /\ IUnpublished
        /\ IFiles /\ ILoaders

-----------------------------------------------------------------------------
(* The plan of a training, write by write.                                *)
LEMMA Joined ==
  ASSUME NEW S, NEW s \in Seq(S), NEW u \in Seq(S)
  PROVE  /\ s \o u \in Seq(S)
         /\ Len(s \o u) = Len(s) + Len(u)
         /\ \A i \in 1 .. Len(s) : (s \o u)[i] = s[i]
         /\ \A i \in 1 .. Len(u) : (s \o u)[Len(s) + i] = u[i]
  OBVIOUS

\* Emit, two rewrites of the sources, and lead.json last; or only lead.json.
LEMMA PlanSteps ==
  ASSUME NEW t
  PROVE  /\ Plan(t) \in Seq(StepSet)
         /\ Loadable(t) =>
              /\ Len(Plan(t)) = 12
              /\ Plan(t)[1] = Step("sources", "torn")
              /\ Plan(t)[2] = Step("data", "torn")
              /\ Plan(t)[3] = Step("data", "whole")
              /\ Plan(t)[4] = Step("model.json", "torn")
              /\ Plan(t)[5] = Step("model.json", "whole")
              /\ Plan(t)[6] = Step("sources", "plain")
              /\ Plan(t)[7] = Step("sources", "torn")
              /\ Plan(t)[8] = Step("sources", "raw")
              /\ Plan(t)[9] = Step("sources", "torn")
              /\ Plan(t)[10] = Step("sources", "raw")
              /\ Plan(t)[11] = Step("lead.json", "torn")
              /\ Plan(t)[12] = Step("lead.json", "whole")
         /\ ~Loadable(t) =>
              /\ Len(Plan(t)) = 2
              /\ Plan(t)[1] = Step("lead.json", "torn")
              /\ Plan(t)[2] = Step("lead.json", "whole")
<1>1. Emit \in Seq(StepSet) /\ Inject \in Seq(StepSet) /\ Publish \in Seq(StepSet)
  BY DEF Emit, Inject, Publish, Step, StepSet, File, Status
<1>2. Len(Emit) = 6 /\ Len(Inject) = 2 /\ Len(Publish) = 2
  BY DEF Emit, Inject, Publish
<1>. DEFINE two   == Emit \o Inject
            three == two \o Inject
            four  == three \o Publish
<1>3. /\ two \in Seq(StepSet)
      /\ Len(two) = 8
      /\ \A i \in 1 .. 6 : two[i] = Emit[i]
      /\ \A i \in 1 .. 2 : two[6 + i] = Inject[i]
  <2>1. /\ two \in Seq(StepSet)
        /\ Len(two) = Len(Emit) + Len(Inject)
        /\ \A i \in 1 .. Len(Emit) : two[i] = Emit[i]
        /\ \A i \in 1 .. Len(Inject) : two[Len(Emit) + i] = Inject[i]
    BY <1>1, Joined
  <2>. HIDE DEF two, three, four
  <2>. QED  BY <1>2, <2>1
<1>4. /\ three \in Seq(StepSet)
      /\ Len(three) = 10
      /\ \A i \in 1 .. 8 : three[i] = two[i]
      /\ \A i \in 1 .. 2 : three[8 + i] = Inject[i]
  <2>1. /\ three \in Seq(StepSet)
        /\ Len(three) = Len(two) + Len(Inject)
        /\ \A i \in 1 .. Len(two) : three[i] = two[i]
        /\ \A i \in 1 .. Len(Inject) : three[Len(two) + i] = Inject[i]
    <3>1. two \in Seq(StepSet)
      BY <1>3
    <3>. HIDE DEF two
    <3>. QED  BY <1>1, <3>1, Joined
  <2>. HIDE DEF two, three, four
  <2>. QED  BY <1>2, <1>3, <2>1
<1>5. /\ four \in Seq(StepSet)
      /\ Len(four) = 12
      /\ \A i \in 1 .. 10 : four[i] = three[i]
      /\ \A i \in 1 .. 2 : four[10 + i] = Publish[i]
  <2>1. /\ four \in Seq(StepSet)
        /\ Len(four) = Len(three) + Len(Publish)
        /\ \A i \in 1 .. Len(three) : four[i] = three[i]
        /\ \A i \in 1 .. Len(Publish) : four[Len(three) + i] = Publish[i]
    <3>1. three \in Seq(StepSet)
      BY <1>4
    <3>. HIDE DEF three
    <3>. QED  BY <1>1, <3>1, Joined
  <2>. HIDE DEF two, three, four
  <2>. QED  BY <1>2, <1>4, <2>1
<1>6. CASE Loadable(t)
  <2>1. Plan(t) = four
    BY <1>6 DEF Plan, Loadable
  <2>. HIDE DEF four, three, two
  <2>2. /\ Emit[1] = Step("sources", "torn")
        /\ Emit[2] = Step("data", "torn")
        /\ Emit[3] = Step("data", "whole")
        /\ Emit[4] = Step("model.json", "torn")
        /\ Emit[5] = Step("model.json", "whole")
        /\ Emit[6] = Step("sources", "plain")
    BY DEF Emit
  <2>3. /\ Inject[1] = Step("sources", "torn")
        /\ Inject[2] = Step("sources", "raw")
        /\ Publish[1] = Step("lead.json", "torn")
        /\ Publish[2] = Step("lead.json", "whole")
    BY DEF Inject, Publish
  <2>. QED
    BY <1>3, <1>4, <1>5, <1>6, <2>1, <2>2, <2>3
<1>7. CASE ~Loadable(t)
  <2>1. Plan(t) = Publish
    BY <1>7, <1>1, ConcatEmptySeq DEF Plan, Loadable
  <2>. QED
    BY <1>1, <1>2, <1>7, <2>1 DEF Publish
<1>. QED
  BY <1>6, <1>7
\* None is no training.
LEMMA TrainingIsNat == IType => Training \subseteq Nat \ {0}
  BY LeadAssumption DEF IType, Training

LEMMA NewTypes == Missing \in Written /\ NoModel \in Model /\ NewHasher \in Hashers
<1>1. Missing \in Written
  BY DEF Missing, Wrote, Written, Status
<1>2. NoModel \in Model
  BY DEF NoModel, Model
<1>. QED
  BY <1>1, <1>2 DEF NewHasher, Hashers, KeyTypes

\* A training has a key type.
LEMMA KeyTypeOf == ASSUME IType, NEW t \in Training PROVE KeyType(t) \in KeyTypes
<1>1. trainings \in Seq(TrainOptions)
  BY LeadAssumption DEF IType
<1>2. trainings[t] \in TrainOptions
  BY <1>1, ElementOfSeq DEF Training
<1>. QED
  BY <1>2 DEF TrainOptions, KeyType, KeyTypes

-----------------------------------------------------------------------------
(* The initial states.                                                     *)
LEMMA InitIInv == Init => IInv
<1>. SUFFICES ASSUME Init PROVE IInv
  OBVIOUS
<1>. USE DEF Init
<1>1. IType
  <2>1. Missing \in Written /\ NoModel \in Model /\ NewHasher \in Hashers
    BY NewTypes
  <2>4. 0 \in 0 .. MaxLoads /\ 0 \in 0 .. MaxKills /\ <<>> \in Seq(StepSet)
    BY LeadAssumption
  <2>. QED
    BY <2>1, <2>4 DEF IType, Idle, Stages
<1>2. IVouched
  BY DEF IVouched, Vouched, VouchedLoader, Missing, Wrote, Idle
<1>3. IPlan /\ IProgress
  BY DEF IPlan, IProgress
<1>4. ~Published
  BY DEF Published, File, Missing, Wrote
<1>5. ISources
  BY <1>4 DEF ISources, File, Missing, Wrote, Idle
<1>6. IUnpublished /\ IFiles /\ ILoaders
  BY <1>4 DEF IUnpublished, IFiles, ILoaders, File, Missing, Wrote, NewHasher
<1>. QED
  BY <1>1, <1>2, <1>3, <1>5, <1>6 DEF IInv

-----------------------------------------------------------------------------
(* The trainer: it starts, dies, or writes the next file.                  *)
LEMMA TrainIInv == IInv /\ Train => IInv'
<1>. SUFFICES ASSUME IInv, Train PROVE IInv'
  OBVIOUS
<1>. USE DEF Train, load
<1>0. PICK t : t = current + 1
  OBVIOUS
<1>1. /\ t \in Training /\ current' = t /\ todo' = Plan(t)
      /\ Training' = Training /\ Model' = Model /\ Written' = Written
      /\ Hashers' = Hashers /\ Published' = Published
      /\ Plan(current)' = Plan(t) /\ Loadable(current)' = Loadable(t)
  BY <1>0 DEF Training, Plan, Model, Written, Hashers, Published, Loadable
<1>2. /\ Plan(t) \in Seq(StepSet)
      /\ Loadable(t) => Left' = 12
  BY <1>1, PlanSteps DEF Left
<1>3. IType'
  BY <1>1, <1>2 DEF IInv, IType
<1>4. IVouched'
  BY <1>1 DEF IInv, IVouched, Vouched, VouchedLoader
<1>5. IPlan'
  BY <1>1, <1>2 DEF IPlan, Left
<1>7. ISources'
  BY <1>1, <1>2 DEF IInv, ISources
<1>8. IProgress'
  BY <1>1, <1>2 DEF IProgress
<1>9. IUnpublished' /\ IFiles' /\ ILoaders'
  BY <1>1 DEF IInv, IUnpublished, IFiles, ILoaders, LoaderOf, Published, KeyType,
     Calibrates, MaxIndex
<1>. QED
  BY <1>3, <1>4, <1>5, <1>7, <1>8, <1>9 DEF IInv

LEMMA KillTrainingIInv == IInv /\ KillTraining => IInv'
<1>. SUFFICES ASSUME IInv, KillTraining PROVE IInv'
  OBVIOUS
<1>. USE DEF KillTraining, load
<1>1. /\ Training' = Training /\ Model' = Model /\ Written' = Written
      /\ Hashers' = Hashers /\ Published' = Published
      /\ todo' = <<>>
  BY DEF Training, Model, Written, Hashers, Published, Loadable
<1>2. IType'
  BY <1>1, LeadAssumption DEF IInv, IType
<1>3. IVouched'
  BY <1>1 DEF IInv, IVouched, Vouched, VouchedLoader
<1>4. IPlan' /\ IProgress'
  BY <1>1 DEF IPlan, IProgress
<1>5. ISources'
  BY <1>1 DEF IInv, ISources
<1>6. IUnpublished' /\ IFiles' /\ ILoaders'
  BY <1>1 DEF IInv, IUnpublished, IFiles, ILoaders, LoaderOf, Published, KeyType,
     Calibrates, MaxIndex
<1>. QED
  BY <1>2, <1>3, <1>4, <1>5, <1>6 DEF IInv

\* What is left after the next write, and which write that is.
LEMMA NextWrite ==
  ASSUME IType, IPlan, todo # <<>>
  PROVE  /\ Left \in Nat \ {0}
         /\ Tail(todo) \in Seq(StepSet) /\ Len(Tail(todo)) = Left - 1
         /\ \A i \in 1 .. Left - 1 : Tail(todo)[i] = todo[i + 1]
         /\ Tail(todo) = <<>> <=> Left = 1
         /\ Head(todo) \in StepSet
         /\ Head(todo) = Plan(current)[1 + Len(Plan(current)) - Left]
<1>1. todo \in Seq(StepSet)
  BY DEF IType
<1>2. Left \in Nat \ {0} /\ Head(todo) = todo[1] /\ todo[1] \in StepSet
  BY <1>1 DEF Left
<1>3. /\ Tail(todo) \in Seq(StepSet) /\ Len(Tail(todo)) = Left - 1
      /\ \A i \in 1 .. Left - 1 : Tail(todo)[i] = todo[i + 1]
  BY <1>1, HeadTailProperties DEF Left
<1>4. Tail(todo) = <<>> <=> Left = 1
  <2>1. Tail(todo) = <<>> <=> Len(Tail(todo)) = 0
    BY <1>3, EmptySeq
  <2>2. Left - 1 = 0 <=> Left = 1
    BY <1>2
  <2>. QED
    BY <1>3, <2>1, <2>2
<1>5. Head(todo) = Plan(current)[1 + Len(Plan(current)) - Left]
  BY <1>2 DEF IPlan
<1>. QED
  BY <1>2, <1>3, <1>4, <1>5

LEMMA WriteIInv == IInv /\ Write => IInv'
<1>. SUFFICES ASSUME IInv, Write PROVE IInv'
  OBVIOUS
<1>. USE DEF load
<1>. DEFINE s == Head(todo)
<1>1. /\ todo # <<>> /\ todo' = Tail(todo) /\ current' = current
      /\ file' = [file EXCEPT ![s.file] = Wrote(s.status, current)]
      /\ UNCHANGED <<trainings, retrained, pc, manifest, building, opened, hasher,
                     loads, kills>>
      /\ Training' = Training /\ Model' = Model /\ Written' = Written /\ Hashers' = Hashers
      /\ Plan(current)' = Plan(current)
      /\ \A t : Loadable(t)' = Loadable(t)
  BY DEF Write, Training, Model, Written, Hashers, Plan, Loadable
<1>2. IType /\ IVouched /\ IPlan /\ ISources /\ IProgress /\ IUnpublished /\ IFiles /\ ILoaders
  BY DEF IInv
<1>3. /\ Left \in Nat \ {0} /\ Left' = Left - 1
      /\ todo' \in Seq(StepSet)
      /\ \A i \in 1 .. Left - 1 : todo'[i] = todo[i + 1]
      /\ todo' = <<>> <=> Left = 1
      /\ s \in StepSet
      /\ s = Plan(current)[1 + Len(Plan(current)) - Left]
  BY <1>1, <1>2, NextWrite DEF Left
<1>4. /\ current \in Training
      /\ Left <= Len(Plan(current))
      /\ \A i \in 1 .. Left : todo[i] = Plan(current)[i + Len(Plan(current)) - Left]
      /\ Len(Plan(current)) \in Nat
  BY <1>1, <1>2, PlanSteps DEF IPlan
<1>. HIDE DEF s
<1>5. IType'
  <2>1. Wrote(s.status, current) \in Written
        /\ s.file \in File
    BY <1>3, <1>4 DEF Wrote, Written, StepSet
  <2>2. file' \in [File -> Written]
    BY <1>1, <1>2, <2>1 DEF IType
  <2>. QED
    BY <1>1, <1>2, <1>3, <2>2 DEF IType
<1>6. IVouched'
  BY <1>1, <1>2, <1>4 DEF IVouched, Vouched, VouchedLoader, Wrote, IType
<1>7. IPlan'
  <2>. SUFFICES ASSUME todo' # <<>>
                PROVE  /\ Left' <= Len(Plan(current))
                       /\ \A i \in 1 .. Left' :
                            todo'[i] = Plan(current)[i + Len(Plan(current)) - Left']
    BY <1>1, <1>4 DEF IPlan
  <2>. HIDE DEF Left
  <2>. QED
    BY <1>3, <1>4
<1>8. ASSUME Loadable(current)
      PROVE  /\ Left \in 1 .. 12
             /\ Left = 12 => s = Step("sources", "torn")
             /\ Left = 11 => s = Step("data", "torn")
             /\ Left = 10 => s = Step("data", "whole")
             /\ Left = 9 => s = Step("model.json", "torn")
             /\ Left = 8 => s = Step("model.json", "whole")
             /\ Left = 7 => s = Step("sources", "plain")
             /\ Left = 6 => s = Step("sources", "torn")
             /\ Left = 5 => s = Step("sources", "raw")
             /\ Left = 4 => s = Step("sources", "torn")
             /\ Left = 3 => s = Step("sources", "raw")
             /\ Left = 2 => s = Step("lead.json", "torn")
             /\ Left = 1 => s = Step("lead.json", "whole")
  <2>. HIDE DEF Left
  <2>1. Len(Plan(current)) = 12
    BY <1>8, PlanSteps
  <2>2. Left \in 1 .. 12 /\ 1 + Len(Plan(current)) - Left = 13 - Left
    BY <1>3, <1>4, <2>1
  <2>. QED
    BY <1>3, <1>8, <2>2, PlanSteps
<1>9. ASSUME ~Loadable(current)
      PROVE  /\ Left \in 1 .. 2
             /\ Left = 2 => s = Step("lead.json", "torn")
             /\ Left = 1 => s = Step("lead.json", "whole")
  <2>. HIDE DEF Left
  <2>. QED
    BY <1>3, <1>4, <1>9, PlanSteps
<1>10. /\ \A f \in File \ {s.file} : file'[f] = file[f]
       /\ file'[s.file] = Wrote(s.status, current)
       /\ s.file \in File \ {"library"}
  BY <1>1, <1>2, <1>3, <1>8, <1>9 DEF IType, StepSet, Step, File
<1>11. /\ s.file = "sources" => s.status \in {"torn", "plain", "raw"}
       /\ s.file = "lead.json" /\ s.status = "whole" => Left = 1
  BY <1>8, <1>9 DEF Step
<1>12. Published' => \/ Published /\ file'["lead.json"] = file["lead.json"]
                     \/ /\ Left = 1 /\ Loadable(current)
                        /\ s = Step("lead.json", "whole")
                        /\ file'["lead.json"] = Wrote("whole", current)
  <2>1. CASE s.file = "lead.json"
    BY <1>1, <1>8, <1>10, <1>11, <2>1 DEF Published, Wrote
  <2>2. CASE s.file # "lead.json"
    <3>1. file'["lead.json"] = file["lead.json"]
      BY <1>10, <2>2 DEF File
    <3>. QED
      BY <1>1, <3>1 DEF Published
  <2>. QED
    BY <2>1, <2>2
<1>13. ISources'
  <2>1. file'["sources"].status \in {"missing", "torn", "plain", "raw"}
    BY <1>2, <1>10, <1>11 DEF ISources, File, Wrote
  <2>2. file["sources"].status # "missing" => file'["sources"].status # "missing"
    BY <1>10, <1>11 DEF File, Wrote
  <2>3. Loadable(current) => file'["sources"].status # "missing"
    BY <1>1, <1>2, <1>8, <1>10, <2>2 DEF ISources, Step, Wrote
  <2>. QED
    BY <1>1, <1>2, <1>12, <2>1, <2>2, <2>3 DEF ISources
<1>14. IProgress'
  <2>. SUFFICES ASSUME ~retrained, todo' # <<>>, Loadable(current)
                PROVE  /\ Left' <= 9 => file'["data"] = Wrote("whole", current)
                       /\ Left' <= 7 => file'["model.json"] = Wrote("whole", current)
                       /\ Left' <= 2 => file'["sources"] = Wrote("raw", current)
    BY <1>1 DEF IProgress, Wrote
  <2>. HIDE DEF Left
  <2>1. /\ Left <= 9 => file["data"] = Wrote("whole", current)
        /\ Left <= 7 => file["model.json"] = Wrote("whole", current)
        /\ Left <= 2 => file["sources"] = Wrote("raw", current)
    BY <1>1, <1>2 DEF IProgress
  <2>2. Left' <= 9 => file'["data"] = Wrote("whole", current)
    BY <1>3, <1>8, <1>10, <2>1 DEF Step, File
  <2>3. Left' <= 7 => file'["model.json"] = Wrote("whole", current)
    BY <1>3, <1>8, <1>10, <2>1 DEF Step, File
  <2>4. Left' <= 2 => file'["sources"] = Wrote("raw", current)
    BY <1>3, <1>8, <1>10, <2>1 DEF Step, File
  <2>. QED
    BY <2>2, <2>3, <2>4
<1>15. ~retrained => /\ ~Published
                     /\ file["library"] = Missing /\ file'["library"] = Missing
                     /\ \A l \in Loader : pc[l] \in {"idle", "failed"} /\ ~hasher[l].loaded
  BY <1>1, <1>2, <1>10 DEF IFiles, IUnpublished, File
<1>16. IUnpublished'
  BY <1>1, <1>15 DEF IUnpublished, Missing, Wrote
<1>17. IFiles'
  <2>. SUFFICES ASSUME ~retrained, Published'
                PROVE  IFiles'
    BY <1>1 DEF IFiles
  <2>1. /\ Left = 1 /\ Loadable(current) /\ s = Step("lead.json", "whole")
        /\ file'["lead.json"] = Wrote("whole", current)
    BY <1>12, <1>15
  <2>2. /\ file["data"] = Wrote("whole", current)
        /\ file["model.json"] = Wrote("whole", current)
        /\ file["sources"] = Wrote("raw", current)
    BY <1>1, <1>2, <2>1 DEF IProgress
  <2>3. /\ file'["data"] = Wrote("whole", current)
        /\ file'["model.json"] = Wrote("whole", current)
        /\ file'["sources"] = Wrote("raw", current)
        /\ file'["lead.json"].by = current
        /\ file'["library"].status = "missing"
    BY <1>10, <1>15, <2>1, <2>2 DEF Step, File, Wrote, Missing
  <2>. QED
    BY <1>1, <1>3, <2>1, <2>3 DEF IFiles, Wrote
<1>18. ILoaders'
  BY <1>1, <1>15 DEF ILoaders, LoaderOf, Idle
<1>. QED
  BY <1>5, <1>6, <1>7, <1>13, <1>14, <1>16, <1>17, <1>18 DEF IInv

-----------------------------------------------------------------------------
(* The loaders.  Every step of one leaves the others alone, but for a link *)
(* that takes the library's name from another's file.  The invariant then  *)
(* follows conjunct by conjunct, each with one step per action.            *)
LEMMA LoaderIInv ==
  ASSUME NEW l \in Loader, IInv, Load(l) \/ KillLoader(l)
  PROVE  IInv'
<1>. USE DEF GoTo
<1>1. /\ IType /\ IVouched /\ IPlan /\ ISources /\ IProgress /\ IUnpublished
      /\ IFiles /\ ILoaders
  BY DEF IInv
<1>2. PICK p : p = file["lead.json"].by
  OBVIOUS
<1>3. UNCHANGED <<trainings, current, todo, retrained>>
  BY DEF Load, ReadManifest, ReadModel, FindLibrary, Compile, Link, Linked, Open,
         LoadData, Finish, KillLoader, trainer
<1>4. /\ Training' = Training /\ Model' = Model /\ Written' = Written /\ Hashers' = Hashers
      /\ Plan(current)' = Plan(current) /\ Left' = Left
      /\ Loadable(current)' = Loadable(current)
  BY <1>3 DEF Training, Model, Written, Hashers, Plan, Loadable, Left
<1>5. /\ \A f \in File \ {"library"} : file'[f] = file[f]
      /\ file'["lead.json"] = file["lead.json"] /\ Published' = Published
  <2>1. \A f \in File \ {"library"} : file'[f] = file[f]
    BY <1>1 DEF Load, ReadManifest, ReadModel, FindLibrary, Compile, Link, Linked, Open,
         LoadData, Finish, KillLoader, IType
  <2>2. file'["lead.json"] = file["lead.json"]
    BY <2>1 DEF File
  <2>. QED
    BY <1>3, <2>1, <2>2 DEF Published, Loadable
<1>6. p \in Training \cup {None} /\ (Published => p \in Training)
  BY <1>1, <1>2 DEF IType, IVouched, Vouched, Published, File, Written
<1>7. ASSUME Compile(l)
      PROVE  /\ UNCHANGED <<file, manifest, opened, hasher>>
             /\ \/ /\ building' = [building EXCEPT ![l] = file["sources"]]
                   /\ file["sources"].status # "torn"
                   /\ pc' = [pc EXCEPT ![l] = "link"]
                \/ /\ building' = [building EXCEPT ![l] = Wrote("empty", file["sources"].by)]
                   /\ file["sources"].status = "torn"
                   /\ pc' = [pc EXCEPT ![l] = "link"]
                \/ /\ building' = building
                   /\ file["sources"].status = "torn"
                   /\ pc' = [pc EXCEPT ![l] = "failed"]
  <2>1. file["sources"].status \in {"torn", "plain", "raw"}
    BY <1>1, <1>7 DEF ISources, Compile, Idle
  <2>2. CASE file["sources"].status = "torn"
    BY <1>7, <2>2 DEF Compile
  <2>3. CASE file["sources"].status \in {"plain", "raw"}
    BY <1>7, <2>3 DEF Compile
  <2>. QED
    BY <2>1, <2>2, <2>3
<1>8. ASSUME NEW k \in Loader, k # l
      PROVE  /\ pc'[k] = pc[k] \/ (pc[k] = "linking" /\ pc'[k] = "unlinked")
             /\ manifest'[k] = manifest[k] /\ hasher'[k] = hasher[k]
             /\ building'[k] = building[k] /\ opened'[k] = opened[k]
  <2>1. CASE ReadManifest(l)
    BY <1>1, <1>8, <2>1 DEF ReadManifest, IType
  <2>2. CASE ReadModel(l)
    BY <1>1, <1>8, <2>2 DEF ReadModel, IType
  <2>3. CASE FindLibrary(l)
    BY <1>1, <1>8, <2>3 DEF FindLibrary, IType
  <2>4. CASE Compile(l)
    BY <1>1, <1>7, <1>8, <2>4 DEF IType
  <2>5. CASE Link(l)
    BY <1>1, <1>8, <2>5 DEF Link, IType
  <2>6. CASE Linked(l)
    BY <1>1, <1>8, <2>6 DEF Linked, IType
  <2>7. CASE Open(l)
    BY <1>1, <1>8, <2>7 DEF Open, IType
  <2>8. CASE LoadData(l)
    BY <1>1, <1>8, <2>8 DEF LoadData, IType
  <2>9. CASE Finish(l)
    BY <1>1, <1>8, <2>9 DEF Finish, IType
  <2>10. CASE KillLoader(l)
    BY <1>1, <1>8, <2>10 DEF KillLoader, IType
  <2>. QED
    BY <2>1, <2>2, <2>3, <2>4, <2>5, <2>6, <2>7, <2>8, <2>9, <2>10 DEF Load
<1>10. IType'
  <2>1. CASE ReadManifest(l)
    <3>1. [hasher[l] EXCEPT !.mapping = IF Published THEN p ELSE @] \in Hashers
      BY <1>1, <1>6 DEF IType, Hashers
    <3>2. hasher' \in [Loader -> Hashers]
      BY <1>1, <1>2, <2>1, <3>1 DEF IType, ReadManifest, Published
    <3>3. loads' \in [Loader -> 0 .. MaxLoads]
      BY <1>1, <2>1, LeadAssumption DEF IType, ReadManifest
    <3>4. manifest' \in [Loader -> Training \cup {None}] /\ pc' \in [Loader -> Stages]
      BY <1>1, <1>2, <1>6, <2>1 DEF IType, ReadManifest, Stages, Idle
    <3>. QED
      BY <1>1, <1>3, <1>4, <2>1, <3>2, <3>3, <3>4 DEF IType, ReadManifest
  <2>2. CASE ReadModel(l)
    <3>1. [hasher[l] EXCEPT !.model = NoModel] \in Hashers
      BY <1>1, NewTypes DEF IType, Hashers
    <3>2. hasher' \in [Loader -> Hashers] /\ pc' \in [Loader -> Stages]
      BY <1>1, <2>2, <3>1 DEF IType, ReadModel, Stages, Idle
    <3>. QED
      BY <1>1, <1>3, <1>4, <2>2, <3>2 DEF IType, ReadModel
  <2>3. CASE FindLibrary(l)
    <3>1. pc' \in [Loader -> Stages]
      BY <1>1, <2>3 DEF IType, FindLibrary, Stages
    <3>. QED
      BY <1>1, <1>3, <1>4, <2>3, <3>1 DEF IType, FindLibrary
  <2>4. CASE Compile(l)
    <3>1. file["sources"] \in Written /\ Wrote("empty", file["sources"].by) \in Written
      BY <1>1 DEF IType, File, Written, Wrote, Status
    <3>2. building' \in [Loader -> Written] /\ pc' \in [Loader -> Stages]
      BY <1>1, <1>7, <2>4, <3>1 DEF IType, Stages, Idle
    <3>. QED
      BY <1>1, <1>3, <1>4, <2>4, <3>2 DEF IType, Compile
  <2>5. CASE Link(l)
    <3>1. Wrote("torn", None) \in Written /\ "library" \in File
      BY DEF Written, Wrote, Status, File
    <3>2. file' \in [File -> Written] /\ pc' \in [Loader -> Stages]
      BY <1>1, <2>5, <3>1 DEF IType, Link, Stages
    <3>. QED
      BY <1>1, <1>3, <1>4, <2>5, <3>2 DEF IType, Link
  <2>6. CASE Linked(l)
    <3>1. Missing \in Written /\ "library" \in File
      BY DEF Missing, Written, Wrote, Status, File
    <3>2. /\ file' \in [File -> Written] /\ pc' \in [Loader -> Stages]
          /\ building' \in [Loader -> Written]
      BY <1>1, <2>6, <3>1 DEF IType, Linked, Stages
    <3>. QED
      BY <1>1, <1>3, <1>4, <2>6, <3>2 DEF IType, Linked
  <2>7. CASE Open(l)
    <3>1. [code |-> file["library"].by, raw |-> file["library"].status = "raw",
           data |-> None] \in Model
      BY <1>1 DEF IType, File, Written, Model
    <3>2. opened' \in [Loader -> Model] /\ pc' \in [Loader -> Stages]
      BY <1>1, <2>7, <3>1 DEF IType, Open, Stages, Idle
    <3>. QED
      BY <1>1, <1>3, <1>4, <2>7, <3>2 DEF IType, Open
  <2>8. CASE LoadData(l)
    <3>1. /\ [opened[l] EXCEPT !.data = file["data"].by] \in Model /\ NoModel \in Model
      BY <1>1 DEF IType, File, Written, Model, NoModel
    <3>2. [hasher[l] EXCEPT !.model = [opened[l] EXCEPT !.data = file["data"].by]] \in Hashers
      BY <1>1, <3>1 DEF IType, Hashers
    <3>3. /\ opened' \in [Loader -> Model] /\ pc' \in [Loader -> Stages]
          /\ hasher' \in [Loader -> Hashers]
      BY <1>1, <2>8, <3>1, <3>2 DEF IType, LoadData, Stages, Idle
    <3>. QED
      BY <1>1, <1>3, <1>4, <2>8, <3>3 DEF IType, LoadData
  <2>9. CASE Finish(l)
    <3>. DEFINE h   == hasher[l]
                key == KeyType(h.model.code)
                c   == IF Calibrates(manifest[l]) /\ h.model.raw /\ MaxIndex(manifest[l]) > 0
                       THEN manifest[l] ELSE None
    <3>1. key \in KeyTypes
      BY <1>1, <2>9, KeyTypeOf DEF IVouched, VouchedLoader, Finish
    <3>2. h \in Hashers /\ h.model.raw \in BOOLEAN /\ c \in Training \cup {None}
      BY <1>1 DEF IType, Hashers, Model
    <3>3. /\ [h EXCEPT !.key_type = key] \in Hashers
          /\ [h EXCEPT !.key_type = key, !.raw = h.model.raw, !.calibration = c,
                       !.loaded = TRUE] \in Hashers
      <4>. HIDE DEF h, key, c
      <4>. QED
        BY <3>1, <3>2 DEF Hashers
    <3>4. /\ pc' \in [Loader -> Stages] /\ hasher' \in [Loader -> Hashers]
      BY <1>1, <2>9, <3>3 DEF IType, Finish, Stages, Idle
    <3>. QED
      BY <1>1, <1>3, <1>4, <2>9, <3>4 DEF IType, Finish
  <2>10. CASE KillLoader(l)
    <3>1. Missing \in Written /\ NoModel \in Model /\ NewHasher \in Hashers
      BY NewTypes
    <3>2. kills' \in 0 .. MaxKills
      BY <1>1, <2>10, LeadAssumption DEF IType, KillLoader
    <3>3. /\ pc' \in [Loader -> Stages] /\ hasher' \in [Loader -> Hashers]
          /\ manifest' \in [Loader -> Training \cup {None}]
          /\ building' \in [Loader -> Written] /\ opened' \in [Loader -> Model]
      BY <1>1, <2>10, <3>1 DEF IType, KillLoader, Stages, Idle
    <3>. QED
      BY <1>1, <1>3, <1>4, <2>10, <3>2, <3>3 DEF IType, KillLoader
  <2>. QED
    BY <2>1, <2>2, <2>3, <2>4, <2>5, <2>6, <2>7, <2>8, <2>9, <2>10 DEF Load
<1>11. VouchedLoader(l)'
  <2>1. CASE ReadManifest(l)
    BY <1>1, <1>2, <1>3, <1>4, <1>6, <2>1 DEF ReadManifest, Published, IType, IVouched,
       VouchedLoader, Vouched, Idle
  <2>2. CASE ReadModel(l)
    BY <1>1, <1>3, <1>4, <2>2 DEF ReadModel, IType, IVouched, VouchedLoader, Vouched, Idle
  <2>3. CASE FindLibrary(l)
    BY <1>1, <1>3, <1>4, <2>3 DEF FindLibrary, IType, IVouched, VouchedLoader, Vouched, Idle
  <2>4. CASE Compile(l)
    <3>1. Vouched(building'[l])
      BY <1>1, <1>7, <2>4 DEF File, Wrote, IType, IVouched, VouchedLoader, Vouched
    <3>2. pc'[l] \in {"link", "failed"} /\ manifest' = manifest /\ pc[l] \notin Idle
      BY <1>1, <1>7, <2>4 DEF IType, Compile, Idle
    <3>. QED
      BY <1>1, <1>4, <3>1, <3>2 DEF IVouched, VouchedLoader, Vouched, Idle
  <2>5. CASE Link(l)
    BY <1>1, <1>3, <1>4, <2>5 DEF Link, IType, IVouched, VouchedLoader, Vouched, Idle
  <2>6. CASE Linked(l)
    BY <1>1, <1>3, <1>4, <2>6 DEF Linked, Missing, Wrote, IType, IVouched,
       VouchedLoader, Vouched, Idle
  <2>7. CASE Open(l)
    <3>1. Vouched(file["library"])
      BY <1>1 DEF IVouched, File
    <3>2. pc'[l] = "data" => opened'[l].code \in Training
      BY <1>1, <2>7, <3>1 DEF Open, IType, Vouched
    <3>3. /\ pc'[l] \in {"data", "failed"} /\ pc[l] \notin Idle
          /\ manifest' = manifest /\ building' = building
      BY <1>1, <2>7 DEF Open, IType, Idle
    <3>. QED
      BY <1>1, <1>4, <3>2, <3>3 DEF IVouched, VouchedLoader, Vouched, Idle
  <2>8. CASE LoadData(l)
    <3>1. pc[l] = "data" /\ opened[l].code \in Training /\ opened[l] \in Model
      BY <1>1, <2>8 DEF LoadData, IType, IVouched, VouchedLoader
    <3>2. pc'[l] = "check" => hasher'[l].model = [opened[l] EXCEPT !.data = file["data"].by]
      BY <1>1, <2>8 DEF LoadData, IType, Hashers
    <3>3. [opened[l] EXCEPT !.data = file["data"].by].code = opened[l].code
      BY <3>1 DEF Model
    <3>4. pc'[l] = "check" => hasher'[l].model.code \in Training
      BY <3>1, <3>2, <3>3
    <3>5. pc'[l] \in {"check", "failed"} /\ manifest' = manifest /\ building' = building
      BY <1>1, <2>8 DEF LoadData, IType
    <3>. QED
      BY <1>1, <1>4, <3>1, <3>4, <3>5 DEF IVouched, VouchedLoader, Vouched, Idle
  <2>9. CASE Finish(l)
    BY <1>1, <1>3, <1>4, <2>9 DEF Finish, IType, IVouched, VouchedLoader, Vouched, Idle
  <2>10. CASE KillLoader(l)
    BY <1>1, <1>3, <1>4, <2>10 DEF KillLoader, Missing, Wrote, IType, IVouched,
       VouchedLoader, Vouched, Idle
  <2>. QED
    BY <2>1, <2>2, <2>3, <2>4, <2>5, <2>6, <2>7, <2>8, <2>9, <2>10 DEF Load
<1>12. IVouched'
  <2>1. Vouched(file'["library"])
    <3>1. CASE Linked(l) \/ Link(l)
      BY <1>1, <3>1 DEF Linked, Link, IType, IVouched, VouchedLoader, Vouched, File, Wrote
    <3>2. CASE ~(Linked(l) \/ Link(l))
      <4>1. file' = file
        BY <3>2 DEF Load, ReadManifest, ReadModel, FindLibrary, Compile, Open, LoadData,
           Finish, KillLoader
      <4>. QED
        BY <1>1, <4>1 DEF IVouched, File
    <3>. QED
      BY <3>1, <3>2
  <2>2. \A f \in File : Vouched(file'[f])
    BY <1>1, <1>5, <2>1 DEF IVouched
  <2>3. ASSUME NEW k \in Loader, k # l PROVE VouchedLoader(k)'
    BY <1>1, <1>4, <1>8, <2>3 DEF IVouched, VouchedLoader, Vouched, Idle
  <2>. QED
    BY <1>4, <1>11, <2>2, <2>3 DEF IVouched, Vouched
<1>13. /\ pc[l] \in Idle => ReadManifest(l)
       /\ ReadManifest(l) => /\ pc'[l] = IF Published THEN "model" ELSE "failed"
                             /\ file' = file /\ hasher'[l].loaded = hasher[l].loaded
  <2>1. pc[l] \in Idle => ReadManifest(l)
    BY DEF Load, ReadModel, FindLibrary, Compile, Link, Linked, Open, LoadData, Finish,
           KillLoader, Idle
  <2>2. ReadManifest(l) => /\ pc'[l] = IF Published THEN "model" ELSE "failed"
                           /\ file' = file /\ hasher'[l].loaded = hasher[l].loaded
    BY <1>1 DEF ReadManifest, IType, Hashers, Published
  <2>. QED
    BY <2>1, <2>2
<1>14. ISources'
  <2>1. file'["sources"] = file["sources"]
    BY <1>5 DEF File
  <2>2. ASSUME NEW k \in Loader, pc'[k] \notin Idle
        PROVE  Published \/ \E j \in Loader : pc[j] \notin Idle
    <3>1. CASE k = l
      BY <1>13, <2>2, <3>1 DEF Idle
    <3>2. CASE k # l
      BY <1>8, <2>2, <3>2 DEF Idle
    <3>. QED
      BY <3>1, <3>2
  <2>. QED
    BY <1>1, <1>3, <1>4, <1>5, <2>1, <2>2 DEF ISources
<1>15. IPlan'
  BY <1>1, <1>3, <1>4 DEF IPlan
<1>16. IProgress'
  <2>1. /\ file'["data"] = file["data"] /\ file'["sources"] = file["sources"]
        /\ file'["model.json"] = file["model.json"]
    BY <1>5 DEF File
  <2>. QED
    BY <1>1, <1>3, <1>4, <2>1 DEF IProgress, Wrote
<1>17. IUnpublished'
  <2>. SUFFICES ASSUME ~retrained, ~Published PROVE IUnpublished'
    BY <1>3, <1>5 DEF IUnpublished
  <2>1. /\ file["library"] = Missing
        /\ \A k \in Loader : pc[k] \in {"idle", "failed"} /\ ~hasher[k].loaded
    BY <1>1 DEF IUnpublished
  <2>2. file' = file /\ pc'[l] = "failed" /\ ~hasher'[l].loaded
    BY <1>13, <2>1 DEF Idle
  <2>3. ASSUME NEW k \in Loader, k # l PROVE pc'[k] \in {"idle", "failed"} /\ ~hasher'[k].loaded
    BY <1>8, <2>1, <2>3
  <2>. QED
    BY <2>1, <2>2, <2>3 DEF IUnpublished, Missing, Wrote
<1>18. ASSUME ~retrained, Published
       PROVE  /\ file["sources"] = Wrote("raw", p) /\ file["data"] = Wrote("whole", p)
              /\ file["model.json"] = Wrote("whole", p) /\ todo = <<>>
              /\ file["library"].status \in {"missing", "torn", "raw"}
              /\ file["library"].status = "raw" => file["library"].by = p
              /\ LoaderOf(p, l)
              /\ \A k \in Loader : LoaderOf(p, k)
  BY <1>1, <1>2, <1>18 DEF IFiles, ILoaders
<1>19. ASSUME ~retrained, Published
       PROVE  /\ file'["library"].status \in {"missing", "torn", "raw"}
              /\ file'["library"].status = "raw" => file'["library"].by = p
              /\ file["library"].status # "missing" => file'["library"].status # "missing"
  <2>1. CASE Linked(l)
    <3>1. building[l] = Wrote("raw", p)
      BY <1>18, <1>19, <2>1 DEF Linked, LoaderOf
    <3>. QED
      BY <1>1, <1>18, <1>19, <2>1, <3>1 DEF Linked, Wrote, IType, File
  <2>2. CASE Link(l)
    BY <1>1, <2>2 DEF Link, Wrote, IType, File
  <2>3. CASE ~Linked(l) /\ ~Link(l)
    <3>1. file' = file
      BY <2>3 DEF Load, ReadManifest, ReadModel, FindLibrary, Compile, Open, LoadData,
         Finish, KillLoader
    <3>. QED
      BY <1>18, <1>19, <3>1
  <2>. QED
    BY <2>1, <2>2, <2>3
<1>20. IFiles'
  <2>. SUFFICES ASSUME ~retrained, Published PROVE IFiles'
    BY <1>3, <1>5 DEF IFiles
  <2>1. /\ file'["data"] = file["data"] /\ file'["sources"] = file["sources"]
        /\ file'["model.json"] = file["model.json"] /\ file'["lead.json"].by = p
    BY <1>2, <1>5 DEF File
  <2>. QED
    BY <1>3, <1>18, <1>19, <2>1 DEF IFiles, Wrote
<1>21. ASSUME NEW k \in Loader, k # l, ~retrained, Published PROVE LoaderOf(p, k)'
  <2>1. LoaderOf(p, k)
    BY <1>18, <1>21
  <2>. QED
    BY <1>3, <1>8, <1>19, <1>21, <2>1 DEF LoaderOf, OfTraining, Wrote, KeyType,
       Calibrates, MaxIndex, Idle
<1>22. ASSUME ~retrained, Published PROVE LoaderOf(p, l)'
  <2>1. CASE ReadManifest(l)
    <3>1. /\ pc'[l] = "model" /\ manifest'[l] = p
          /\ hasher'[l].mapping = p /\ hasher'[l].model = hasher[l].model
          /\ hasher'[l].loaded = hasher[l].loaded
          /\ hasher'[l].key_type = hasher[l].key_type
          /\ hasher'[l].calibration = hasher[l].calibration
      BY <1>1, <1>2, <1>22, <2>1 DEF ReadManifest, IType, Hashers, Published
    <3>. QED
      BY <1>3, <1>18, <1>19, <1>22, <3>1 DEF LoaderOf, OfTraining, NoModel, Wrote, KeyType,
         Calibrates, MaxIndex, Idle
  <2>2. CASE ReadModel(l)
    <3>1. /\ pc[l] = "model" /\ pc'[l] \in {"find", "failed"} /\ manifest' = manifest
          /\ hasher'[l].mapping = hasher[l].mapping /\ hasher'[l].model = NoModel
          /\ hasher'[l].loaded = hasher[l].loaded
          /\ hasher'[l].key_type = hasher[l].key_type
          /\ hasher'[l].calibration = hasher[l].calibration
      BY <1>1, <2>2 DEF ReadModel, IType, Hashers
    <3>. QED
      BY <1>3, <1>18, <1>19, <1>22, <3>1 DEF LoaderOf, OfTraining, NoModel, Wrote, KeyType,
         Calibrates, MaxIndex, Idle
  <2>3. CASE FindLibrary(l)
    <3>1. /\ pc[l] = "find" /\ pc'[l] \in {"open", "compile"}
          /\ pc'[l] = "open" => file["library"].status # "missing"
          /\ UNCHANGED <<manifest, building, opened, hasher>>
      BY <1>1, <2>3 DEF FindLibrary, LibraryExists, IType
    <3>. QED
      BY <1>3, <1>18, <1>19, <1>22, <3>1 DEF LoaderOf, OfTraining, NoModel, Wrote, KeyType,
         Calibrates, MaxIndex, Idle
  <2>4. CASE Compile(l)
    <3>1. /\ pc[l] = "compile" /\ pc'[l] = "link" /\ building'[l] = Wrote("raw", p)
          /\ UNCHANGED <<manifest, opened, hasher>>
      <4>1. file["sources"].status = "raw" /\ file["sources"] = Wrote("raw", p)
        BY <1>18, <1>22 DEF Wrote
      <4>2. /\ building' = [building EXCEPT ![l] = Wrote("raw", p)]
            /\ pc' = [pc EXCEPT ![l] = "link"] /\ UNCHANGED <<manifest, opened, hasher>>
        BY <1>7, <2>4, <4>1
      <4>. QED
        BY <1>1, <2>4, <4>2 DEF Compile, IType
    <3>. QED
      BY <1>3, <1>18, <1>19, <1>22, <3>1 DEF LoaderOf, OfTraining, NoModel, Wrote, KeyType,
         Calibrates, MaxIndex, Idle
  <2>5. CASE Link(l)
    <3>1. /\ pc[l] = "link" /\ pc'[l] = "linking"
          /\ file'["library"].status = "torn"
          /\ UNCHANGED <<manifest, building, opened, hasher>>
      BY <1>1, <2>5 DEF Link, IType, File, Wrote
    <3>. QED
      BY <1>3, <1>18, <1>19, <1>22, <3>1 DEF LoaderOf, OfTraining, NoModel, Wrote, KeyType,
         Calibrates, MaxIndex, Idle
  <2>6. CASE Linked(l)
    <3>1. /\ pc[l] \in {"linking", "unlinked"} /\ pc'[l] = "open"
          /\ file["library"].status # "missing"
          /\ UNCHANGED <<manifest, opened, hasher>>
      BY <1>1, <1>18, <1>22, <2>6 DEF Linked, IType, LoaderOf
    <3>. QED
      BY <1>3, <1>18, <1>19, <1>22, <3>1 DEF LoaderOf, OfTraining, NoModel, Wrote, KeyType,
         Calibrates, MaxIndex, Idle
  <2>7. CASE Open(l)
    <3>1. /\ pc[l] = "open" /\ pc'[l] \in {"data", "failed"}
          /\ pc'[l] = "data" =>
               /\ file["library"].status \in {"plain", "raw"}
               /\ opened'[l] = [code |-> file["library"].by,
                                raw |-> file["library"].status = "raw", data |-> None]
          /\ UNCHANGED <<manifest, building, hasher>>
      BY <1>1, <2>7 DEF Open, IType
    <3>2. pc'[l] = "data" => opened'[l] = [code |-> p, raw |-> TRUE, data |-> None]
      BY <1>18, <1>22, <3>1
    <3>. QED
      BY <1>3, <1>18, <1>19, <1>22, <3>1, <3>2 DEF LoaderOf, OfTraining, NoModel, Wrote,
         KeyType, Calibrates, MaxIndex, Idle
  <2>8. CASE LoadData(l)
    <3>1. pc[l] = "data" /\ file["data"].by = p /\ manifest' = manifest
      BY <1>18, <1>22, <2>8 DEF LoadData, Wrote
    <3>2. opened[l] \in Model /\ [opened[l] EXCEPT !.data = p] = OfTraining(p)
      <4>1. opened[l] = [code |-> p, raw |-> TRUE, data |-> None]
        BY <1>18, <1>22, <3>1 DEF LoaderOf
      <4>2. opened[l] \in Model
        BY <1>1 DEF IType
      <4>. DEFINE r == [opened[l] EXCEPT !.data = p]
      <4>3. r \in Model
        BY <1>6, <1>22, <4>2 DEF Model
      <4>4. r.code = opened[l].code /\ r.raw = opened[l].raw /\ r.data = p
        BY <4>2 DEF Model
      <4>5. opened[l].code = p /\ opened[l].raw = TRUE
        BY <4>1
      <4>. HIDE DEF r
      <4>6. r = OfTraining(p)
        BY <4>3, <4>4, <4>5 DEF Model, OfTraining
      <4>. QED
        BY <4>2, <4>6 DEF r
    <3>3. \/ /\ pc' = [pc EXCEPT ![l] = "check"]
             /\ hasher' = [hasher EXCEPT ![l] = [@ EXCEPT !.model = OfTraining(p)]]
          \/ /\ pc' = [pc EXCEPT ![l] = "failed"]
             /\ hasher' = hasher
      BY <2>8, <3>1, <3>2 DEF LoadData
    <3>4. /\ pc'[l] \in {"check", "failed"}
          /\ hasher'[l].mapping = hasher[l].mapping
          /\ \/ hasher'[l].model = OfTraining(p)
             \/ pc'[l] = "failed" /\ hasher'[l].model = hasher[l].model
          /\ hasher'[l].loaded = hasher[l].loaded
          /\ hasher'[l].key_type = hasher[l].key_type
          /\ hasher'[l].calibration = hasher[l].calibration
      BY <1>1, <3>3 DEF IType, Hashers
    <3>. QED
      BY <1>3, <1>18, <1>19, <1>22, <3>1, <3>4 DEF LoaderOf, OfTraining, NoModel, Wrote,
         KeyType, Calibrates, MaxIndex, Idle
  <2>9. CASE Finish(l)
    <3>1. /\ pc[l] = "check" /\ manifest[l] = p /\ hasher[l].mapping = p
          /\ hasher[l].model = OfTraining(p)
      BY <1>18, <1>22, <2>9 DEF Finish, LoaderOf, Idle
    <3>2. /\ hasher[l].model.code = p /\ hasher[l].model.raw = TRUE
      BY <3>1 DEF OfTraining
    <3>3. /\ hasher' = [hasher EXCEPT ![l] =
               [@ EXCEPT !.key_type = KeyType(p), !.raw = TRUE,
                         !.calibration = IF Calibrates(p) /\ MaxIndex(p) > 0 THEN p ELSE None,
                         !.loaded = TRUE]]
          /\ pc' = [pc EXCEPT ![l] = "done"] /\ manifest' = manifest
      BY <3>1, <3>2, <2>9 DEF Finish
    <3>4. /\ pc'[l] = "done" /\ manifest'[l] = p
          /\ hasher'[l].mapping = p /\ hasher'[l].model = OfTraining(p)
          /\ hasher'[l].key_type = KeyType(p)
          /\ hasher'[l].calibration = IF Calibrates(p) /\ MaxIndex(p) > 0 THEN p ELSE None
      BY <1>1, <3>1, <3>3 DEF IType, Hashers
    <3>. QED
      BY <1>3, <1>18, <1>19, <1>22, <3>4 DEF LoaderOf, OfTraining, NoModel, Wrote,
         KeyType, Calibrates, MaxIndex, Idle
  <2>10. CASE KillLoader(l)
    <3>1. pc'[l] = "idle" /\ hasher'[l].loaded = FALSE
      BY <1>1, <2>10 DEF KillLoader, IType, NewHasher
    <3>. QED
      BY <1>3, <1>18, <1>19, <1>22, <3>1 DEF LoaderOf, OfTraining, NoModel, Wrote, KeyType,
         Calibrates, MaxIndex, Idle
  <2>. QED
    BY <2>1, <2>2, <2>3, <2>4, <2>5, <2>6, <2>7, <2>8, <2>9, <2>10 DEF Load
<1>23. ILoaders'
  <2>. SUFFICES ASSUME ~retrained, Published, NEW k \in Loader PROVE LoaderOf(p, k)'
    BY <1>2, <1>3, <1>5 DEF ILoaders
  <2>. QED
    BY <1>21, <1>22
<1>. QED
  BY <1>10, <1>12, <1>14, <1>15, <1>16, <1>17, <1>20, <1>23 DEF IInv

-----------------------------------------------------------------------------
(* Every step.                                                             *)
LEMMA StutterIInv == IInv /\ UNCHANGED vars => IInv'
<1>. SUFFICES ASSUME IInv, UNCHANGED vars PROVE IInv'
  OBVIOUS
<1>. USE DEF vars, trainer, load
<1>1. UNCHANGED <<trainings, current, todo, retrained, file, pc, manifest, building,
                  opened, hasher, loads, kills>>
  OBVIOUS
<1>2. /\ Training' = Training /\ Model' = Model /\ Written' = Written /\ Hashers' = Hashers
      /\ Plan(current)' = Plan(current) /\ Left' = Left /\ Published' = Published
      /\ Loadable(current)' = Loadable(current)
  BY <1>1 DEF Training, Model, Written, Hashers, Plan, Left, Published, Loadable
<1>3. IType' /\ IVouched' /\ IPlan'
  BY <1>1, <1>2 DEF IInv, IType, IVouched, VouchedLoader, Vouched, IPlan
<1>4. ISources' /\ IProgress' /\ IUnpublished' /\ IFiles'
  BY <1>1, <1>2 DEF IInv, ISources, IProgress, IUnpublished, IFiles, Wrote, Missing
<1>5. ILoaders'
  <2>1. PICK p : p = file["lead.json"].by
    OBVIOUS
  <2>. SUFFICES ASSUME ~retrained, Published, NEW k \in Loader PROVE LoaderOf(p, k)'
    BY <1>1, <1>2, <2>1 DEF ILoaders
  <2>2. LoaderOf(p, k)
    BY <2>1 DEF IInv, ILoaders
  <2>. QED
    BY <1>1, <2>2 DEF LoaderOf, OfTraining, Wrote, KeyType, Calibrates, MaxIndex
<1>. QED
  BY <1>3, <1>4, <1>5 DEF IInv

LEMMA NextIInv == IInv /\ [Next]_vars => IInv'
<1>. SUFFICES ASSUME IInv, [Next]_vars PROVE IInv'
  OBVIOUS
<1>1. ASSUME NEW l \in Loader, Load(l) \/ KillLoader(l) PROVE IInv'
  BY <1>1, LoaderIInv
<1>. QED
  BY <1>1, TrainIInv, WriteIInv, KillTrainingIInv, StutterIInv DEF Next

LEMMA Invariance == Spec => []IInv
  BY InitIInv, NextIInv, PTL DEF Spec

-----------------------------------------------------------------------------
\* Until somebody trains over a published directory, a loadable lead.json
\* vouches for sources, data, model.json and library of its own training.
\* (train_and_generate, Hasher::load)
THEOREM FilesAgree == Spec => []PublishedFilesAgree
<1>1. IInv => PublishedFilesAgree
  <2>. SUFFICES ASSUME IInv PROVE PublishedFilesAgree
    OBVIOUS
  <2>1. TypeOK
    BY DEF IInv, IType, TypeOK, StepSet, Stages, Written, Hashers
  <2>. QED
    BY <2>1 DEF IInv, IFiles, Published, PublishedFilesAgree
<1>. QED
  BY <1>1, Invariance, PTL

\* A hash is computed with the code, the data, the mapping and the calibration
\* of one training.  (Hasher::load, Hasher::hash)
THEOREM HashesAgree == Spec => []AnswersAgree
<1>1. IInv => AnswersAgree
  <2>. SUFFICES ASSUME IInv, NEW l \in Loader, Answers(l), ~retrained
                PROVE  LET h == hasher[l] IN
                       /\ h.model = [code |-> h.mapping, raw |-> TRUE, data |-> h.mapping]
                       /\ h.key_type = KeyType(h.mapping)
                       /\ h.calibration = h.mapping
                            <=> Calibrates(h.mapping) /\ MaxIndex(h.mapping) > 0
    BY DEF AnswersAgree
  <2>. DEFINE p == file["lead.json"].by
  <2>1. hasher[l].loaded /\ hasher[l].model.code # None
    BY DEF Answers
  <2>2. Published
    BY <2>1 DEF IInv, IUnpublished
  <2>3. LoaderOf(p, l) /\ p \in Training
    BY <2>2 DEF IInv, ILoaders, IVouched, Vouched, Published, File
  <2>4. p # None
    BY <2>3, TrainingIsNat DEF IInv, None
  <2>. HIDE DEF p
  <2>5. hasher[l].model = OfTraining(p) /\ hasher[l].mapping = p
    BY <2>1, <2>3 DEF LoaderOf, NoModel
  <2>. QED
    BY <2>1, <2>3, <2>4, <2>5 DEF LoaderOf, OfTraining
<1>. QED
  BY <1>1, Invariance, PTL

\* A load that got past lead.json is refused only because of a library that
\* another process is writing or died writing.  (RmModel::load, open_library)
THEOREM RefusalsJustified == Spec => RefusalIsJustified
<1>. DEFINE Justified ==
       \A l \in Loader : pc[l] \notin Idle /\ pc'[l] = "failed" /\ ~retrained
                        => pc[l] = "open" /\ file["library"].status = "torn"
<1>1. IInv /\ [Next]_vars => Justified
  <2>. SUFFICES ASSUME IInv, [Next]_vars, NEW l \in Loader,
                       pc[l] \notin Idle, pc'[l] = "failed", ~retrained
                PROVE  pc[l] = "open" /\ file["library"].status = "torn"
    OBVIOUS
  <2>1. \E k \in Loader : Load(k) \/ KillLoader(k)
    BY DEF Next, Train, Write, KillTraining, vars, load, Idle
  <2>2. PICK k \in Loader : Load(k) \/ KillLoader(k)
    BY <2>1
  <2>3. k = l /\ Load(l) /\ ~ReadManifest(l)
    <3>1. pc \in [Loader -> Stages]
      BY DEF IInv, IType
    <3>2. ASSUME k # l PROVE FALSE
      <4>1. pc'[l] \in {pc[l], "unlinked"}
        <5>1. CASE Link(k)
          BY <3>1, <3>2, <5>1 DEF Link
        <5>2. CASE ReadManifest(k) \/ ReadModel(k) \/ FindLibrary(k) \/ Linked(k)
          BY <3>1, <3>2, <5>2 DEF ReadManifest, ReadModel, FindLibrary, Linked, GoTo
        <5>3. CASE Compile(k)
          <6>1. file["sources"].status \in {"torn", "plain", "raw"}
            BY <5>3 DEF Compile, IInv, ISources, Idle
          <6>. QED
            BY <3>1, <3>2, <5>3, <6>1 DEF Compile, GoTo
        <5>4. CASE Open(k) \/ LoadData(k) \/ Finish(k) \/ KillLoader(k)
          BY <3>1, <3>2, <5>4 DEF Open, LoadData, Finish, KillLoader, GoTo
        <5>. QED
          BY <2>2, <5>1, <5>2, <5>3, <5>4 DEF Load
      <4>. QED
        BY <4>1 DEF Idle
    <3>3. ~KillLoader(l) /\ ~ReadManifest(l)
      BY <3>1 DEF KillLoader, ReadManifest, GoTo, Idle
    <3>. QED
      BY <2>2, <3>2, <3>3
  <2>4. PICK p : p = file["lead.json"].by
    OBVIOUS
  <2>5. Published
    BY DEF IInv, IUnpublished, Idle
  <2>6. /\ LoaderOf(p, l) /\ p \in Training
        /\ file["sources"] = Wrote("raw", p) /\ file["data"] = Wrote("whole", p)
        /\ file["model.json"] = Wrote("whole", p)
        /\ file["library"].status \in {"missing", "torn", "raw"}
    BY <2>4, <2>5 DEF IInv, ILoaders, IVouched, Vouched, Published, File, IFiles
  <2>7. pc[l] = "open"
    <3>1. ~ReadModel(l)
      <4>1. file["model.json"].status = "whole"
        BY <2>6 DEF Wrote
      <4>2. {file["model.json"].status, file["sources"].status} # {"missing"}
        BY <4>1
      <4>. QED
        BY <4>1, <4>2 DEF ReadModel, GoTo, IInv, IType
    <3>2. ~Compile(l)
      BY <2>6 DEF Compile, GoTo, Wrote, IInv, IType
    <3>3. ~LoadData(l)
      BY <2>6 DEF LoadData, GoTo, Wrote, IInv, IType, LoaderOf
    <3>4. ~Finish(l)
      <4>1. pc[l] = "check" => hasher[l].model.code = p /\ manifest[l] = p
        BY <2>6 DEF LoaderOf, OfTraining, Idle
      <4>. QED
        BY <4>1 DEF Finish, GoTo, IInv, IType
    <3>. QED
      BY <2>3, <3>1, <3>2, <3>3, <3>4
         DEF Load, FindLibrary, Link, Linked, Open, GoTo, IInv, IType
  <2>8. Open(l)
    BY <2>3, <2>7 DEF Load, ReadModel, FindLibrary, Compile, Link, Linked, LoadData, Finish
  <2>. QED
    BY <2>6, <2>7, <2>8 DEF Open, GoTo, LoaderOf, IInv, IType
<1>2. IInv /\ [Next]_vars => [Justified]_vars
  BY <1>1
<1>. QED
  BY <1>2, Invariance, PTL DEF Spec, RefusalIsJustified

-----------------------------------------------------------------------------
(* Powers of two: PowerOf2 unfolded, and the laws of its exponent.         *)

\* The recursion of PowerOf2(n), and its solution.
PowerTable(n) ==
  CHOOSE power : power = [i \in 0 .. n |-> IF i = 0 THEN 1 ELSE 2 * power[i - 1]]

\* The recursion of PowerOf2 has a solution.
LEMMA PowerUnfold ==
  ASSUME NEW n \in Nat
  PROVE  /\ PowerOf2(n) = PowerTable(n)[n]
         /\ PowerTable(n)[0] = 1
         /\ \A i \in 1 .. n : PowerTable(n)[i] = 2 * PowerTable(n)[i - 1]
<1>. DEFINE step == [p \in Nat \X Nat |-> 2 * p[1]]
            F(g) == [i \in 0 .. n |-> IF i = 0 THEN 1 ELSE 2 * g[i - 1]]
<1>1. PowerOf2(n) = PowerTable(n)[n]
  BY DEF PowerOf2, PowerTable
<1>2. ASSUME NEW g, g = F(g) PROVE PowerTable(n) = F(PowerTable(n))
  BY <1>2 DEF PowerTable
<1>3. step \in [Nat \X Nat -> Nat] /\ 1 \in Nat /\ 0 <= n
  OBVIOUS
<1>4. \A s \in Nat, i \in Nat : step[<<s, i>>] = 2 * s
  OBVIOUS
<1>. HIDE DEF step
<1>5. PICK g \in [0 .. n -> Nat] : Iterates(step, 1, 0, n, g)
  BY <1>3, Recursion
<1>6. ASSUME NEW i \in 1 .. n PROVE g[i] = 2 * g[i - 1]
  <2>1. i \in 0 + 1 .. n /\ i - 1 \in 0 .. n /\ i \in Nat
    OBVIOUS
  <2>2. g[i] = step[<<g[i - 1], i>>] /\ g[i - 1] \in Nat
    BY <1>5, <2>1 DEF Iterates
  <2>. QED
    BY <1>4, <2>1, <2>2
<1>7. g = F(g)
  <2>1. \A i \in 0 .. n : i # 0 => i \in 1 .. n
    OBVIOUS
  <2>2. g[0] = 1
    BY <1>5 DEF Iterates
  <2>3. \A i \in 0 .. n : g[i] = F(g)[i]
    BY <1>6, <2>1, <2>2
  <2>. QED
    BY <1>5, <2>3
<1>8. PowerTable(n) = F(PowerTable(n))
  BY <1>2, <1>7
<1>9. 0 \in 0 .. n /\ \A i \in 1 .. n : i \in 0 .. n /\ i # 0
  OBVIOUS
<1>10. \A i \in 0 .. n : PowerTable(n)[i] = IF i = 0 THEN 1 ELSE 2 * PowerTable(n)[i - 1]
  BY <1>8
<1>. QED
  BY <1>1, <1>9, <1>10

\* A power of two is a positive number, and doubles with the exponent.
LEMMA Powers ==
  /\ PowerOf2(0) = 1
  /\ \A n \in Nat : PowerOf2(n) \in Nat /\ PowerOf2(n) >= 1 /\ PowerOf2(n + 1) = 2 * PowerOf2(n)
<1>1. PowerOf2(0) = 1
  BY PowerUnfold
<1>2. ASSUME NEW n \in Nat PROVE PowerOf2(n + 1) = 2 * PowerOf2(n)
  <2>. DEFINE s == PowerTable(n)
              t == PowerTable(n + 1)
              U == {i \in 0 .. n : s[i] = t[i]}
  <2>1. /\ PowerOf2(n) = s[n] /\ s[0] = 1 /\ \A i \in 1 .. n : s[i] = 2 * s[i - 1]
        /\ PowerOf2(n + 1) = t[n + 1] /\ t[0] = 1 /\ \A i \in 1 .. n + 1 : t[i] = 2 * t[i - 1]
    BY PowerUnfold
  <2>. HIDE DEF s, t
  <2>2. 0 \in U
    BY <2>1
  <2>3. \A i \in 0 + 1 .. n : i - 1 \in U => i \in U
    BY <2>1
  <2>. HIDE DEF U
  <2>4. \A i \in 0 .. n : i \in U
    BY <2>2, <2>3, UpTo
  <2>5. s[n] = t[n]
    BY <2>4 DEF U
  <2>6. n + 1 \in 1 .. n + 1 /\ n + 1 - 1 = n
    OBVIOUS
  <2>. QED
    BY <2>1, <2>5, <2>6
<1>. DEFINE P == {n \in Nat : PowerOf2(n) \in Nat /\ PowerOf2(n) >= 1}
<1>3. 0 \in P /\ \A n \in P : n + 1 \in P
  BY <1>1, <1>2
<1>. HIDE DEF P
<1>4. P \in SUBSET Nat
  BY DEF P
<1>5. P = Nat
  BY <1>3, <1>4, NatSets
<1>6. \A n \in Nat : PowerOf2(n) \in Nat /\ PowerOf2(n) >= 1
  BY <1>5 DEF P
<1>. QED
  BY <1>1, <1>2, <1>6

\* Exponents add up.
LEMMA PowersAdd ==
  ASSUME NEW a \in Nat, NEW b \in Nat
  PROVE  PowerOf2(a + b) = PowerOf2(a) * PowerOf2(b)
<1>. DEFINE P == {n \in Nat : PowerOf2(a + n) = PowerOf2(a) * PowerOf2(n)}
<1>1. 0 \in P
  BY Powers
<1>2. ASSUME NEW n \in P PROVE n + 1 \in P
  <2>1. n \in Nat /\ n + 1 \in Nat /\ a + n \in Nat /\ a + (n + 1) = (a + n) + 1
    OBVIOUS
  <2>2. PICK x \in Nat, y \in Nat : x = PowerOf2(a) /\ y = PowerOf2(n)
    BY <2>1, Powers
  <2>3. PowerOf2(a + n) = x * y
    BY <2>2
  <2>4. PowerOf2(a + (n + 1)) = 2 * (x * y) /\ PowerOf2(n + 1) = 2 * y
    BY <2>1, <2>2, <2>3, Powers
  <2>5. 2 * (x * y) = x * (2 * y)
    OBVIOUS
  <2>. QED
    BY <2>1, <2>2, <2>4, <2>5
<1>. HIDE DEF P
<1>3. P \in SUBSET Nat
  BY DEF P
<1>4. P = Nat
  BY <1>1, <1>2, <1>3, NatSets
<1>. QED
  BY <1>4 DEF P

-----------------------------------------------------------------------------
(* A shift to the right by less than a word: p * q is the base of the       *)
(* words, p two to the power of the shift.                                 *)

\* A word has a high and a low part.
LEMMA Parts ==
  ASSUME NEW p \in Nat \ {0}, NEW q \in Nat \ {0}, NEW x \in Nat, x < p * q
  PROVE  /\ x \div p \in Nat /\ x \div p < q
         /\ x % p \in Nat /\ x % p < p /\ x = p * (x \div p) + (x % p)
<1>1. PICK h \in Nat, l \in 0 .. p - 1 :
        h = x \div p /\ l = x % p /\ x = p * h + l
  BY Division
<1>2. h < q
  <2>. SUFFICES ASSUME h >= q PROVE FALSE
    OBVIOUS
  <2>1. p * h >= p * q
    OBVIOUS
  <2>2. PICK a \in Int, b \in Int : a = p * h /\ b = p * q
    OBVIOUS
  <2>. QED
    BY <1>1, <2>1, <2>2
<1>. QED
  BY <1>1, <1>2

\* The low part moves to the top of the word below, the high part drops out.
LEMMA LowToTop ==
  ASSUME NEW p \in Nat \ {0}, NEW q \in Nat \ {0}, NEW x \in Nat, x < p * q
  PROVE  (x * q) % (p * q) = q * (x % p)
<1>1. PICK h \in Nat, l \in 0 .. p - 1 : l = x % p /\ x = p * h + l
  BY Division
<1>2. x * q = (p * q) * h + q * l
  BY <1>1
<1>3. q * l \in 0 .. p * q - 1
  <2>1. q * l <= q * (p - 1) /\ q * (p - 1) = p * q - q /\ q * l \in Nat
    OBVIOUS
  <2>. QED
    BY <2>1
<1>4. p * q \in Nat \ {0}
  OBVIOUS
<1>. DEFINE b == p * q
            r == q * l
<1>5. ((p * q) * h + q * l) % (p * q) = q * l
  <2>1. b \in Nat \ {0} /\ r \in 0 .. b - 1
    BY <1>3, <1>4
  <2>. HIDE DEF b, r
  <2>2. (b * h + r) % b = r
    BY <2>1, Quotient
  <2>. QED
    BY <2>2 DEF b, r
<1>. QED
  BY <1>1, <1>2, <1>5

\* A word before words of value n = p * m + l2, with the high part h and the low part l:
\* the shifted word, before the shifted words.
LEMMA ShiftStep ==
  ASSUME NEW p \in Nat \ {0}, NEW q \in Nat \ {0}, NEW b, b = p * q,
         NEW x, NEW h \in Nat, NEW l \in Nat, x = p * h + l, h < q, l < p,
         NEW n, NEW m \in Nat, NEW k \in Nat, n = p * m + k, k < p,
         NEW y, y = h + q * k
  PROVE  /\ y \in 0 .. b - 1 /\ y + b * m \in Nat
         /\ x + b * n = p * (y + b * m) + l
<1>1. q * k \in Nat /\ q * k <= q * (p - 1) /\ q * (p - 1) = p * q - q
  OBVIOUS
<1>2. h + q * k \in 0 .. b - 1
  <2>1. PICK a \in Nat, c \in Int : a = q * k /\ c = p * q
    BY <1>1
  <2>. QED
    BY <1>1, <2>1
<1>3. p * (h + q * k) = p * h + (p * q) * k
  OBVIOUS
<1>4. p * ((h + q * k) + b * m) = p * (h + q * k) + p * (b * m)
  <2>1. PICK a \in Nat, c \in Nat : a = h + q * k /\ c = b * m
    BY <1>2
  <2>2. p * (a + c) = p * a + p * c
    OBVIOUS
  <2>. QED
    BY <2>1, <2>2
<1>5. b * n = b * (p * m) + b * k /\ b * (p * m) = p * (b * m)
  BY <1>2
<1>. QED
  <2>1. (p * q) * k = b * k
    OBVIOUS
  <2>2. b * n \in Int /\ p * h \in Int /\ b * k \in Int /\ p * (b * m) \in Int
    OBVIOUS
  <2>3. x + b * n = p * ((h + q * k) + b * m) + l
    BY <1>2, <1>3, <1>4, <1>5, <2>1, <2>2
  <2>4. y \in Nat /\ b * m \in Nat
    BY <1>2
  <2>. QED
    BY <1>2, <2>3, <2>4

-----------------------------------------------------------------------------
(* The words of UInt256 and UInt320.                                       *)

Word320 == [0 .. 4 -> 0 .. Base - 1]
Value320(w) == w[0] + Base * (w[1] + Base * (w[2] + Base * (w[3] + Base * w[4])))

\* The base, and how a shift divides it.
LEMMA BaseFacts ==
  /\ WordBits \in Nat /\ WordBits >= 1 /\ Base \in Nat /\ Base >= 2
  /\ \A s \in 0 .. WordBits : Base = PowerOf2(s) * PowerOf2(WordBits - s)
<1>1. WordBits \in Nat /\ WordBits >= 1
  BY WordAssumption
<1>2. Base \in Nat /\ Base >= 2
  <2>1. WordBits - 1 \in Nat /\ (WordBits - 1) + 1 = WordBits
    BY <1>1
  <2>2. PowerOf2(WordBits) = 2 * PowerOf2(WordBits - 1)
        /\ PowerOf2(WordBits - 1) \in Nat /\ PowerOf2(WordBits - 1) >= 1
    BY <2>1, Powers
  <2>. QED
    BY <2>2 DEF Base
<1>3. ASSUME NEW s \in 0 .. WordBits PROVE Base = PowerOf2(s) * PowerOf2(WordBits - s)
  <2>1. s \in Nat /\ WordBits - s \in Nat /\ s + (WordBits - s) = WordBits
    BY <1>1
  <2>. QED
    BY <2>1, PowersAdd DEF Base
<1>. QED
  BY <1>1, <1>2, <1>3

\* A shift by less than a word is a division, when nothing is pushed out at the top.
LEMMA ShiftWords ==
  ASSUME NEW w \in Word320, NEW s \in 0 .. WordBits, w[4] < PowerOf2(s)
  PROVE  /\ shr_320(w, s) \in Word256
         /\ Value(shr_320(w, s)) = Value320(w) \div PowerOf2(s)
<1>. DEFINE p == PowerOf2(s)
            q == PowerOf2(WordBits - s)
            b == Base
            h(i) == w[i] \div p
            l(i) == w[i] % p
            y(i) == (w[i] \div p) + ((w[i + 1] * q) % b)
            n3 == w[3] + b * w[4]
            n2 == w[2] + b * n3
            n1 == w[1] + b * n2
            n0 == w[0] + b * n1
            m3 == y(3) + b * 0
            m2 == y(2) + b * m3
            m1 == y(1) + b * m2
            m0 == y(0) + b * m1
<1>1. /\ p \in Nat \ {0} /\ q \in Nat \ {0} /\ b \in Nat /\ b >= 2 /\ b = p * q
  <2>1. s \in Nat /\ WordBits - s \in Nat
    BY BaseFacts
  <2>. QED
    BY <2>1, BaseFacts, Powers
<1>2. \A i \in 0 .. 4 : w[i] \in Nat /\ w[i] < b
  BY <1>1 DEF Word320
<1>3. w[4] < p
  OBVIOUS
<1>4. Value320(w) = n0
  BY DEF Value320
<1>5. shr_320(w, s) = [i \in WordIndex |-> y(i)]
  BY DEF shr_320
<1>. HIDE DEF p, q, b
<1>6. \A i \in 0 .. 4 : /\ h(i) \in Nat /\ h(i) < q
                        /\ l(i) \in Nat /\ l(i) < p /\ w[i] = p * h(i) + l(i)
                        /\ (w[i] * q) % b = q * l(i)
  BY <1>1, <1>2, Parts, LowToTop
<1>7. \A i \in 0 .. 3 : y(i) = h(i) + q * l(i + 1)
  BY <1>6
<1>8. l(4) = w[4] /\ w[4] = p * 0 + l(4)
  <2>1. w[4] % p = w[4]
    <3>1. w[4] \in 0 .. p - 1 /\ p * 0 + w[4] = w[4]
      BY <1>1, <1>2, <1>3
    <3>2. (p * 0 + w[4]) % p = w[4]
      BY <1>1, <3>1, Quotient
    <3>. QED
      BY <3>1, <3>2
  <2>. QED
    BY <1>1, <1>2, <2>1
<1>. HIDE DEF h, l, y
<1>9. ASSUME NEW i \in 0 .. 3, NEW n, NEW m \in Nat, n = p * m + l(i + 1)
      PROVE  /\ y(i) \in 0 .. b - 1 /\ y(i) + b * m \in Nat
             /\ w[i] + b * n = p * (y(i) + b * m) + l(i)
  <2>1. i \in 0 .. 4 /\ i + 1 \in 0 .. 4
    OBVIOUS
  <2>2. /\ h(i) \in Nat /\ h(i) < q /\ l(i) \in Nat /\ l(i) < p /\ w[i] = p * h(i) + l(i)
        /\ l(i + 1) \in Nat /\ l(i + 1) < p /\ y(i) = h(i) + q * l(i + 1)
    BY <1>6, <1>7, <2>1
  <2>3. w[i] \in Nat /\ y(i) \in Nat
    <3>1. h(i) + q * l(i + 1) \in Nat
      BY <1>1, <2>2
    <3>. QED
      BY <1>2, <2>1, <2>2, <3>1
  <2>4. PICK x \in Nat, hi \in Nat, lo \in Nat, k \in Nat, z \in Nat :
          x = w[i] /\ hi = h(i) /\ lo = l(i) /\ k = l(i + 1) /\ z = y(i)
    BY <2>2, <2>3
  <2>5. /\ x = p * hi + lo /\ hi < q /\ lo < p /\ n = p * m + k /\ k < p /\ z = hi + q * k
    BY <1>9, <2>2, <2>4
  <2>6. z \in 0 .. b - 1 /\ z + b * m \in Nat /\ x + b * n = p * (z + b * m) + lo
    BY <1>1, <2>5, ShiftStep
  <2>. QED
    BY <2>4, <2>6
<1>10. y(3) \in 0 .. b - 1 /\ m3 \in Nat /\ n3 = p * m3 + l(3)
  <2>1. 3 \in 0 .. 3 /\ 0 \in Nat /\ 3 + 1 = 4
    OBVIOUS
  <2>. QED
    BY <1>8, <1>9, <2>1
<1>. HIDE DEF n3, m3
<1>11. y(2) \in 0 .. b - 1 /\ m2 \in Nat /\ n2 = p * m2 + l(2)
  <2>1. 2 \in 0 .. 3 /\ 2 + 1 = 3
    OBVIOUS
  <2>. QED
    BY <1>10, <1>9, <2>1
<1>. HIDE DEF n2, m2
<1>12. y(1) \in 0 .. b - 1 /\ m1 \in Nat /\ n1 = p * m1 + l(1)
  <2>1. 1 \in 0 .. 3 /\ 1 + 1 = 2
    OBVIOUS
  <2>. QED
    BY <1>11, <1>9, <2>1
<1>. HIDE DEF n1, m1
<1>13. y(0) \in 0 .. b - 1 /\ m0 \in Nat /\ n0 = p * m0 + l(0)
  <2>1. 0 \in 0 .. 3 /\ 0 + 1 = 1
    OBVIOUS
  <2>. QED
    BY <1>12, <1>9, <2>1
<1>. HIDE DEF n0, m0
<1>14. n0 \div p = m0
  <2>1. l(0) \in 0 .. p - 1
    BY <1>1, <1>6
  <2>. QED
    BY <1>1, <1>13, <2>1, Quotient
<1>15. shr_320(w, s) \in Word256
  BY <1>5, <1>10, <1>11, <1>12, <1>13 DEF Word256, WordIndex, b
<1>16. Value(shr_320(w, s)) = m0
  <2>1. y(3) + b * 0 = y(3)
    BY <1>1, <1>10
  <2>. QED
    BY <1>5, <2>1 DEF Value, WordIndex, m0, m1, m2, m3, b
<1>. QED
  BY <1>4, <1>14, <1>15, <1>16 DEF p

\* The lowest word does not count when a word and more are shifted out.
LEMMA DropWord ==
  ASSUME NEW b \in Nat \ {0}, NEW p \in Nat \ {0}, NEW x \in 0 .. b - 1, NEW n \in Nat
  PROVE  (x + b * n) \div (b * p) = n \div p
<1>1. PICK q \in Nat, r \in 0 .. p - 1 : n = p * q + r /\ n \div p = q
  BY Division
<1>. DEFINE d == b * p
            e == x + b * r
<1>2. d \in Nat \ {0}
  OBVIOUS
<1>3. e \in 0 .. d - 1
  <2>1. b * r \in Nat /\ b * r <= b * (p - 1) /\ b * (p - 1) = b * p - b
    OBVIOUS
  <2>2. PICK a \in Nat, c \in Int : a = b * r /\ c = b * p
    BY <2>1
  <2>. QED
    BY <2>1, <2>2
<1>4. x + b * n = d * q + e
  <2>1. b * n = (b * p) * q + b * r
    BY <1>1
  <2>2. b * r \in Nat /\ (b * p) * q \in Nat
    OBVIOUS
  <2>. QED
    BY <2>1, <2>2
<1>. HIDE DEF d, e
<1>5. (d * q + e) \div d = q
  BY <1>2, <1>3, Quotient
<1>. QED
  BY <1>1, <1>4, <1>5 DEF d

\* The words of a value, from one of them on.
LEMMA ValueFacts ==
  ASSUME NEW v \in Word256
  PROVE  /\ \A i \in 0 .. 3 : v[i] \in 0 .. Base - 1
         /\ v[2] + Base * v[3] \in Nat
         /\ v[1] + Base * (v[2] + Base * v[3]) \in Nat
         /\ Value(v) \in Nat
         /\ Value(v) = v[0] + Base * (v[1] + Base * (v[2] + Base * v[3]))
<1>1. Base \in Nat /\ Base >= 2
  BY BaseFacts
<1>2. \A i \in 0 .. 3 : v[i] \in 0 .. Base - 1
  BY DEF Word256, WordIndex
<1>. DEFINE b == Base
            n2 == v[2] + b * v[3]
            n1 == v[1] + b * n2
            n0 == v[0] + b * n1
<1>. HIDE DEF b
<1>3. b \in Nat /\ v[0] \in Nat /\ v[1] \in Nat /\ v[2] \in Nat /\ v[3] \in Nat
  BY <1>1, <1>2 DEF b
<1>4. n2 \in Nat
  BY <1>3
<1>. HIDE DEF n2
<1>5. n1 \in Nat
  BY <1>3, <1>4
<1>. HIDE DEF n1
<1>6. n0 \in Nat
  BY <1>3, <1>5
<1>. QED
  BY <1>2, <1>4, <1>5, <1>6 DEF Value, n0, n1, n2, b

\* The powers of two of whole words.
LEMMA WordPowers ==
  ASSUME NEW r \in Nat
  PROVE  /\ PowerOf2(WordBits + r) = Base * PowerOf2(r)
         /\ PowerOf2(2 * WordBits + r) = Base * (Base * PowerOf2(r))
         /\ PowerOf2(3 * WordBits + r) = Base * (Base * (Base * PowerOf2(r)))
         /\ PowerOf2(4 * WordBits + r) = Base * (Base * (Base * (Base * PowerOf2(r))))
<1>. DEFINE w == WordBits
<1>1. w \in Nat
  BY BaseFacts
<1>2. \A n \in Nat : PowerOf2(w + n) = Base * PowerOf2(n)
  BY <1>1, PowersAdd DEF Base
<1>. HIDE DEF w
<1>3. /\ 2 * w + r = w + (w + r) /\ 3 * w + r = w + (w + (w + r))
      /\ 4 * w + r = w + (w + (w + (w + r)))
      /\ w + r \in Nat /\ w + (w + r) \in Nat /\ w + (w + (w + r)) \in Nat
  BY <1>1
<1>4. /\ PowerOf2(2 * w + r) = Base * PowerOf2(w + r)
      /\ PowerOf2(3 * w + r) = Base * PowerOf2(w + (w + r))
      /\ PowerOf2(4 * w + r) = Base * PowerOf2(w + (w + (w + r)))
  BY <1>2, <1>3
<1>. QED
  BY <1>2, <1>3, <1>4 DEF w

\* Words and the bits that are left of a number of bits.
LEMMA BitSplit ==
  ASSUME NEW s \in Nat, s <= 4 * WordBits
  PROVE  /\ s \div WordBits \in 0 .. 4 /\ s % WordBits \in 0 .. WordBits - 1
         /\ s = (s \div WordBits) * WordBits + (s % WordBits)
         /\ (s < 4 * WordBits => s \div WordBits \in 0 .. 3)
         /\ (s \div WordBits = 4 => s = 4 * WordBits /\ s % WordBits = 0)
<1>1. WordBits \in Nat \ {0}
  BY BaseFacts
<1>2. PICK w \in Nat \ {0} : w = WordBits
  BY <1>1
<1>3. PICK q \in Nat, r \in 0 .. w - 1 : q = s \div w /\ r = s % w /\ s = w * q + r
  BY Division
<1>4. q <= 4 /\ (s < 4 * w => q <= 3) /\ (q = 4 => r = 0)
  <2>1. ASSUME q >= 5 PROVE FALSE
    <3>1. w * q >= w * 5
      BY <2>1
    <3>. QED
      BY <1>3, <1>2, <3>1
  <2>2. ASSUME q = 4 PROVE w * q = 4 * w
    BY <2>2
  <2>. QED
    BY <1>3, <1>2, <2>1, <2>2
<1>5. w * q = q * w
  OBVIOUS
<1>. QED
  BY <1>3, <1>4, <1>5, <1>2

\* A shift by any number of bits is a division.
LEMMA ShiftFacts ==
  ASSUME NEW v \in Word256, NEW s \in Nat, s < 4 * WordBits
  PROVE  /\ shr_256(v, s) \in Word256
         /\ Value(shr_256(v, s)) = Value(v) \div PowerOf2(s)
<1>. DEFINE k == s \div WordBits
            r == s % WordBits
            u == [i \in 0 .. 4 |-> IF i + k < 4 THEN v[i + k] ELSE 0]
            p == PowerOf2(r)
<1>1. /\ k \in 0 .. 3 /\ r \in 0 .. WordBits - 1 /\ s = k * WordBits + r
      /\ r \in Nat /\ r \in 0 .. WordBits
      /\ (k = 0 => s = r) /\ (k = 1 => s = WordBits + r)
  <2>1. WordBits \in Nat /\ WordBits >= 1
    BY BaseFacts
  <2>2. k \in 0 .. 3 /\ r \in 0 .. WordBits - 1 /\ s = k * WordBits + r
    BY <2>1, BitSplit
  <2>. HIDE DEF k, r
  <2>3. (k = 0 => s = r) /\ (k = 1 => s = WordBits + r)
    BY <2>1, <2>2
  <2>. QED
    BY <2>1, <2>2, <2>3
<1>2. p \in Nat \ {0} /\ Base \in Nat /\ Base >= 2
  BY <1>1, BaseFacts, Powers
<1>3. shr_256(v, s) = shr_320(u, r)
  <2>1. \A i \in WordIndex : i \in 0 .. 4 /\ i + 1 \in 0 .. 4 /\ (i + 1) + k = i + k + 1
    BY <1>1 DEF WordIndex
  <2>. QED
    BY <2>1 DEF shr_256, shr_320
<1>. HIDE DEF k, r
<1>4. u \in Word320
  <2>1. \A i \in 0 .. 4 : i + k < 4 => i + k \in 0 .. 3
    BY <1>1
  <2>2. \A i \in 0 .. 4 : u[i] \in 0 .. Base - 1
    BY <1>2, <2>1, ValueFacts
  <2>. QED
    BY <2>2 DEF Word320
<1>5. u[4] = 0
  BY <1>1
<1>6. shr_256(v, s) \in Word256 /\ Value(shr_256(v, s)) = Value320(u) \div p
  <2>1. u[4] < PowerOf2(r)
    BY <1>2, <1>5
  <2>. HIDE DEF u
  <2>. QED
    BY <1>1, <1>3, <1>4, <2>1, ShiftWords
<1>7. Value320(u) \div p = Value(v) \div PowerOf2(s)
  <2>. DEFINE b == Base
              n3 == v[3]
              n2 == v[2] + b * n3
              n1 == v[1] + b * n2
              n0 == v[0] + b * n1
  <2>1. /\ n3 \in Nat /\ n2 \in Nat /\ n1 \in Nat /\ n0 \in Nat /\ Value(v) = n0
        /\ v[0] \in 0 .. b - 1 /\ v[1] \in 0 .. b - 1 /\ v[2] \in 0 .. b - 1
    BY ValueFacts
  <2>2. Value320(u) = u[0] + b * (u[1] + b * (u[2] + b * (u[3] + b * 0)))
    BY <1>5 DEF Value320
  <2>3. b \in Nat \ {0} /\ b * 0 = 0
    BY <1>2
  <2>4. CASE k = 0
    <3>1. u[0] = v[0] /\ u[1] = v[1] /\ u[2] = v[2] /\ u[3] = v[3]
      BY <2>4
    <3>2. Value320(u) = n0
      BY <2>1, <2>2, <2>3, <3>1
    <3>3. s = r
      BY <1>1, <2>4
    <3>. QED
      BY <2>1, <3>2, <3>3
  <2>5. CASE k = 1
    <3>1. u[0] = v[1] /\ u[1] = v[2] /\ u[2] = v[3] /\ u[3] = 0
      BY <2>5
    <3>2. Value320(u) = n1
      BY <2>1, <2>2, <2>3, <3>1
    <3>3. PowerOf2(s) = b * p
      BY <1>1, <2>5, WordPowers
    <3>. HIDE DEF b, p, n1
    <3>4. n0 \div (b * p) = n1 \div p
      BY <1>2, <2>1, <2>3, DropWord
    <3>. QED
      BY <2>1, <3>2, <3>3, <3>4
  <2>6. CASE k = 2
    <3>1. u[0] = v[2] /\ u[1] = v[3] /\ u[2] = 0 /\ u[3] = 0
      BY <2>6
    <3>2. Value320(u) = n2
      BY <2>1, <2>2, <2>3, <3>1
    <3>3. PowerOf2(s) = b * (b * p)
      BY <1>1, <2>6, WordPowers
    <3>. HIDE DEF b, p, n2
    <3>4. n1 \div (b * p) = n2 \div p
      BY <1>2, <2>1, <2>3, DropWord
    <3>5. PICK c \in Nat \ {0} : c = b * p
      BY <1>2, <2>3
    <3>. HIDE DEF n1
    <3>6. c \in Nat \ {0} /\ n1 \in Nat /\ b \in Nat \ {0}
      BY <2>1, <2>3, <3>5
    <3>7. n0 = v[0] + b * n1 /\ v[0] \in 0 .. b - 1
      BY <2>1
    <3>. HIDE DEF n0
    <3>8. n0 \div (b * c) = n1 \div c
      BY <3>6, <3>7, DropWord
    <3>. QED
      BY <2>1, <3>2, <3>3, <3>4, <3>8, <3>5
  <2>7. CASE k = 3
    <3>1. u[0] = v[3] /\ u[1] = 0 /\ u[2] = 0 /\ u[3] = 0
      BY <2>7
    <3>2. Value320(u) = n3
      BY <2>1, <2>2, <2>3, <3>1
    <3>3. PowerOf2(s) = b * (b * (b * p))
      BY <1>1, <2>7, WordPowers
    <3>. HIDE DEF b, p, n3
    <3>4. n2 \div (b * p) = n3 \div p
      BY <1>2, <2>1, <2>3, DropWord
    <3>5. PICK c \in Nat \ {0} : c = b * p
      BY <1>2, <2>3
    <3>. HIDE DEF n2
    <3>6. c \in Nat \ {0} /\ n2 \in Nat /\ n1 \in Nat /\ b \in Nat \ {0}
      BY <2>1, <2>3, <3>5
    <3>7. n1 = v[1] + b * n2 /\ v[1] \in 0 .. b - 1
      BY <2>1
    <3>. HIDE DEF n1
    <3>8. n1 \div (b * c) = n2 \div c
      BY <3>6, <3>7, DropWord
    <3>9. PICK e \in Nat \ {0} : e = b * c
      BY <3>6
    <3>10. e \in Nat \ {0}
      BY <3>9
    <3>11. n0 = v[0] + b * n1 /\ v[0] \in 0 .. b - 1
      BY <2>1
    <3>. HIDE DEF n0
    <3>12. n0 \div (b * e) = n1 \div e
      BY <3>6, <3>10, <3>11, DropWord
    <3>. QED
      BY <2>1, <3>2, <3>3, <3>4, <3>8, <3>12, <3>5, <3>9
  <2>. QED
    BY <1>1, <2>4, <2>5, <2>6, <2>7
<1>. QED
  BY <1>6, <1>7

-----------------------------------------------------------------------------
(* The product with a word.                                                *)

\* The recursion of Carry has a solution.
LEMMA CarryUnfold ==
  ASSUME NEW v, NEW m
  PROVE  /\ Carry(v, m)[0] = 0
         /\ Carry(v, m)[1] = (v[0] * m + Carry(v, m)[0]) \div Base
         /\ Carry(v, m)[2] = (v[1] * m + Carry(v, m)[1]) \div Base
         /\ Carry(v, m)[3] = (v[2] * m + Carry(v, m)[2]) \div Base
         /\ Carry(v, m)[4] = (v[3] * m + Carry(v, m)[3]) \div Base
<1>. DEFINE F(g) == [i \in 0 .. 4 |-> IF i = 0 THEN 0 ELSE (v[i - 1] * m + g[i - 1]) \div Base]
            c1 == (v[0] * m + 0) \div Base
            c2 == (v[1] * m + c1) \div Base
            c3 == (v[2] * m + c2) \div Base
            c4 == (v[3] * m + c3) \div Base
            g == [i \in 0 .. 4 |-> IF i = 0 THEN 0 ELSE IF i = 1 THEN c1
                                   ELSE IF i = 2 THEN c2 ELSE IF i = 3 THEN c3 ELSE c4]
<1>1. Carry(v, m) = CHOOSE carry : carry = F(carry)
  BY DEF Carry
<1>2. g = F(g)
  <2>1. g[0] = 0 /\ g[1] = c1 /\ g[2] = c2 /\ g[3] = c3 /\ g[4] = c4
    OBVIOUS
  <2>2. /\ F(g)[0] = 0
        /\ F(g)[1] = (v[0] * m + g[0]) \div Base
        /\ F(g)[2] = (v[1] * m + g[1]) \div Base
        /\ F(g)[3] = (v[2] * m + g[2]) \div Base
        /\ F(g)[4] = (v[3] * m + g[3]) \div Base
    <3>1. \A i \in 0 .. 4 : F(g)[i] = IF i = 0 THEN 0 ELSE (v[i - 1] * m + g[i - 1]) \div Base
      OBVIOUS
    <3>2. 1 - 1 = 0 /\ 2 - 1 = 1 /\ 3 - 1 = 2 /\ 4 - 1 = 3
      OBVIOUS
    <3>. HIDE DEF F, g
    <3>. QED
      BY <3>1, <3>2
  <2>3. \A i \in 0 .. 4 : g[i] = F(g)[i]
    <3>1. \A i \in 0 .. 4 : i = 0 \/ i = 1 \/ i = 2 \/ i = 3 \/ i = 4
      OBVIOUS
    <3>. HIDE DEF F, g
    <3>. QED
      BY <2>1, <2>2, <3>1
  <2>. QED
    BY <2>3
<1>. HIDE DEF g
<1>3. Carry(v, m) = F(Carry(v, m))
  BY <1>1, <1>2
<1>. DEFINE c == Carry(v, m)
<1>4. \A i \in 0 .. 4 : c[i] = IF i = 0 THEN 0 ELSE (v[i - 1] * m + c[i - 1]) \div Base
  BY <1>3
<1>5. 1 - 1 = 0 /\ 2 - 1 = 1 /\ 3 - 1 = 2 /\ 4 - 1 = 3
  OBVIOUS
<1>. HIDE DEF c, F
<1>6. /\ c[0] = 0
      /\ c[1] = (v[0] * m + c[0]) \div Base
      /\ c[2] = (v[1] * m + c[1]) \div Base
      /\ c[3] = (v[2] * m + c[2]) \div Base
      /\ c[4] = (v[3] * m + c[3]) \div Base
  BY <1>4, <1>5
<1>. QED
  BY <1>6 DEF c

\* A word times m, with a carry that is at most m: so is the next.
LEMMA MulStep ==
  ASSUME NEW b \in Nat \ {0}, NEW x \in 0 .. b - 1, NEW m \in Nat, NEW c \in 0 .. m
  PROVE  /\ (x * m + c) \div b \in 0 .. m /\ (x * m + c) % b \in 0 .. b - 1
         /\ x * m + c = b * ((x * m + c) \div b) + ((x * m + c) % b)
<1>1. x * m \in Nat /\ x * m <= (b - 1) * m /\ (b - 1) * m = b * m - m
  OBVIOUS
<1>2. PICK a \in Nat : a = x * m + c
  BY <1>1
<1>3. PICK q \in Nat, r \in 0 .. b - 1 : q = a \div b /\ r = a % b /\ a = b * q + r
  BY Division
<1>4. q <= m
  <2>. SUFFICES ASSUME q >= m + 1 PROVE FALSE
    OBVIOUS
  <2>1. b * q >= b * (m + 1) /\ b * (m + 1) = b * m + b
    OBVIOUS
  <2>2. PICK e \in Nat, f \in Nat, g \in Nat : e = x * m /\ f = b * m /\ g = b * q
    BY <1>1
  <2>. QED
    BY <1>1, <1>2, <1>3, <2>1, <2>2
<1>. QED
  BY <1>2, <1>3, <1>4

\* z is x times m, and c; s is the word x before words of value n.
TimesPlus(x, m, c, z) == x * m + c = z
Before(x, b, n, s) == s = x + b * n

\* A word before words of value n.
LEMMA MulHorner ==
  ASSUME NEW b, NEW x, NEW m, NEW c, NEW d, NEW y, NEW n, NEW z, NEW s, NEW t, NEW u,
         b \in Nat, x \in Nat, m \in Nat, c \in Nat, d \in Nat, y \in Nat, n \in Nat, z \in Nat,
         TimesPlus(x, m, c, u), Before(y, b, d, u), TimesPlus(n, m, d, z),
         Before(x, b, n, s), Before(y, b, z, t)
  PROVE  TimesPlus(s, m, c, t) /\ t \in Nat
<1>1. x * m + c = b * d + y /\ n * m + d = z /\ s = x + b * n /\ t = y + b * z
  BY DEF TimesPlus, Before
<1>2. (x + b * n) * m = x * m + (b * n) * m /\ (b * n) * m = b * (n * m)
  OBVIOUS
<1>3. b * z = b * (n * m) + b * d
  BY <1>1
<1>4. PICK e \in Nat, f \in Nat, g \in Nat : e = x * m /\ f = b * (n * m) /\ g = b * d
  OBVIOUS
<1>5. s * m + c = t /\ t \in Nat
  BY <1>2, <1>3, <1>4, <1>1
<1>. QED
  BY <1>5 DEF TimesPlus

\* The five words of a product with m: its top word is at most m.
LEMMA MulWords ==
  ASSUME NEW v \in Word256, NEW m \in 0 .. Base - 1
  PROVE  /\ mul_u64_wide(v, m) \in Word320
         /\ mul_u64_wide(v, m)[4] \in 0 .. m
         /\ Value320(mul_u64_wide(v, m)) = Value(v) * m
<1>. DEFINE b == Base
            c(i) == Carry(v, m)[i]
            y(i) == ((v[i] * m) + Carry(v, m)[i]) % Base
            w == mul_u64_wide(v, m)
<1>1. b \in Nat \ {0} /\ m \in Nat /\ m <= b - 1
  BY BaseFacts
<1>2. c(0) = 0
  BY CarryUnfold
<1>3. /\ c(1) = (v[0] * m + c(0)) \div b
      /\ c(2) = (v[1] * m + c(1)) \div b
      /\ c(3) = (v[2] * m + c(2)) \div b
      /\ c(4) = (v[3] * m + c(3)) \div b
  BY CarryUnfold
<1>4. \A i \in 0 .. 3 : y(i) = (v[i] * m + c(i)) % b
  OBVIOUS
<1>5. w = [i \in 0 .. 4 |-> IF i = 4 THEN c(4) ELSE y(i)]
  BY DEF mul_u64_wide
<1>6. v[0] \in 0 .. b - 1 /\ v[1] \in 0 .. b - 1 /\ v[2] \in 0 .. b - 1 /\ v[3] \in 0 .. b - 1
  BY ValueFacts
<1>7. Value(v) = v[0] + b * (v[1] + b * (v[2] + b * v[3]))
  BY ValueFacts
<1>. HIDE DEF b, c, y, w
<1>8. ASSUME NEW x \in 0 .. b - 1, NEW k \in 0 .. m, NEW q, q = (x * m + k) \div b,
             NEW r, r = (x * m + k) % b
      PROVE  q \in 0 .. m /\ r \in 0 .. b - 1 /\ x * m + k = b * q + r
  BY <1>1, <1>8, MulStep
<1>9. c(0) \in 0 .. m
  BY <1>1, <1>2
<1>10. c(1) \in 0 .. m /\ y(0) \in 0 .. b - 1 /\ v[0] * m + c(0) = b * c(1) + y(0)
  BY <1>3, <1>4, <1>6, <1>8, <1>9
<1>11. c(2) \in 0 .. m /\ y(1) \in 0 .. b - 1 /\ v[1] * m + c(1) = b * c(2) + y(1)
  BY <1>3, <1>4, <1>6, <1>8, <1>10
<1>12. c(3) \in 0 .. m /\ y(2) \in 0 .. b - 1 /\ v[2] * m + c(2) = b * c(3) + y(2)
  BY <1>3, <1>4, <1>6, <1>8, <1>11
<1>13. c(4) \in 0 .. m /\ y(3) \in 0 .. b - 1 /\ v[3] * m + c(3) = b * c(4) + y(3)
  BY <1>3, <1>4, <1>6, <1>8, <1>12
<1>14. w \in Word320 /\ w[4] \in 0 .. m
  <2>1. \A i \in 0 .. 4 : w[i] \in 0 .. b - 1
    <3>1. c(4) \in 0 .. b - 1
      BY <1>1, <1>13
    <3>2. \A i \in 0 .. 4 : i = 0 \/ i = 1 \/ i = 2 \/ i = 3 \/ i = 4
      OBVIOUS
    <3>. QED
      BY <1>5, <1>10, <1>11, <1>12, <1>13, <3>1, <3>2
  <2>2. w[4] = c(4)
    BY <1>5
  <2>3. w \in [0 .. 4 -> 0 .. b - 1]
    BY <1>5, <2>1
  <2>. QED
    BY <1>13, <2>2, <2>3 DEF Word320, b
<1>15. w[0] = y(0) /\ w[1] = y(1) /\ w[2] = y(2) /\ w[3] = y(3) /\ w[4] = c(4)
  BY <1>5
<1>. DEFINE z3 == y(3) + b * c(4)
            z2 == y(2) + b * z3
            z1 == y(1) + b * z2
            z0 == y(0) + b * z1
            n2 == v[2] + b * v[3]
            n1 == v[1] + b * n2
<1>16. /\ v[0] \in Nat /\ v[1] \in Nat /\ v[2] \in Nat /\ v[3] \in Nat
       /\ y(0) \in Nat /\ y(1) \in Nat /\ y(2) \in Nat /\ y(3) \in Nat
       /\ c(0) \in Nat /\ c(1) \in Nat /\ c(2) \in Nat /\ c(3) \in Nat /\ c(4) \in Nat
  BY <1>1, <1>6, <1>9, <1>10, <1>11, <1>12, <1>13
<1>17. n2 \in Nat /\ n1 \in Nat
  <2>1. n2 \in Nat
    BY <1>1, <1>16
  <2>. HIDE DEF n2
  <2>. QED
    BY <1>1, <1>16, <2>1
<1>18. v[3] * m + c(3) = z3 /\ z3 \in Nat
  <2>1. PICK e \in Nat : e = b * c(4)
    BY <1>1, <1>16
  <2>. QED
    BY <1>13, <1>16, <2>1
<1>. HIDE DEF z3
<1>19. b \in Nat /\ m \in Nat
  BY <1>1
<1>20. Before(v[2], b, v[3], n2) /\ Before(y(2), b, z3, z2)
  BY DEF Before
<1>21. Before(v[1], b, n2, n1) /\ Before(y(1), b, z2, z1)
  BY DEF Before
<1>22. Before(v[0], b, n1, Value(v)) /\ Before(y(0), b, z1, z0)
  BY <1>7 DEF Before
<1>23. TimesPlus(v[3], m, c(3), z3) /\ z3 \in Nat
  BY <1>18 DEF TimesPlus
<1>24. \A i \in 0 .. 2 : TimesPlus(v[i], m, c(i), v[i] * m + c(i))
  BY DEF TimesPlus
<1>25. /\ Before(y(2), b, c(3), v[2] * m + c(2))
       /\ Before(y(1), b, c(2), v[1] * m + c(1))
       /\ Before(y(0), b, c(1), v[0] * m + c(0))
  <2>1. ASSUME NEW e, NEW x \in Nat, NEW z \in Nat, e = b * x + z PROVE Before(z, b, x, e)
    BY <1>19, <2>1 DEF Before
  <2>. QED
    BY <1>10, <1>11, <1>12, <1>16, <2>1
<1>. HIDE DEF n2, z2
<1>. HIDE DEF n1, z1
<1>. HIDE DEF z0
<1>26. TimesPlus(n2, m, c(2), z2) /\ z2 \in Nat
  BY <1>16, <1>19, <1>20, <1>23, <1>24, <1>25, MulHorner
<1>27. TimesPlus(n1, m, c(1), z1) /\ z1 \in Nat
  BY <1>17, <1>16, <1>26, <1>19, <1>21, <1>24, <1>25, MulHorner
<1>28. TimesPlus(Value(v), m, c(0), z0) /\ z0 \in Nat
  BY <1>17, <1>16, <1>27, <1>19, <1>22, <1>24, <1>25, MulHorner
<1>29. Value320(w) = z0
  BY <1>15 DEF Value320, z0, z1, z2, z3, b
<1>30. Value(v) * m = z0
  <2>1. Value(v) \in Nat
    BY ValueFacts
  <2>2. PICK e \in Int : e = Value(v) * m
    BY <1>1, <2>1
  <2>3. e + 0 = z0
    BY <1>28, <1>2, <2>2 DEF TimesPlus
  <2>. QED
    BY <2>2, <2>3
<1>. QED
  BY <1>14, <1>29, <1>30 DEF w

-----------------------------------------------------------------------------
(* The quotient by a word.                                                 *)

\* The recursion of div_u64.
RemTable(v, d) ==
  CHOOSE rem : rem = [i \in 0 .. 4 |-> IF i = 4 THEN 0 ELSE (rem[i + 1] * Base + v[i]) % d]

\* The recursion of div_u64 has a solution.
LEMMA RemUnfold ==
  ASSUME NEW v, NEW d
  PROVE  /\ RemTable(v, d)[4] = 0
         /\ RemTable(v, d)[3] = (RemTable(v, d)[4] * Base + v[3]) % d
         /\ RemTable(v, d)[2] = (RemTable(v, d)[3] * Base + v[2]) % d
         /\ RemTable(v, d)[1] = (RemTable(v, d)[2] * Base + v[1]) % d
         /\ RemTable(v, d)[0] = (RemTable(v, d)[1] * Base + v[0]) % d
         /\ div_u64(v, d)
              = [i \in WordIndex |-> (RemTable(v, d)[i + 1] * Base + v[i]) \div d]
<1>. DEFINE F(g) == [i \in 0 .. 4 |-> IF i = 4 THEN 0 ELSE (g[i + 1] * Base + v[i]) % d]
            r3 == (0 * Base + v[3]) % d
            r2 == (r3 * Base + v[2]) % d
            r1 == (r2 * Base + v[1]) % d
            r0 == (r1 * Base + v[0]) % d
            g == [i \in 0 .. 4 |-> IF i = 4 THEN 0 ELSE IF i = 3 THEN r3
                                   ELSE IF i = 2 THEN r2 ELSE IF i = 1 THEN r1 ELSE r0]
<1>1. RemTable(v, d) = CHOOSE rem : rem = F(rem)
  BY DEF RemTable
<1>2. g = F(g)
  <2>1. g[4] = 0 /\ g[3] = r3 /\ g[2] = r2 /\ g[1] = r1 /\ g[0] = r0
    OBVIOUS
  <2>2. /\ F(g)[4] = 0
        /\ F(g)[3] = (g[4] * Base + v[3]) % d
        /\ F(g)[2] = (g[3] * Base + v[2]) % d
        /\ F(g)[1] = (g[2] * Base + v[1]) % d
        /\ F(g)[0] = (g[1] * Base + v[0]) % d
    <3>1. \A i \in 0 .. 4 : F(g)[i] = IF i = 4 THEN 0 ELSE (g[i + 1] * Base + v[i]) % d
      OBVIOUS
    <3>2. 0 + 1 = 1 /\ 1 + 1 = 2 /\ 2 + 1 = 3 /\ 3 + 1 = 4
      OBVIOUS
    <3>. HIDE DEF F, g
    <3>. QED
      BY <3>1, <3>2
  <2>3. \A i \in 0 .. 4 : g[i] = F(g)[i]
    <3>1. \A i \in 0 .. 4 : i = 0 \/ i = 1 \/ i = 2 \/ i = 3 \/ i = 4
      OBVIOUS
    <3>. HIDE DEF F, g
    <3>. QED
      BY <2>1, <2>2, <3>1
  <2>. QED
    BY <2>3
<1>. HIDE DEF g
<1>. DEFINE r == RemTable(v, d)
<1>3. r = F(r)
  BY <1>1, <1>2
<1>4. \A i \in 0 .. 4 : r[i] = IF i = 4 THEN 0 ELSE (r[i + 1] * Base + v[i]) % d
  BY <1>3
<1>5. 0 + 1 = 1 /\ 1 + 1 = 2 /\ 2 + 1 = 3 /\ 3 + 1 = 4
  OBVIOUS
<1>6. div_u64(v, d) = [i \in WordIndex |-> (r[i + 1] * Base + v[i]) \div d]
  BY DEF div_u64, RemTable
<1>. HIDE DEF r, F
<1>7. /\ r[4] = 0
      /\ r[3] = (r[4] * Base + v[3]) % d
      /\ r[2] = (r[3] * Base + v[2]) % d
      /\ r[1] = (r[2] * Base + v[1]) % d
      /\ r[0] = (r[1] * Base + v[0]) % d
  BY <1>4, <1>5
<1>. QED
  BY <1>6, <1>7 DEF r

\* A remainder before a word: the digit of the quotient is a word.
LEMMA DivStep ==
  ASSUME NEW b \in Nat \ {0}, NEW d \in Nat \ {0}, NEW r \in 0 .. d - 1, NEW x \in 0 .. b - 1
  PROVE  /\ (r * b + x) \div d \in 0 .. b - 1 /\ (r * b + x) % d \in 0 .. d - 1
         /\ r * b + x = d * ((r * b + x) \div d) + ((r * b + x) % d)
<1>1. r * b \in Nat /\ r * b <= (d - 1) * b /\ (d - 1) * b = d * b - b
  OBVIOUS
<1>2. PICK a \in Nat : a = r * b + x
  BY <1>1
<1>3. PICK q \in Nat, s \in 0 .. d - 1 : q = a \div d /\ s = a % d /\ a = d * q + s
  BY Division
<1>4. q <= b - 1
  <2>. SUFFICES ASSUME q >= b PROVE FALSE
    OBVIOUS
  <2>1. d * q >= d * b
    OBVIOUS
  <2>2. PICK e \in Nat, f \in Nat, g \in Nat : e = r * b /\ f = d * b /\ g = d * q
    BY <1>1
  <2>. QED
    BY <1>1, <1>2, <1>3, <2>1, <2>2
<1>. QED
  BY <1>2, <1>3, <1>4

\* n has the quotient q by d, and the remainder r.
Quot(n, d, q, r) == n = d * q + r

\* A word before words of value n.
LEMMA DivHorner ==
  ASSUME NEW b, NEW x, NEW d, NEW r, NEW q, NEW s, NEW n, NEW m, NEW z, NEW t, NEW a,
         b \in Nat, x \in Nat, d \in Nat, r \in Nat, q \in Nat, s \in Nat, n \in Nat, m \in Nat,
         Before(x, b, r, a), Quot(a, d, q, s), Quot(n, d, m, r),
         Before(x, b, n, z), Before(q, b, m, t)
  PROVE  Quot(z, d, t, s) /\ z \in Nat /\ t \in Nat
<1>1. a = x + b * r /\ a = d * q + s /\ n = d * m + r /\ z = x + b * n /\ t = q + b * m
  BY DEF Before, Quot
<1>2. b * n = b * (d * m) + b * r /\ b * (d * m) = d * (b * m)
  <2>1. b * (d * m + r) = b * (d * m) + b * r /\ b * (d * m) = d * (b * m)
    OBVIOUS
  <2>. QED
    BY <1>1, <2>1
<1>3. d * (q + b * m) = d * q + d * (b * m)
  OBVIOUS
<1>4. PICK e \in Nat, f \in Nat, g \in Nat, h \in Nat :
        e = d * (b * m) /\ f = b * r /\ g = d * q /\ h = b * m
  OBVIOUS
<1>5. z = d * t + s /\ z \in Nat /\ t \in Nat
  BY <1>1, <1>2, <1>3, <1>4
<1>. QED
  BY <1>5 DEF Quot

\* The words of the quotient.
LEMMA DivWords ==
  ASSUME NEW v \in Word256, NEW d \in 1 .. Base - 1
  PROVE  div_u64(v, d) \in Word256 /\ Value(div_u64(v, d)) = Value(v) \div d
<1>. DEFINE b == Base
            r(i) == RemTable(v, d)[i]
            q(i) == (RemTable(v, d)[i + 1] * Base + v[i]) \div d
            u == div_u64(v, d)
<1>1. b \in Nat \ {0} /\ d \in Nat \ {0}
  BY BaseFacts
<1>2. r(4) = 0
  BY RemUnfold
<1>3. /\ r(3) = (r(4) * b + v[3]) % d
      /\ r(2) = (r(3) * b + v[2]) % d
      /\ r(1) = (r(2) * b + v[1]) % d
      /\ r(0) = (r(1) * b + v[0]) % d
  BY RemUnfold
<1>4. /\ q(3) = (r(4) * b + v[3]) \div d
      /\ q(2) = (r(3) * b + v[2]) \div d
      /\ q(1) = (r(2) * b + v[1]) \div d
      /\ q(0) = (r(1) * b + v[0]) \div d
  OBVIOUS
<1>5. u = [i \in WordIndex |-> q(i)]
  BY RemUnfold
<1>6. v[0] \in 0 .. b - 1 /\ v[1] \in 0 .. b - 1 /\ v[2] \in 0 .. b - 1 /\ v[3] \in 0 .. b - 1
  BY ValueFacts
<1>7. Value(v) = v[0] + b * (v[1] + b * (v[2] + b * v[3]))
  BY ValueFacts
<1>. HIDE DEF b, r, q, u
<1>8. ASSUME NEW k, k \in 0 .. d - 1, NEW x, x \in 0 .. b - 1,
             NEW e, e = (k * b + x) \div d, NEW s, s = (k * b + x) % d
      PROVE  /\ e \in 0 .. b - 1 /\ s \in 0 .. d - 1 /\ Quot(k * b + x, d, e, s)
             /\ Before(x, b, k, k * b + x)
  <2>1. e \in 0 .. b - 1 /\ s \in 0 .. d - 1 /\ k * b + x = d * e + s
    BY <1>1, <1>8, DivStep
  <2>2. k * b = b * k /\ k * b \in Nat
    BY <1>1, <1>8
  <2>3. k * b + x = x + b * k
    BY <1>8, <2>2
  <2>. QED
    BY <2>1, <2>3 DEF Quot, Before
<1>9. r(4) \in 0 .. d - 1
  BY <1>1, <1>2
<1>10. /\ q(3) \in 0 .. b - 1 /\ r(3) \in 0 .. d - 1 /\ Quot(r(4) * b + v[3], d, q(3), r(3))
  BY <1>3, <1>4, <1>6, <1>8, <1>9
<1>11. /\ q(2) \in 0 .. b - 1 /\ r(2) \in 0 .. d - 1 /\ Quot(r(3) * b + v[2], d, q(2), r(2))
       /\ Before(v[2], b, r(3), r(3) * b + v[2])
  BY <1>3, <1>4, <1>6, <1>8, <1>10
<1>12. /\ q(1) \in 0 .. b - 1 /\ r(1) \in 0 .. d - 1 /\ Quot(r(2) * b + v[1], d, q(1), r(1))
       /\ Before(v[1], b, r(2), r(2) * b + v[1])
  BY <1>3, <1>4, <1>6, <1>8, <1>11
<1>13. /\ q(0) \in 0 .. b - 1 /\ r(0) \in 0 .. d - 1 /\ Quot(r(1) * b + v[0], d, q(0), r(0))
       /\ Before(v[0], b, r(1), r(1) * b + v[0])
  BY <1>3, <1>4, <1>6, <1>8, <1>12
<1>14. u \in Word256
  BY <1>5, <1>10, <1>11, <1>12, <1>13 DEF Word256, WordIndex, b
<1>15. u[0] = q(0) /\ u[1] = q(1) /\ u[2] = q(2) /\ u[3] = q(3)
  BY <1>5 DEF WordIndex
<1>. DEFINE z2 == q(2) + b * q(3)
            z1 == q(1) + b * z2
            z0 == q(0) + b * z1
            n2 == v[2] + b * v[3]
            n1 == v[1] + b * n2
<1>16. Value(u) = z0
  BY <1>15 DEF Value, b
<1>17. /\ b \in Nat /\ d \in Nat
       /\ v[0] \in Nat /\ v[1] \in Nat /\ v[2] \in Nat /\ v[3] \in Nat
       /\ q(0) \in Nat /\ q(1) \in Nat /\ q(2) \in Nat /\ q(3) \in Nat
       /\ r(0) \in Nat /\ r(1) \in Nat /\ r(2) \in Nat /\ r(3) \in Nat
  BY <1>1, <1>6, <1>10, <1>11, <1>12, <1>13
<1>18. Before(v[2], b, v[3], n2) /\ Before(q(2), b, q(3), z2)
  BY DEF Before
<1>19. Before(v[1], b, n2, n1) /\ Before(q(1), b, z2, z1)
  BY DEF Before
<1>20. Before(v[0], b, n1, Value(v)) /\ Before(q(0), b, z1, z0)
  BY <1>7 DEF Before
<1>21. Quot(v[3], d, q(3), r(3))
  <2>1. r(4) * b + v[3] = v[3]
    BY <1>2, <1>17
  <2>. QED
    BY <1>10, <2>1
<1>. HIDE DEF z2, n2
<1>. HIDE DEF z1, n1
<1>. HIDE DEF z0
<1>22. Quot(n2, d, z2, r(2)) /\ n2 \in Nat /\ z2 \in Nat
  BY <1>11, <1>17, <1>18, <1>21, DivHorner
<1>23. Quot(n1, d, z1, r(1)) /\ n1 \in Nat /\ z1 \in Nat
  BY <1>12, <1>17, <1>19, <1>22, DivHorner
<1>24. Quot(Value(v), d, z0, r(0)) /\ z0 \in Nat
  BY <1>13, <1>17, <1>20, <1>23, DivHorner
<1>25. Value(v) \div d = z0
  BY <1>1, <1>13, <1>24, Quotient DEF Quot
<1>. QED
  BY <1>14, <1>16, <1>25 DEF u

-----------------------------------------------------------------------------
(* Values of so many bits.                                                 *)

\* More bits are more.
LEMMA PowersGrow ==
  ASSUME NEW a \in Nat, NEW c \in Nat, a <= c
  PROVE  PowerOf2(a) <= PowerOf2(c)
<1>1. c - a \in Nat /\ a + (c - a) = c
  OBVIOUS
<1>2. PICK x \in Nat, y \in Nat : x = PowerOf2(a) /\ y = PowerOf2(c - a) /\ y >= 1
  BY <1>1, Powers
<1>3. PowerOf2(c) = x * y
  BY <1>1, <1>2, PowersAdd
<1>4. x * y >= x
  BY <1>2
<1>. QED
  BY <1>2, <1>3, <1>4

\* The words above the first are below what the value is below.
LEMMA TopBound ==
  ASSUME NEW b, NEW x, NEW n, NEW X, NEW s, b \in Nat \ {0}, x \in Nat, n \in Nat, X \in Nat,
         Before(x, b, n, s), s < b * X
  PROVE  n < X
<1>. SUFFICES ASSUME n >= X PROVE FALSE
  OBVIOUS
<1>1. s = x + b * n
  BY DEF Before
<1>2. b * n >= b * X
  OBVIOUS
<1>3. PICK e \in Nat, f \in Nat : e = b * n /\ f = b * X
  OBVIOUS
<1>. QED
  BY <1>1, <1>2, <1>3

\* There are no words above the first when the value is below the base.
LEMMA OneWord ==
  ASSUME NEW b, NEW x, NEW n, NEW s, b \in Nat \ {0}, x \in Nat, n \in Nat,
         Before(x, b, n, s), s < b
  PROVE  n = 0 /\ s = x
<1>1. s < b * 1
  OBVIOUS
<1>2. n < 1
  BY <1>1, TopBound
<1>3. s = x + b * n /\ n = 0
  BY <1>2 DEF Before
<1>. QED
  BY <1>3

\* The words of v, from one of them on.
From2(v) == v[2] + Base * v[3]
From1(v) == v[1] + Base * From2(v)

\* They are numbers, each with its lowest word before the rest.
LEMMA FromFacts ==
  ASSUME NEW v \in Word256
  PROVE  /\ v[0] \in Nat /\ v[1] \in Nat /\ v[2] \in Nat /\ v[3] \in Nat
         /\ From2(v) \in Nat /\ From1(v) \in Nat /\ Value(v) \in Nat
         /\ Before(v[2], Base, v[3], From2(v))
         /\ Before(v[1], Base, From2(v), From1(v))
         /\ Before(v[0], Base, From1(v), Value(v))
         /\ Base \in Nat \ {0} /\ Base \in Nat
<1>1. Base \in Nat /\ Base >= 2
  BY BaseFacts
<1>2. \A i \in 0 .. 3 : v[i] \in Nat
  BY <1>1, ValueFacts
<1>3. From2(v) \in Nat /\ From1(v) \in Nat /\ Value(v) \in Nat
  BY ValueFacts DEF From1, From2
<1>4. Value(v) = v[0] + Base * From1(v)
  BY ValueFacts DEF From1, From2
<1>. QED
  BY <1>1, <1>2, <1>3, <1>4 DEF Before, From1, From2

\* A value below the base is its lowest word; a value below its square, the lowest two.
LEMMA LowestWords ==
  ASSUME NEW v \in Word256
  PROVE  /\ Value(v) < Base => Value(v) = v[0]
         /\ Value(v) < PowerOf2(2 * WordBits) => Value(v) = v[0] + Base * v[1]
<1>1. Value(v) < Base => Value(v) = v[0]
  BY FromFacts, OneWord
<1>2. ASSUME Value(v) < PowerOf2(2 * WordBits) PROVE Value(v) = v[0] + Base * v[1]
  <2>1. PowerOf2(2 * WordBits) = Base * Base
    <3>1. PowerOf2(2 * WordBits + 0) = Base * (Base * PowerOf2(0)) /\ PowerOf2(0) = 1
      BY WordPowers, Powers
    <3>2. 2 * WordBits + 0 = 2 * WordBits /\ Base * 1 = Base
      BY BaseFacts
    <3>. QED
      BY <3>1, <3>2
  <2>2. Value(v) < Base * Base
    BY <1>2, <2>1
  <2>3. From1(v) < Base
    BY <2>2, FromFacts, TopBound
  <2>4. From1(v) = v[1]
    BY <2>3, FromFacts, OneWord
  <2>. QED
    BY <2>4, FromFacts DEF Before
<1>. QED
  BY <1>1, <1>2

\* A value of so many bits has no others.
LEMMA MaskFacts ==
  ASSUME NEW v \in Word256, NEW bits \in Nat, bits <= 4 * WordBits, Value(v) < PowerOf2(bits)
  PROVE  mask_bits(v, bits) = v
<1>. DEFINE q == bits \div WordBits
            r == bits % WordBits
            p == PowerOf2(r)
            b == Base
<1>1. /\ q \in 0 .. 4 /\ r \in 0 .. WordBits - 1 /\ bits = q * WordBits + r
      /\ WordBits \in Nat /\ WordBits >= 1
  BY BitSplit, BaseFacts
<1>2. p \in Nat \ {0} /\ p <= b /\ b \in Nat \ {0} /\ r \in Nat
  <2>1. r \in Nat /\ r <= WordBits /\ WordBits \in Nat
    BY <1>1
  <2>2. PowerOf2(r) <= PowerOf2(WordBits)
    BY <2>1, PowersGrow
  <2>3. PowerOf2(r) \in Nat /\ PowerOf2(r) >= 1
    BY <2>1, Powers
  <2>4. b \in Nat /\ b >= 2 /\ b = PowerOf2(WordBits)
    BY BaseFacts DEF Base
  <2>. HIDE DEF r, b
  <2>. QED
    BY <2>1, <2>2, <2>3, <2>4
<1>3. v = [i \in WordIndex |-> v[i]] /\ WordIndex = {0, 1, 2, 3}
  BY DEF Word256, WordIndex
<1>4. PowerOf2(bits) = (IF q = 0 THEN p ELSE IF q = 1 THEN b * p
                        ELSE IF q = 2 THEN b * (b * p)
                        ELSE IF q = 3 THEN b * (b * (b * p)) ELSE PowerOf2(bits))
  <2>. DEFINE w == WordBits
  <2>. HIDE DEF q, r, w
  <2>1. /\ (q = 0 => bits = r) /\ (q = 1 => bits = w + r) /\ (q = 2 => bits = 2 * w + r)
        /\ (q = 3 => bits = 3 * w + r)
    BY <1>1 DEF w
  <2>. QED
    BY <1>2, <2>1, WordPowers DEF w
<1>5. mask_bits(v, bits) = [i \in WordIndex |-> IF i < q THEN v[i]
                                                ELSE IF i = q THEN v[i] % p ELSE 0]
  BY DEF mask_bits
<1>6. ASSUME NEW x, x \in Nat, x < p PROVE x % p = x
  <2>1. x \in 0 .. p - 1 /\ p * 0 + x = x
    BY <1>2, <1>6
  <2>2. (p * 0 + x) % p = x
    BY <1>2, <2>1, Quotient
  <2>. QED
    BY <2>1, <2>2
<1>7. ASSUME NEW x, NEW n, NEW s, x \in Nat, n \in Nat, Before(x, b, n, s), s < p
      PROVE  n = 0 /\ s = x
  <2>1. s \in Nat
    BY <1>2, <1>7 DEF Before
  <2>2. s < b
    BY <1>2, <1>7, <2>1
  <2>. QED
    BY <1>2, <1>7, <2>2, OneWord
<1>8. /\ v[0] \in Nat /\ v[1] \in Nat /\ v[2] \in Nat /\ v[3] \in Nat
      /\ From2(v) \in Nat /\ From1(v) \in Nat /\ Value(v) \in Nat
      /\ Before(v[2], b, v[3], From2(v))
      /\ Before(v[1], b, From2(v), From1(v))
      /\ Before(v[0], b, From1(v), Value(v))
  BY FromFacts
<1>. HIDE DEF q, r, p, b
<1>9. b * p \in Nat /\ b * (b * p) \in Nat
  <2>1. PICK e \in Nat : e = b * p
    BY <1>2
  <2>. QED
    BY <1>2, <2>1
<1>10. From2(v) = 0 => v[2] = 0 /\ v[3] = 0
  <2>1. ASSUME From2(v) = 0 PROVE v[2] = 0 /\ v[3] = 0
    <3>1. From2(v) < p
      BY <1>2, <2>1
    <3>. QED
      BY <1>7, <1>8, <2>1, <3>1
  <2>. QED
    BY <2>1
<1>11. CASE q = 4
  BY <1>3, <1>5, <1>11
<1>12. CASE q = 3
  <2>1. Value(v) < b * (b * (b * p))
    BY <1>4, <1>12
  <2>2. From1(v) < b * (b * p)
    BY <1>2, <1>8, <1>9, <2>1, TopBound
  <2>3. From2(v) < b * p
    BY <1>2, <1>8, <1>9, <2>2, TopBound
  <2>4. v[3] < p
    BY <1>2, <1>8, <2>3, TopBound
  <2>5. v[3] % p = v[3]
    BY <1>6, <1>8, <2>4
  <2>. QED
    BY <1>3, <1>5, <1>12, <2>5
<1>13. CASE q = 2
  <2>1. Value(v) < b * (b * p)
    BY <1>4, <1>13
  <2>2. From1(v) < b * p
    BY <1>2, <1>8, <1>9, <2>1, TopBound
  <2>3. From2(v) < p
    BY <1>2, <1>8, <2>2, TopBound
  <2>4. v[3] = 0 /\ v[2] < p
    BY <1>7, <1>8, <2>3
  <2>5. v[2] % p = v[2]
    BY <1>6, <1>8, <2>4
  <2>. QED
    BY <1>3, <1>5, <1>13, <2>4, <2>5
<1>14. CASE q = 1
  <2>1. Value(v) < b * p
    BY <1>4, <1>14
  <2>2. From1(v) < p
    BY <1>2, <1>8, <2>1, TopBound
  <2>3. From2(v) = 0 /\ v[1] < p
    BY <1>7, <1>8, <2>2
  <2>4. v[1] % p = v[1]
    BY <1>6, <1>8, <2>3
  <2>5. v[2] = 0 /\ v[3] = 0
    BY <1>10, <2>3
  <2>. QED
    BY <1>3, <1>5, <1>14, <2>4, <2>5
<1>15. CASE q = 0
  <2>1. Value(v) < p
    BY <1>4, <1>15
  <2>2. From1(v) = 0 /\ v[0] < p
    BY <1>7, <1>8, <2>1
  <2>3. v[0] % p = v[0]
    BY <1>6, <1>8, <2>2
  <2>4. From1(v) < p
    BY <1>2, <2>2
  <2>5. From2(v) = 0 /\ v[1] = 0
    BY <1>7, <1>8, <2>2, <2>4
  <2>6. v[2] = 0 /\ v[3] = 0
    BY <1>10, <2>5
  <2>. QED
    BY <1>3, <1>5, <1>15, <2>3, <2>5, <2>6
<1>. QED
  BY <1>1, <1>11, <1>12, <1>13, <1>14, <1>15

\* max_for_bits is the largest value of so many bits.
LEMMA MaxFacts ==
  ASSUME NEW bits \in Nat, bits <= 4 * WordBits
  PROVE  max_for_bits(bits) \in Word256 /\ Value(max_for_bits(bits)) = PowerOf2(bits) - 1
<1>. DEFINE q == bits \div WordBits
            r == bits % WordBits
            p == PowerOf2(r)
            b == Base
            u == max_for_bits(bits)
<1>1. /\ q \in 0 .. 4 /\ r \in 0 .. WordBits - 1 /\ bits = q * WordBits + r
      /\ WordBits \in Nat /\ WordBits >= 1 /\ (q = 4 => r = 0)
  BY BitSplit, BaseFacts
<1>2. p \in Nat \ {0} /\ p <= b /\ b \in Nat \ {0} /\ r \in Nat /\ b >= 2
  <2>1. r \in Nat /\ r <= WordBits /\ WordBits \in Nat
    BY <1>1
  <2>2. PowerOf2(r) <= PowerOf2(WordBits)
    BY <2>1, PowersGrow
  <2>3. PowerOf2(r) \in Nat /\ PowerOf2(r) >= 1
    BY <2>1, Powers
  <2>4. b \in Nat /\ b >= 2 /\ b = PowerOf2(WordBits)
    BY BaseFacts DEF Base
  <2>. HIDE DEF r, b
  <2>. QED
    BY <2>1, <2>2, <2>3, <2>4
<1>3. u = [i \in WordIndex |-> IF i < q THEN b - 1 ELSE IF i = q THEN p - 1 ELSE 0]
  BY DEF max_for_bits
<1>4. PowerOf2(bits) = IF q = 0 THEN p ELSE IF q = 1 THEN b * p ELSE IF q = 2 THEN b * (b * p)
                       ELSE IF q = 3 THEN b * (b * (b * p)) ELSE b * (b * (b * (b * p)))
  <2>. DEFINE w == WordBits
  <2>. HIDE DEF q, r, w
  <2>1. /\ (q = 0 => bits = r) /\ (q = 1 => bits = w + r) /\ (q = 2 => bits = 2 * w + r)
        /\ (q = 3 => bits = 3 * w + r) /\ (q = 4 => bits = 4 * w + r)
    BY <1>1 DEF w
  <2>2. q = 0 \/ q = 1 \/ q = 2 \/ q = 3 \/ q = 4
    BY <1>1
  <2>. QED
    BY <1>2, <2>1, <2>2, WordPowers DEF w
<1>5. q = 4 => p = 1
  BY <1>1, Powers
<1>6. Value(u) = u[0] + b * (u[1] + b * (u[2] + b * u[3]))
  BY DEF Value
<1>. HIDE DEF q, r, p, b, u
<1>7. u \in Word256
  <2>1. b - 1 \in 0 .. b - 1 /\ p - 1 \in 0 .. b - 1 /\ 0 \in 0 .. b - 1
    BY <1>2
  <2>. QED
    BY <1>3, <2>1 DEF Word256, b
<1>8. ASSUME NEW x, x \in Nat PROVE b - 1 + b * (x - 1) = b * x - 1 /\ b * x \in Nat
  <2>1. b * (x - 1) = b * x - b /\ b * x \in Nat
    BY <1>2, <1>8
  <2>2. PICK e \in Nat : e = b * x
    BY <2>1
  <2>. QED
    BY <1>2, <2>1, <2>2
<1>9. /\ b * p \in Nat /\ b * (b * p) \in Nat /\ b * (b * (b * p)) \in Nat /\ p \in Nat
  BY <1>2, <1>8
<1>10. WordIndex = {0, 1, 2, 3}
  BY DEF WordIndex
<1>11. b * 0 = 0 /\ p - 1 + 0 = p - 1
  BY <1>2
<1>12. CASE q = 4
  <2>1. u[0] = b - 1 /\ u[1] = b - 1 /\ u[2] = b - 1 /\ u[3] = b - 1
    BY <1>3, <1>10, <1>12
  <2>2. u[3] = b * p - 1
    BY <1>2, <1>5, <1>12, <2>1
  <2>. QED
    BY <1>4, <1>6, <1>7, <1>8, <1>9, <1>12, <2>1, <2>2 DEF u
<1>13. CASE q = 3
  <2>1. u[0] = b - 1 /\ u[1] = b - 1 /\ u[2] = b - 1 /\ u[3] = p - 1
    BY <1>3, <1>10, <1>13
  <2>. QED
    BY <1>4, <1>6, <1>7, <1>8, <1>9, <1>13, <2>1 DEF u
<1>14. CASE q = 2
  <2>1. u[0] = b - 1 /\ u[1] = b - 1 /\ u[2] = p - 1 /\ u[3] = 0
    BY <1>3, <1>10, <1>14
  <2>. QED
    BY <1>4, <1>6, <1>7, <1>8, <1>9, <1>11, <1>14, <2>1 DEF u
<1>15. CASE q = 1
  <2>1. u[0] = b - 1 /\ u[1] = p - 1 /\ u[2] = 0 /\ u[3] = 0
    BY <1>3, <1>10, <1>15
  <2>. QED
    BY <1>4, <1>6, <1>7, <1>8, <1>9, <1>11, <1>15, <2>1 DEF u
<1>16. CASE q = 0
  <2>1. u[0] = p - 1 /\ u[1] = 0 /\ u[2] = 0 /\ u[3] = 0
    BY <1>3, <1>10, <1>16
  <2>. QED
    BY <1>4, <1>6, <1>7, <1>9, <1>11, <1>16, <2>1 DEF u
<1>. QED
  BY <1>1, <1>12, <1>13, <1>14, <1>15, <1>16

\* The most significant words.
LEMMA MsbFacts ==
  ASSUME NEW v \in Word256, NEW bits \in Nat, bits <= 4 * WordBits, Value(v) < PowerOf2(bits)
  PROVE  /\ msb_u64(v, bits) = Value(v) \div PowerOf2(Excess(bits, 1))
         /\ msb_u128(v, bits)[1] + Base * msb_u128(v, bits)[2]
               = Value(v) \div PowerOf2(Excess(bits, 2))
<1>1. Value(v) \in Nat /\ WordBits \in Nat /\ WordBits >= 1 /\ PowerOf2(WordBits) = Base
      /\ Base \in Nat
  BY FromFacts, BaseFacts DEF Base
<1>2. ASSUME NEW w \in Nat, bits > w, bits - w < 4 * WordBits
      PROVE  /\ shr_256(v, bits - w) \in Word256
             /\ Value(shr_256(v, bits - w)) = Value(v) \div PowerOf2(bits - w)
             /\ Value(shr_256(v, bits - w)) < PowerOf2(w)
  <2>1. bits - w \in Nat /\ (bits - w) + w = bits
    BY <1>2
  <2>2. /\ shr_256(v, bits - w) \in Word256
        /\ Value(shr_256(v, bits - w)) = Value(v) \div PowerOf2(bits - w)
    BY <1>2, <2>1, ShiftFacts
  <2>3. \A n \in Nat : PowerOf2(n) \in Nat \ {0}
    BY Powers
  <2>4. PICK e \in Nat \ {0}, f \in Nat \ {0} : e = PowerOf2(bits - w) /\ f = PowerOf2(w)
    BY <2>1, <2>3
  <2>5. PowerOf2(bits) = e * f
    BY <2>1, <2>4, PowersAdd
  <2>6. Value(v) \div e < f
    BY <1>1, <2>4, <2>5, Parts
  <2>. QED
    BY <2>2, <2>4, <2>6
<1>3. \A x \in Nat : x \div PowerOf2(0) = x
  <2>1. \A x \in Nat : x \div 1 = x
    OBVIOUS
  <2>. QED
    BY <2>1, Powers
<1>4. msb_u64(v, bits) = Value(v) \div PowerOf2(Excess(bits, 1))
  <2>1. CASE bits <= WordBits
    <3>1. PowerOf2(bits) <= Base /\ PowerOf2(bits) \in Nat
      BY <1>1, <2>1, PowersGrow, Powers
    <3>2. Value(v) = v[0]
      BY <1>1, <3>1, LowestWords
    <3>3. msb_u64(v, bits) = v[0] % PowerOf2(bits)
      BY <2>1 DEF msb_u64
    <3>4. PICK p \in Nat, x \in Nat : p = PowerOf2(bits) /\ x = v[0] /\ x < p
      BY <1>1, <3>1, <3>2
    <3>5. p \in Nat \ {0} /\ x \in 0 .. p - 1 /\ p * 0 + x = x
      BY <3>4
    <3>6. (p * 0 + x) % p = x
      BY <3>4, <3>5, Quotient
    <3>7. msb_u64(v, bits) = Value(v)
      BY <3>2, <3>3, <3>4, <3>5, <3>6
    <3>8. Excess(bits, 1) = 0
      BY <1>1, <2>1 DEF Excess
    <3>. QED
      BY <1>1, <1>3, <3>7, <3>8
  <2>2. CASE bits > WordBits
    <3>1. Excess(bits, 1) = bits - WordBits /\ bits - WordBits < 4 * WordBits
      BY <1>1, <2>2 DEF Excess
    <3>2. msb_u64(v, bits) = shr_256(v, bits - WordBits)[0]
      BY <1>1, <2>2 DEF msb_u64
    <3>3. /\ shr_256(v, bits - WordBits) \in Word256
          /\ Value(shr_256(v, bits - WordBits)) = Value(v) \div PowerOf2(bits - WordBits)
          /\ Value(shr_256(v, bits - WordBits)) < Base
      BY <1>1, <1>2, <2>2, <3>1
    <3>. QED
      BY <3>1, <3>2, <3>3, LowestWords
  <2>. QED
    BY <1>1, <2>1, <2>2
<1>5. msb_u128(v, bits)[1] + Base * msb_u128(v, bits)[2] = Value(v) \div PowerOf2(Excess(bits, 2))
  <2>. DEFINE s == Excess(bits, 2)
              u == shr_256(v, s)
  <2>1. s \in Nat /\ s < 4 * WordBits
    BY <1>1 DEF Excess
  <2>2. msb_u128(v, bits)[1] = u[0] /\ msb_u128(v, bits)[2] = u[1]
    <3>1. s = IF bits <= 2 * WordBits THEN 0 ELSE bits - 2 * WordBits
      BY <1>1 DEF Excess
    <3>. HIDE DEF s
    <3>. QED
      BY <3>1 DEF msb_u128
  <2>3. u \in Word256 /\ Value(u) = Value(v) \div PowerOf2(s)
    BY <2>1, ShiftFacts
  <2>4. Value(u) < PowerOf2(2 * WordBits)
    <3>1. CASE bits <= 2 * WordBits
      <4>1. s = 0
        BY <1>1, <3>1 DEF Excess
      <4>2. Value(u) = Value(v)
        BY <1>1, <1>3, <2>3, <4>1
      <4>3. 2 * WordBits \in Nat
        BY <1>1
      <4>4. /\ PowerOf2(bits) <= PowerOf2(2 * WordBits) /\ PowerOf2(bits) \in Nat
            /\ PowerOf2(2 * WordBits) \in Nat
        BY <3>1, <4>3, PowersGrow, Powers
      <4>. QED
        BY <1>1, <4>2, <4>4
    <3>2. CASE bits > 2 * WordBits
      <4>1. s = bits - 2 * WordBits /\ 2 * WordBits \in Nat
        BY <1>1, <3>2 DEF Excess
      <4>. QED
        BY <1>2, <2>1, <3>2, <4>1
    <3>. QED
      BY <1>1, <3>1, <3>2
  <2>5. Value(u) = u[0] + Base * u[1]
    BY <2>3, <2>4, LowestWords
  <2>. QED
    BY <2>2, <2>3, <2>5
<1>. QED
  BY <1>4, <1>5

-----------------------------------------------------------------------------
(* The scaled range.                                                       *)

\* The share k / w of x is at most x, and grows with k.
LEMMA Share ==
  ASSUME NEW w \in Nat \ {0}, NEW x \in Nat, NEW k \in Nat
  PROVE  /\ (x * k) \div w \in Nat
         /\ k <= w => (x * k) \div w <= x
         /\ \A i \in Nat : i <= k => (x * i) \div w <= (x * k) \div w
<1>1. \A i \in Nat : x * i \in Nat
  OBVIOUS
<1>2. PICK q \in Nat, r \in 0 .. w - 1 : x * k = w * q + r /\ (x * k) \div w = q
  BY <1>1, Division
<1>3. ASSUME k <= w PROVE q <= x
  <2>. SUFFICES ASSUME q >= x + 1 PROVE FALSE
    OBVIOUS
  <2>1. w * q >= w * (x + 1) /\ w * (x + 1) = w * x + w /\ w * x = x * w /\ x * k <= x * w
    BY <1>3
  <2>2. PICK a \in Int, b \in Int, c \in Int : a = x * k /\ b = x * w /\ c = w * q
    BY <1>1
  <2>. QED
    BY <1>2, <2>1, <2>2
<1>4. ASSUME NEW i \in Nat, i <= k PROVE (x * i) \div w <= q
  <2>1. x * i \in Nat /\ x * i <= x * k
    BY <1>4
  <2>2. PICK u \in Nat, v \in 0 .. w - 1 : x * i = w * u + v /\ (x * i) \div w = u
    BY <1>1, Division
  <2>. SUFFICES ASSUME u >= q + 1 PROVE FALSE
    BY <2>2
  <2>3. w * u >= w * (q + 1) /\ w * (q + 1) = w * q + w
    OBVIOUS
  <2>4. PICK a \in Int, b \in Int : a = w * u /\ b = w * q
    OBVIOUS
  <2>. QED
    BY <1>2, <2>1, <2>2, <2>3, <2>4
<1>. QED
  BY <1>2, <1>3, <1>4

\* The scale factor fits into a word.
LEMMA FixedFacts ==
  /\ FixedBits \in 0 .. WordBits /\ FixedBits \in Nat
  /\ FixedOne \in Nat \ {0} /\ FixedOne = PowerOf2(FixedBits) /\ FixedOne <= Base - 1
  /\ \A n \in Nat, d \in Nat \ {0} : scale_factor_fixed(n, d) \in 1 .. FixedOne
<1>1. FixedBits \in Nat /\ FixedBits < WordBits /\ WordBits \in Nat
  BY MappingAssumption, BaseFacts
<1>2. FixedOne \in Nat \ {0} /\ FixedOne = PowerOf2(FixedBits)
  BY <1>1, Powers DEF FixedOne
<1>3. FixedOne <= Base - 1
  <2>1. FixedBits + 1 \in Nat /\ FixedBits + 1 <= WordBits
    BY <1>1
  <2>2. PowerOf2(FixedBits + 1) <= PowerOf2(WordBits)
    BY <1>1, <2>1, PowersGrow
  <2>3. PowerOf2(FixedBits + 1) = 2 * PowerOf2(FixedBits)
    BY <1>1, Powers
  <2>4. Base = PowerOf2(WordBits) /\ Base \in Nat
    BY BaseFacts DEF Base
  <2>. QED
    BY <1>2, <2>2, <2>3, <2>4
<1>4. ASSUME NEW n \in Nat, NEW d \in Nat \ {0} PROVE scale_factor_fixed(n, d) \in 1 .. FixedOne
  <2>. DEFINE rounded == (2 * n * FixedOne + d) \div (2 * d)
  <2>1. rounded \in Nat
    <3>1. PICK a \in Nat : a = n * FixedOne
      BY <1>2
    <3>2. 2 * n * FixedOne = 2 * a
      BY <1>2, <3>1
    <3>3. 2 * a + d \in Nat /\ 2 * d \in Nat \ {0}
      OBVIOUS
    <3>4. (2 * a + d) \div (2 * d) \in Nat
      BY <3>3, Division
    <3>. QED
      BY <3>2, <3>4
  <2>. HIDE DEF rounded
  <2>2. scale_factor_fixed(n, d) = IF n > d \/ rounded > FixedOne THEN FixedOne
                                   ELSE IF rounded = 0 THEN 1 ELSE rounded
    BY DEF scale_factor_fixed, rounded
  <2>. QED
    BY <1>2, <2>1, <2>2
<1>. QED
  BY <1>1, <1>2, <1>3, <1>4

\* RangeRef, of so many bits and a scale factor.
RangeOf(bits, f) == ((PowerOf2(bits) - 1) * f) \div FixedOne

\* It has no more bits than the hash space.
LEMMA RangeBound ==
  ASSUME NEW bits \in Nat, NEW f \in 1 .. FixedOne
  PROVE  /\ RangeOf(bits, f) \in Nat /\ RangeOf(bits, f) < PowerOf2(bits)
         /\ RangeOf(bits, FixedOne) = PowerOf2(bits) - 1
<1>1. PICK x \in Nat : x = PowerOf2(bits) - 1 /\ PowerOf2(bits) = x + 1
  BY Powers
<1>2. FixedOne \in Nat \ {0} /\ f \in Nat /\ f <= FixedOne
  BY FixedFacts
<1>3. (x * f) \div FixedOne \in Nat /\ (x * f) \div FixedOne <= x
  BY <1>2, Share
<1>4. (x * FixedOne) \div FixedOne = x
  BY <1>2, DivExact
<1>. QED
  BY <1>1, <1>3, <1>4 DEF RangeOf

\* A word is its own value.
LEMMA FromWordFacts ==
  ASSUME NEW x \in 0 .. Base - 1
  PROVE  FromWord(x) \in Word256 /\ Value(FromWord(x)) = x /\ FromWord(x)[0] = x
<1>1. Base \in Nat /\ Base >= 2
  BY BaseFacts
<1>. DEFINE u == FromWord(x)
<1>2. u = [i \in WordIndex |-> IF i = 0 THEN x ELSE 0]
  BY DEF FromWord, Zero256, WordIndex
<1>. HIDE DEF u
<1>3. u[0] = x /\ u[1] = 0 /\ u[2] = 0 /\ u[3] = 0
  BY <1>2 DEF WordIndex
<1>4. u \in Word256
  BY <1>1, <1>2 DEF Word256
<1>5. Base * 0 = 0 /\ 0 + 0 = 0 /\ x + 0 = x
  BY <1>1
<1>6. Value(u) = x
  BY <1>3, <1>5 DEF Value
<1>. QED
  BY <1>3, <1>4, <1>6 DEF u

\* The wide path computes the scaled range.
LEMMA WideRange ==
  ASSUME NEW bits \in Nat, bits <= 4 * WordBits, NEW f \in 1 .. FixedOne
  PROVE  /\ ScaledRangeWide(bits, f) \in Word256
         /\ Value(ScaledRangeWide(bits, f)) = RangeOf(bits, f)
<1>1. max_for_bits(bits) \in Word256 /\ Value(max_for_bits(bits)) = PowerOf2(bits) - 1
  BY MaxFacts
<1>2. CASE f = FixedOne
  <2>1. ScaledRangeWide(bits, f) = max_for_bits(bits)
    BY <1>2 DEF ScaledRangeWide
  <2>2. RangeOf(bits, f) = PowerOf2(bits) - 1
    BY <1>2, RangeBound
  <2>. QED
    BY <1>1, <2>1, <2>2
<1>3. CASE f # FixedOne
  <2>. DEFINE w == mul_u64_wide(max_for_bits(bits), f)
  <2>1. ScaledRangeWide(bits, f) = shr_320(w, FixedBits)
    BY <1>3 DEF ScaledRangeWide
  <2>2. f \in 0 .. Base - 1 /\ f < FixedOne
    <3>1. FixedOne \in Nat /\ FixedOne <= Base - 1 /\ Base \in Nat
      BY FixedFacts, BaseFacts
    <3>. QED
      BY <1>3, <3>1
  <2>3. w \in Word320 /\ w[4] \in 0 .. f /\ Value320(w) = (PowerOf2(bits) - 1) * f
    BY <1>1, <2>2, MulWords
  <2>. HIDE DEF w
  <2>4. w[4] < PowerOf2(FixedBits)
    BY <2>2, <2>3, FixedFacts
  <2>5. /\ shr_320(w, FixedBits) \in Word256
        /\ Value(shr_320(w, FixedBits)) = Value320(w) \div PowerOf2(FixedBits)
    BY <2>3, <2>4, FixedFacts, ShiftWords
  <2>. QED
    BY <2>1, <2>3, <2>5, FixedFacts DEF RangeOf
<1>. QED
  BY <1>2, <1>3

\* Both paths do.
LEMMA RangeWords ==
  ASSUME NEW bits \in Nat, bits <= 4 * WordBits, NEW f \in 1 .. FixedOne
  PROVE  /\ ScaledRange(bits, f) \in Word256
         /\ Value(ScaledRange(bits, f)) = RangeOf(bits, f)
         /\ bits <= WordBits => RangeOf(bits, f) \in 0 .. Base - 1
<1>1. ASSUME bits <= WordBits PROVE RangeOf(bits, f) \in 0 .. Base - 1
  <2>1. PowerOf2(bits) <= PowerOf2(WordBits) /\ PowerOf2(bits) \in Nat
    BY <1>1, BaseFacts, PowersGrow, Powers
  <2>2. PowerOf2(WordBits) = Base /\ Base \in Nat
    BY BaseFacts DEF Base
  <2>. QED
    BY <2>1, <2>2, RangeBound
<1>2. CASE bits <= WordBits
  <2>1. ScaledRange(bits, f) = FromWord(RangeOf(bits, f))
    BY <1>2 DEF ScaledRange, Fits, ScaledRangeWord, RangeOf
  <2>. QED
    BY <1>1, <1>2, <2>1, FromWordFacts
<1>3. CASE ~(bits <= WordBits)
  <2>1. ScaledRange(bits, f) = ScaledRangeWide(bits, f)
    BY <1>3 DEF ScaledRange, Fits
  <2>. QED
    BY <1>3, <2>1, WideRange
<1>. QED
  BY <1>2, <1>3, <1>1

-----------------------------------------------------------------------------
(* From a prediction to a hash.                                            *)

\* What MappingConfig::compute makes of a training.
Configs ==
  {Mapping(m, bits, f) : m \in 0 .. Base - 1, bits \in 1 .. 4 * WordBits, f \in 1 .. FixedOne}

\* Its parts, and the range they stand for.
LEMMA ConfigFacts ==
  ASSUME NEW c \in Configs
  PROVE  /\ c.max_index \in 0 .. Base - 1 /\ c.max_index \in Nat
         /\ c.space_bits \in Nat /\ c.space_bits <= 4 * WordBits
         /\ c.fixed \in 1 .. FixedOne
         /\ RangeRef(c) = RangeOf(c.space_bits, c.fixed)
         /\ RangeRef(c) \in Nat /\ RangeRef(c) < PowerOf2(c.space_bits)
         /\ c.scale_words = IF c.max_index = 0 THEN Zero256
                            ELSE div_u64(ScaledRangeWide(c.space_bits, c.fixed), c.max_index)
<1>1. PICK m \in 0 .. Base - 1, bits \in 1 .. 4 * WordBits, f \in 1 .. FixedOne :
        c = Mapping(m, bits, f)
  BY DEF Configs
<1>2. /\ c.max_index = m /\ c.space_bits = bits /\ c.fixed = f
      /\ c.scale_words = IF m = 0 THEN Zero256 ELSE div_u64(ScaledRangeWide(bits, f), m)
  BY <1>1 DEF Mapping
<1>3. m \in Nat /\ bits \in Nat /\ bits <= 4 * WordBits
  BY BaseFacts
<1>4. RangeRef(c) = RangeOf(bits, f)
  BY <1>2 DEF RangeRef, RangeOf
<1>. QED
  BY <1>2, <1>3, <1>4, RangeBound

\* A fraction strictly between 0 and 1 is a word, and grows with its numerator.
LEMMA FixedFractions ==
  ASSUME NEW d \in Nat, NEW n \in Nat \ {0}, n < d
  PROVE  /\ FractionToFixed(n, d) \in 0 .. Base - 1 /\ FractionToFixed(n, d) \in Nat
         /\ \A k \in Nat : n <= k /\ k < d => FractionToFixed(n, d) <= FractionToFixed(k, d)
<1>1. Base \in Nat \ {0} /\ Base >= 2 /\ d \in Nat \ {0} /\ n \in 0 .. d - 1
  BY BaseFacts
<1>2. PICK b \in Nat \ {0} : b = Base /\ b >= 2
  BY <1>1
<1>3. /\ (b * n) \div d \in Nat /\ (b * n) \div d < b
      /\ \A k \in 0 .. d - 1 : n <= k => (b * n) \div d <= (b * k) \div d
  BY <1>1, Fractions
<1>4. \A k \in Nat : k * b = b * k
  OBVIOUS
<1>5. \A k \in Nat : FractionToFixed(k, d) = IF (b * k) \div d = 0 THEN 1 ELSE (b * k) \div d
  BY <1>2, <1>4 DEF FractionToFixed
<1>6. FractionToFixed(n, d) \in 0 .. b - 1 /\ FractionToFixed(n, d) \in Nat
  BY <1>2, <1>3, <1>5
<1>7. ASSUME NEW k \in Nat, n <= k, k < d
      PROVE  FractionToFixed(n, d) <= FractionToFixed(k, d)
  <2>1. k \in 0 .. d - 1 /\ k \in Nat \ {0}
    BY <1>7
  <2>2. (b * n) \div d <= (b * k) \div d
    BY <1>3, <1>7, <2>1
  <2>3. PICK x \in Nat, y \in Nat : x = (b * n) \div d /\ y = (b * k) \div d
    BY <1>1, <1>3, <2>1, Fractions
  <2>. QED
    BY <1>5, <2>2, <2>3
<1>. QED
  BY <1>2, <1>6, <1>7

\* Leaving out the lowest word of five.
LEMMA DropLowest ==
  ASSUME NEW w \in Word320
  PROVE  shr_320_64(w) \in Word256 /\ Value(shr_320_64(w)) = Value320(w) \div Base
<1>. DEFINE u == shr_320_64(w)
<1>1. u = [i \in WordIndex |-> w[i + 1]]
  BY DEF shr_320_64
<1>2. \A i \in 0 .. 4 : w[i] \in 0 .. Base - 1
  BY DEF Word320
<1>3. \A i \in WordIndex : i + 1 \in 0 .. 4
  BY DEF WordIndex
<1>. HIDE DEF u
<1>4. u \in Word256
  BY <1>1, <1>2, <1>3 DEF Word256
<1>5. u[0] = w[1] /\ u[1] = w[2] /\ u[2] = w[3] /\ u[3] = w[4]
  <2>1. 0 + 1 = 1 /\ 1 + 1 = 2 /\ 2 + 1 = 3 /\ 3 + 1 = 4 /\ WordIndex = {0, 1, 2, 3}
    BY DEF WordIndex
  <2>. QED
    BY <1>1, <2>1
<1>6. Value320(w) = w[0] + Base * Value(u)
  BY <1>5 DEF Value, Value320
<1>7. PICK b \in Nat \ {0}, n \in Nat : b = Base /\ n = Value(u)
  BY <1>4, FromFacts
<1>8. w[0] \in 0 .. b - 1
  BY <1>2, <1>7
<1>9. w[0] + b * n = b * n + w[0]
  BY <1>7, <1>8
<1>10. (b * n + w[0]) \div b = n
  BY <1>8, Quotient
<1>. QED
  BY <1>4, <1>6, <1>7, <1>9, <1>10 DEF u

\* Scaling by a fraction, in words and in integers.
LEMMA ScaleWords ==
  ASSUME NEW c \in Configs, NEW f \in 0 .. Base - 1
  PROVE  /\ ScaleByFraction(c, f) \in Word256
         /\ Value(ScaleByFraction(c, f)) = (RangeRef(c) * f) \div Base
         /\ (RangeRef(c) * f) \div Base \in Nat
         /\ (RangeRef(c) * f) \div Base <= RangeRef(c)
<1>. DEFINE bits == c.space_bits
            range == ScaledRange(c.space_bits, c.fixed)
            R == RangeRef(c)
            q == (R * f) \div Base
<1>1. /\ bits \in Nat /\ bits <= 4 * WordBits /\ R \in Nat /\ R < PowerOf2(bits)
      /\ range \in Word256 /\ Value(range) = R
      /\ (bits <= WordBits => R \in 0 .. Base - 1)
  BY ConfigFacts, RangeWords
<1>2. Base \in Nat \ {0} /\ f \in Nat /\ f <= Base
  BY BaseFacts
<1>3. q \in Nat /\ q <= R
  BY <1>1, <1>2, Share
<1>4. ScaleByFraction(c, f)
        = IF bits <= WordBits THEN FromWord((range[0] * f) \div Base)
          ELSE mask_bits(shr_320_64(mul_u64_wide(range, f)), bits)
  BY DEF ScaleByFraction, Fits
<1>. HIDE DEF bits, range, R
<1>5. CASE bits <= WordBits
  <2>1. Value(range) < Base
    BY <1>1, <1>2, <1>5
  <2>2. range[0] = R
    BY <1>1, <2>1, LowestWords
  <2>3. q \in 0 .. Base - 1
    BY <1>1, <1>2, <1>3, <1>5
  <2>4. ScaleByFraction(c, f) = FromWord(q)
    BY <1>4, <1>5, <2>2
  <2>. HIDE DEF q
  <2>. QED
    BY <1>3, <2>3, <2>4, FromWordFacts DEF q, R
<1>6. CASE ~(bits <= WordBits)
  <2>. DEFINE w == mul_u64_wide(range, f)
              u == shr_320_64(w)
  <2>1. w \in Word320 /\ Value320(w) = R * f
    BY <1>1, MulWords
  <2>. HIDE DEF w
  <2>2. u \in Word256 /\ Value(u) = q
    BY <2>1, DropLowest
  <2>. HIDE DEF u, q
  <2>3. PowerOf2(bits) \in Nat
    BY <1>1, Powers
  <2>4. Value(u) < PowerOf2(bits)
    BY <1>1, <1>3, <2>2, <2>3
  <2>5. mask_bits(u, bits) = u
    BY <1>1, <2>2, <2>4, MaskFacts
  <2>6. ScaleByFraction(c, f) = u
    BY <1>4, <1>6, <2>5 DEF u, w
  <2>. QED
    BY <1>3, <2>2, <2>6 DEF q, R
<1>. QED
  BY <1>5, <1>6

\* The hash of n / d is what integers without a width give, and has its bits.
LEMMA HashWords ==
  ASSUME NEW c \in Configs, NEW n \in Int, NEW d \in Nat \ {0}
  PROVE  /\ map_double(c, n, d) \in Word256
         /\ Value(map_double(c, n, d)) = HashRef(c, n, d)
         /\ HashRef(c, n, d) \in Nat /\ HashRef(c, n, d) <= RangeRef(c)
         /\ HashRef(c, n, d) < PowerOf2(c.space_bits)
<1>1. RangeRef(c) \in Nat /\ RangeRef(c) < PowerOf2(c.space_bits) /\ c.max_index \in Nat
      /\ c.space_bits \in Nat /\ PowerOf2(c.space_bits) \in Nat
  BY ConfigFacts, Powers
<1>2. PICK e \in Nat : e = c.max_index * d
  BY <1>1
<1>3. CASE c.max_index = 0 \/ n <= 0
  <2>1. map_double(c, n, d) = Zero256 /\ HashRef(c, n, d) = 0
    BY <1>3 DEF map_double, HashRef
  <2>2. Zero256 = FromWord(0)
    BY DEF FromWord, Zero256, WordIndex
  <2>3. 0 \in 0 .. Base - 1
    BY BaseFacts
  <2>. QED
    BY <1>1, <2>1, <2>2, <2>3, FromWordFacts
<1>4. CASE ~(c.max_index = 0 \/ n <= 0) /\ n >= e
  <2>1. map_double(c, n, d) = ScaledRange(c.space_bits, c.fixed) /\ HashRef(c, n, d) = RangeRef(c)
    BY <1>2, <1>4 DEF map_double, HashRef
  <2>. QED
    BY <1>1, <2>1, ConfigFacts, RangeWords
<1>5. CASE ~(c.max_index = 0 \/ n <= 0) /\ ~(n >= e)
  <2>1. n \in Nat \ {0} /\ n < e
    BY <1>5
  <2>2. FractionToFixed(n, e) \in 0 .. Base - 1
    BY <2>1, FixedFractions
  <2>3. /\ map_double(c, n, d) = ScaleByFraction(c, FractionToFixed(n, e))
        /\ HashRef(c, n, d) = (RangeRef(c) * FractionToFixed(n, e)) \div Base
    BY <1>2, <1>5 DEF map_double, HashRef
  <2>. QED
    BY <1>1, <2>2, <2>3, ScaleWords
<1>. QED
  BY <1>3, <1>4, <1>5

\* The hash grows with the prediction.
LEMMA HashGrows ==
  ASSUME NEW c \in Configs, NEW d \in Nat \ {0}, NEW n \in Int, NEW k \in Int, n <= k
  PROVE  HashRef(c, n, d) <= HashRef(c, k, d)
<1>1. c.max_index \in Nat /\ RangeRef(c) \in Nat
  BY ConfigFacts
<1>2. PICK e \in Nat : e = c.max_index * d
  BY <1>1
<1>3. /\ HashRef(c, n, d) \in Nat /\ HashRef(c, k, d) \in Nat
      /\ HashRef(c, n, d) <= RangeRef(c) /\ HashRef(c, k, d) <= RangeRef(c)
  BY HashWords
<1>4. CASE c.max_index = 0 \/ n <= 0
  <2>1. HashRef(c, n, d) = 0
    BY <1>4 DEF HashRef
  <2>. QED
    BY <1>3, <2>1
<1>5. CASE ~(c.max_index = 0 \/ n <= 0) /\ k >= e
  <2>1. ~(c.max_index = 0 \/ k <= 0)
    BY <1>5
  <2>2. HashRef(c, k, d) = RangeRef(c)
    BY <1>2, <1>5, <2>1 DEF HashRef
  <2>. QED
    BY <1>3, <2>2
<1>6. CASE ~(c.max_index = 0 \/ n <= 0) /\ ~(k >= e)
  <2>1. n \in Nat \ {0} /\ n < e /\ k \in Nat \ {0} /\ k < e /\ ~(n >= e)
        /\ ~(c.max_index = 0 \/ k <= 0)
    BY <1>6
  <2>. DEFINE F(x) == FractionToFixed(x, e)
  <2>2. F(n) \in Nat /\ F(k) \in Nat /\ F(n) <= F(k)
    BY <2>1, FixedFractions
  <2>3. /\ HashRef(c, n, d) = (RangeRef(c) * F(n)) \div Base
        /\ HashRef(c, k, d) = (RangeRef(c) * F(k)) \div Base
    BY <1>2, <1>6, <2>1 DEF HashRef
  <2>. HIDE DEF F
  <2>4. (RangeRef(c) * F(n)) \div Base <= (RangeRef(c) * F(k)) \div Base
    <3>1. PICK b \in Nat \ {0}, r \in Nat, x \in Nat, y \in Nat :
            b = Base /\ r = RangeRef(c) /\ x = F(n) /\ y = F(k)
      BY <1>1, <2>2, BaseFacts
    <3>2. x <= y
      BY <2>2, <3>1
    <3>3. (r * x) \div b <= (r * y) \div b
      BY <3>2, Share
    <3>. QED
      BY <3>1, <3>3
  <2>. QED
    BY <2>3, <2>4
<1>. QED
  BY <1>4, <1>5, <1>6

\* Products that fit into four words.
LEMMA MulInRange ==
  ASSUME NEW v \in Word256, NEW m \in 0 .. Base - 1, Value(v) * m < PowerOf2(4 * WordBits)
  PROVE  mul_u64(v, m) \in Word256 /\ Value(mul_u64(v, m)) = Value(v) * m
<1>. DEFINE w == mul_u64_wide(v, m)
            u == mul_u64(v, m)
            b == Base
            e == Value(v) * m
            t3 == w[3] + b * w[4]
            t2 == w[2] + b * t3
            t1 == w[1] + b * t2
            t0 == w[0] + b * t1
<1>1. w \in Word320 /\ Value320(w) = e
  BY MulWords
<1>2. b \in Nat \ {0}
  BY BaseFacts
<1>3. \A i \in 0 .. 4 : w[i] \in 0 .. b - 1
  BY <1>1 DEF Word320
<1>4. u = [i \in WordIndex |-> w[i]]
  BY DEF mul_u64
<1>5. Value320(w) = t0
  BY DEF Value320
<1>6. PowerOf2(4 * WordBits) = b * (b * (b * b))
  <2>1. PowerOf2(4 * WordBits + 0) = Base * (Base * (Base * (Base * PowerOf2(0))))
        /\ PowerOf2(0) = 1
    BY WordPowers, Powers
  <2>2. 4 * WordBits + 0 = 4 * WordBits /\ Base * 1 = Base
    BY BaseFacts
  <2>. QED
    BY <2>1, <2>2
<1>7. e < b * (b * (b * b))
  BY <1>6
<1>. HIDE DEF w, u, b, e
<1>8. /\ w[0] \in Nat /\ w[1] \in Nat /\ w[2] \in Nat /\ w[3] \in Nat /\ w[4] \in Nat
  BY <1>2, <1>3
<1>9. t3 \in Nat /\ Before(w[3], b, w[4], t3)
  BY <1>2, <1>8 DEF Before
<1>10. Before(w[2], b, t3, t2) /\ Before(w[1], b, t2, t1) /\ Before(w[0], b, t1, t0)
  BY DEF Before
<1>. HIDE DEF t3
<1>11. t2 \in Nat
  BY <1>2, <1>8, <1>9
<1>. HIDE DEF t2
<1>12. t1 \in Nat
  BY <1>2, <1>8, <1>11
<1>. HIDE DEF t1
<1>. HIDE DEF t0
<1>13. b * b \in Nat /\ b * (b * b) \in Nat /\ b \in Nat
  <2>1. PICK f \in Nat : f = b * b
    BY <1>2
  <2>. QED
    BY <1>2, <2>1
<1>14. t0 < b * (b * (b * b))
  BY <1>1, <1>5, <1>7
<1>15. t1 < b * (b * b)
  BY <1>2, <1>8, <1>10, <1>12, <1>13, <1>14, TopBound
<1>16. t2 < b * b
  BY <1>2, <1>8, <1>10, <1>11, <1>12, <1>13, <1>15, TopBound
<1>17. t3 < b
  BY <1>2, <1>8, <1>9, <1>10, <1>11, <1>13, <1>16, TopBound
<1>18. t3 = w[3]
  BY <1>2, <1>8, <1>9, <1>17, OneWord
<1>19. u \in Word256
  BY <1>3, <1>4 DEF Word256, WordIndex, b
<1>20. u[0] = w[0] /\ u[1] = w[1] /\ u[2] = w[2] /\ u[3] = w[3]
  BY <1>4 DEF WordIndex
<1>21. Value(u) = t0
  BY <1>18, <1>20 DEF Value, t0, t1, t2, b
<1>. QED
  BY <1>1, <1>5, <1>19, <1>21 DEF u, e

\* The index that map multiplies with.
Clipped(c, i) == IF i < c.max_index THEN i ELSE c.max_index

\* What map computes, in integers: the scale, rounded down, times the index; or, when the
\* scale is below 1, the share of the range.
MapRef(c, j) ==
  IF c.max_index = 0 THEN 0
  ELSE IF Fits(c.space_bits) /\ RangeRef(c) \div c.max_index = 0
       THEN (RangeRef(c) * j) \div c.max_index
  ELSE (RangeRef(c) \div c.max_index) * j

\* It stays in the range, and grows with the index.
LEMMA MapRefGrows ==
  ASSUME NEW c \in Configs, NEW j \in 0 .. c.max_index
  PROVE  /\ MapRef(c, j) \in Nat /\ MapRef(c, j) <= RangeRef(c)
         /\ \A k \in 0 .. c.max_index : j <= k => MapRef(c, j) <= MapRef(c, k)
<1>1. PICK m \in Nat, R \in Nat : m = c.max_index /\ R = RangeRef(c)
  BY ConfigFacts
<1>2. j \in Nat /\ j <= m
  BY <1>1
<1>3. CASE m = 0
  <2>1. \A k : MapRef(c, k) = 0
    BY <1>1, <1>3 DEF MapRef
  <2>. QED
    BY <1>1, <2>1
<1>4. CASE m # 0 /\ Fits(c.space_bits) /\ R \div m = 0
  <2>1. \A k : MapRef(c, k) = (R * k) \div m
    BY <1>1, <1>4 DEF MapRef
  <2>2. (R * j) \div m \in Nat /\ (R * j) \div m <= R
    BY <1>2, <1>4, Share
  <2>3. ASSUME NEW k \in 0 .. m, j <= k PROVE (R * j) \div m <= (R * k) \div m
    BY <1>2, <1>4, <2>3, Share
  <2>. QED
    BY <1>1, <2>1, <2>2, <2>3
<1>5. CASE m # 0 /\ ~(Fits(c.space_bits) /\ R \div m = 0)
  <2>1. \A k : MapRef(c, k) = (R \div m) * k
    BY <1>1, <1>5 DEF MapRef
  <2>2. PICK q \in Nat, r \in 0 .. m - 1 : R = m * q + r /\ R \div m = q
    BY <1>5, Division
  <2>3. q * j \in Nat /\ q * j <= q * m /\ q * m = m * q
    BY <1>2
  <2>4. q * j <= R
    <3>1. PICK x \in Nat, y \in Nat : x = q * j /\ y = m * q
      BY <2>3
    <3>. QED
      BY <2>2, <2>3, <3>1
  <2>5. ASSUME NEW k \in 0 .. m, j <= k PROVE q * j <= q * k
    BY <1>2, <2>5
  <2>. QED
    BY <1>1, <2>1, <2>2, <2>3, <2>4, <2>5
<1>. QED
  BY <1>3, <1>4, <1>5

\* The words of map give it.
LEMMA MapWords ==
  ASSUME NEW c \in Configs, NEW i \in Nat
  PROVE  Value(map(c, i)) = MapRef(c, Clipped(c, i)) /\ Clipped(c, i) \in 0 .. c.max_index
<1>. DEFINE m == c.max_index
            R == RangeRef(c)
            j == Clipped(c, i)
            bits == c.space_bits
            s == c.scale_words
<1>1. /\ m \in 0 .. Base - 1 /\ m \in Nat /\ R \in Nat /\ R < PowerOf2(bits)
      /\ bits \in Nat /\ bits <= 4 * WordBits /\ Base \in Nat \ {0}
      /\ c.fixed \in 1 .. FixedOne /\ R = RangeOf(bits, c.fixed)
      /\ s = IF m = 0 THEN Zero256 ELSE div_u64(ScaledRangeWide(bits, c.fixed), m)
  BY ConfigFacts, BaseFacts
<1>2. j \in 0 .. m /\ j \in 0 .. Base - 1 /\ j \in Nat
  BY <1>1 DEF Clipped
<1>3. map(c, i) =
        IF Fits(bits)
        THEN FromWord(IF s[0] # 0 THEN (j * s[0]) % Base
                      ELSE IF m = 0 THEN 0
                      ELSE (j * ScaledRangeWord(bits, c.fixed)) \div m)
        ELSE mask_bits(mul_u64(s, j), bits)
  BY DEF map, Clipped
<1>4. s \in Word256 /\ Value(s) = IF m = 0 THEN 0 ELSE R \div m
  <2>1. CASE m = 0
    <3>1. s = FromWord(0) /\ 0 \in 0 .. Base - 1
      BY <1>1, <2>1 DEF FromWord, Zero256, WordIndex
    <3>. QED
      BY <2>1, <3>1, FromWordFacts
  <2>2. CASE m # 0
    <3>1. /\ ScaledRangeWide(bits, c.fixed) \in Word256
          /\ Value(ScaledRangeWide(bits, c.fixed)) = R
      BY <1>1, WideRange
    <3>2. m \in 1 .. Base - 1
      BY <1>1, <2>2
    <3>. QED
      BY <1>1, <2>2, <3>1, <3>2, DivWords
  <2>. QED
    BY <2>1, <2>2
<1>5. ScaledRangeWord(bits, c.fixed) = R
  BY <1>1 DEF ScaledRangeWord, RangeOf
<1>6. /\ MapRef(c, j) = IF m = 0 THEN 0 ELSE IF Fits(bits) /\ R \div m = 0 THEN (R * j) \div m
                        ELSE (R \div m) * j
      /\ MapRef(c, j) \in Nat /\ MapRef(c, j) <= R
  BY <1>2, MapRefGrows DEF MapRef
<1>7. MapRef(c, j) < PowerOf2(bits) /\ PowerOf2(bits) \in Nat
  BY <1>1, <1>6, Powers
<1>8. m # 0 => R \div m \in Nat
  BY <1>1, Division
<1>. HIDE DEF m, R, j, bits, s
<1>9. ASSUME NEW x \in Nat PROVE x * j = j * x
  BY <1>2, <1>9
<1>10. CASE Fits(bits)
  <2>1. MapRef(c, j) \in 0 .. Base - 1 /\ R \in 0 .. Base - 1
    <3>1. PowerOf2(bits) <= PowerOf2(WordBits) /\ Base = PowerOf2(WordBits)
      BY <1>1, <1>10, BaseFacts, PowersGrow DEF Fits, Base
    <3>. QED
      BY <1>1, <1>6, <1>7, <3>1
  <2>2. s[0] = Value(s)
    <3>1. Value(s) \in Nat /\ Value(s) <= R
      <4>1. CASE m = 0
        BY <1>1, <1>4, <4>1
      <4>2. CASE m # 0
        <5>1. PICK q \in Nat, r \in 0 .. m - 1 : R = m * q + r /\ R \div m = q
          BY <1>1, <4>2, Division
        <5>2. m * q >= q
          BY <1>1, <4>2
        <5>3. PICK x \in Nat : x = m * q
          BY <1>1
        <5>. QED
          BY <1>4, <4>2, <5>1, <5>2, <5>3
      <4>. QED
        BY <4>1, <4>2
    <3>. QED
      BY <1>1, <1>4, <2>1, <3>1, LowestWords
  <2>3. CASE m = 0
    <3>1. s[0] = 0
      BY <1>4, <2>2, <2>3
    <3>2. map(c, i) = FromWord(MapRef(c, j))
      BY <1>3, <1>6, <1>10, <2>3, <3>1
    <3>. QED
      BY <1>2, <2>1, <3>2, FromWordFacts DEF j, m
  <2>4. CASE m # 0 /\ s[0] # 0
    <3>1. j * s[0] = MapRef(c, j)
      BY <1>4, <1>6, <1>8, <1>9, <2>2, <2>4
    <3>2. MapRef(c, j) % Base = MapRef(c, j)
      <4>1. Base \in Nat \ {0} /\ MapRef(c, j) \in Nat /\ MapRef(c, j) < Base
        BY <1>1, <1>6, <2>1
      <4>. HIDE DEF j
      <4>2. PICK b \in Nat \ {0}, x \in Nat : b = Base /\ x = MapRef(c, j) /\ x < b
        BY <4>1
      <4>3. x \in 0 .. b - 1 /\ b * 0 + x = x
        BY <4>2
      <4>4. (b * 0 + x) % b = x
        BY <4>3, Quotient
      <4>. QED
        BY <4>2, <4>3, <4>4
    <3>3. map(c, i) = FromWord(MapRef(c, j))
      BY <1>3, <1>10, <2>4, <3>1, <3>2
    <3>. QED
      BY <1>2, <2>1, <3>3, FromWordFacts DEF j, m
  <2>5. CASE m # 0 /\ s[0] = 0
    <3>1. R \div m = 0
      BY <1>4, <2>2, <2>5
    <3>2. map(c, i) = FromWord(MapRef(c, j))
      BY <1>1, <1>3, <1>5, <1>6, <1>9, <1>10, <2>5, <3>1
    <3>. QED
      BY <1>2, <2>1, <3>2, FromWordFacts DEF j, m
  <2>. QED
    BY <2>3, <2>4, <2>5
<1>11. CASE ~Fits(bits)
  <2>. DEFINE u == mul_u64(s, j)
  <2>1. Value(s) * j = MapRef(c, j)
    <3>1. 0 * j = 0
      BY <1>2
    <3>. QED
      BY <1>4, <1>6, <1>11, <3>1
  <2>2. PowerOf2(bits) <= PowerOf2(4 * WordBits) /\ PowerOf2(4 * WordBits) \in Nat
    <3>1. 4 * WordBits \in Nat
      BY BaseFacts
    <3>. QED
      BY <1>1, <3>1, PowersGrow, Powers
  <2>3. Value(s) * j < PowerOf2(4 * WordBits)
    BY <1>6, <1>7, <2>1, <2>2
  <2>4. u \in Word256 /\ Value(u) = MapRef(c, j)
    BY <1>2, <1>4, <2>1, <2>3, MulInRange
  <2>. HIDE DEF u
  <2>5. mask_bits(u, bits) = u
    BY <1>1, <1>7, <2>4, MaskFacts
  <2>6. map(c, i) = u
    BY <1>3, <1>11, <2>5 DEF u
  <2>. QED
    BY <1>2, <2>4, <2>6 DEF j, m
<1>. QED
  BY <1>10, <1>11

\* map stays in the range and grows with the index.
LEMMA MapGrows ==
  ASSUME NEW c \in Configs, NEW i \in 0 .. c.max_index
  PROVE  Value(map(c, i)) <= RangeRef(c) /\ Value(map(c, i)) <= Value(map(c, i + 1))
<1>1. c.max_index \in Nat
  BY ConfigFacts
<1>2. i \in Nat /\ i + 1 \in Nat
  BY <1>1
<1>3. /\ Value(map(c, i)) = MapRef(c, Clipped(c, i)) /\ Clipped(c, i) \in 0 .. c.max_index
      /\ Value(map(c, i + 1)) = MapRef(c, Clipped(c, i + 1))
      /\ Clipped(c, i + 1) \in 0 .. c.max_index
  BY <1>2, MapWords
<1>4. Clipped(c, i) <= Clipped(c, i + 1)
  BY <1>1, <1>2 DEF Clipped
<1>. QED
  BY <1>3, <1>4, MapRefGrows

-----------------------------------------------------------------------------
(* The hash keeps the order.                                               *)

\* The calibration in use has an extent; a load past lead.json has a mapping.
HasherOf(l) ==
  /\ pc[l] \notin {"idle", "failed"} => hasher[l].mapping \in Training
  /\ hasher[l].calibration # None => Calibrates(hasher[l].calibration)
IHasher == \A l \in Loader : HasherOf(l)

\* A Hasher starts without a mapping and a calibration.
LEMMA InitIHasher == Init => IHasher
  BY DEF Init, IHasher, HasherOf, NewHasher

\* The mapping comes with the stage after lead.json, the calibration from Finish, which
\* asks for its extent.
LEMMA NextIHasher == IInv /\ IHasher /\ [Next]_vars => IHasher'
<1>. SUFFICES ASSUME IInv, IHasher, [Next]_vars, NEW k \in Loader PROVE HasherOf(k)'
  BY DEF IHasher
<1>1. /\ HasherOf(k) /\ IType /\ pc \in [Loader -> Stages]
      /\ hasher \in [Loader -> Hashers]
  BY DEF IInv, IType, IHasher
<1>2. trainings' = trainings
  <2>1. CASE Train \/ Write \/ KillTraining
    BY <2>1 DEF Train, Write, KillTraining
  <2>2. ASSUME NEW l \in Loader, ReadManifest(l) \/ ReadModel(l) \/ FindLibrary(l)
        PROVE  trainings' = trainings
    BY <2>2 DEF ReadManifest, ReadModel, FindLibrary, trainer
  <2>3. ASSUME NEW l \in Loader, Compile(l) \/ Link(l) \/ Linked(l)
        PROVE  trainings' = trainings
    BY <2>3 DEF Compile, Link, Linked, trainer
  <2>4. ASSUME NEW l \in Loader, Open(l) \/ LoadData(l) \/ Finish(l) \/ KillLoader(l)
        PROVE  trainings' = trainings
    BY <2>4 DEF Open, LoadData, Finish, KillLoader, trainer
  <2>5. CASE UNCHANGED vars
    BY <2>5 DEF vars, trainer
  <2>. QED
    BY <2>1, <2>2, <2>3, <2>4, <2>5 DEF Next, Load
<1>3. Training' = Training /\ \A t : Calibrates(t)' = Calibrates(t)
  BY <1>2 DEF Training, Calibrates
<1>4. SUFFICES /\ pc'[k] \notin {"idle", "failed"} => hasher'[k].mapping \in Training
               /\ hasher'[k].calibration # None => Calibrates(hasher'[k].calibration)
  BY <1>3 DEF HasherOf
<1>5. CASE UNCHANGED <<pc, hasher>>
  BY <1>1, <1>5 DEF HasherOf
<1>6. ASSUME NEW l \in Loader, Load(l) \/ KillLoader(l)
      PROVE  /\ pc'[k] \notin {"idle", "failed"} => hasher'[k].mapping \in Training
             /\ hasher'[k].calibration # None => Calibrates(hasher'[k].calibration)
  <2>1. CASE ReadManifest(l)
    <3>. DEFINE lead == file["lead.json"]
    <3>1. lead.status = "whole" => lead.by \in Training
      BY DEF IInv, IVouched, Vouched, File
    <3>2. /\ hasher' = [hasher EXCEPT ![l].mapping =
                          IF lead.status = "whole" /\ Loadable(lead.by) THEN lead.by ELSE @]
          /\ pc' = [pc EXCEPT ![l] = IF lead.status = "whole" /\ Loadable(lead.by)
                                     THEN "model" ELSE "failed"]
      BY <2>1 DEF ReadManifest, GoTo
    <3>. HIDE DEF lead
    <3>. QED
      BY <1>1, <3>1, <3>2 DEF HasherOf, Hashers
  <2>2. CASE ReadModel(l)
    <3>1. hasher' = [hasher EXCEPT ![l].model = NoModel] /\ pc[l] = "model"
      BY <2>2 DEF ReadModel
    <3>2. \E s : pc' = [pc EXCEPT ![l] = s]
      BY <2>2 DEF ReadModel, GoTo
    <3>. QED
      BY <1>1, <3>1, <3>2 DEF HasherOf, Hashers
  <2>3. CASE FindLibrary(l) \/ Compile(l) \/ Linked(l) \/ Open(l)
    <3>1. hasher' = hasher /\ pc[l] \notin {"idle", "failed"}
      BY <2>3 DEF FindLibrary, Compile, Linked, Open
    <3>2. \E s : pc' = [pc EXCEPT ![l] = s]
      <4>1. CASE FindLibrary(l)
        BY <4>1 DEF FindLibrary, GoTo
      <4>2. CASE Compile(l)
        <5>1. file["sources"].status \in {"torn", "plain", "raw"}
          BY <4>2 DEF Compile, IInv, ISources, Idle
        <5>2. CASE file["sources"].status = "torn"
          BY <4>2, <5>2 DEF Compile, GoTo
        <5>3. CASE file["sources"].status \in {"plain", "raw"}
          BY <4>2, <5>3 DEF Compile, GoTo
        <5>. QED
          BY <5>1, <5>2, <5>3
      <4>3. CASE Linked(l)
        BY <4>3 DEF Linked, GoTo
      <4>4. CASE Open(l)
        BY <4>4 DEF Open, GoTo
      <4>. QED
        BY <2>3, <4>1, <4>2, <4>3, <4>4
    <3>. QED
      BY <1>1, <3>1, <3>2 DEF HasherOf
  <2>4. CASE Link(l)
    <3>1. /\ hasher' = hasher /\ pc[l] = "link"
          /\ pc' = [j \in Loader |-> IF j = l THEN "linking"
                                     ELSE IF pc[j] = "linking" THEN "unlinked" ELSE pc[j]]
      BY <2>4 DEF Link
    <3>2. pc'[k] \notin {"idle", "failed"} => pc[k] \notin {"idle", "failed"}
      BY <3>1
    <3>. QED
      BY <1>1, <3>1, <3>2 DEF HasherOf
  <2>5. CASE LoadData(l)
    <3>1. /\ hasher' = hasher \/ \E x : hasher' = [hasher EXCEPT ![l].model = x]
          /\ pc[l] = "data"
      BY <2>5 DEF LoadData
    <3>2. \E s : pc' = [pc EXCEPT ![l] = s]
      BY <2>5 DEF LoadData, GoTo
    <3>. QED
      BY <1>1, <3>1, <3>2 DEF HasherOf, Hashers
  <2>6. CASE Finish(l)
    <3>1. pc[l] = "check" /\ \E s : pc' = [pc EXCEPT ![l] = s]
      BY <2>6 DEF Finish, GoTo
    <3>2. pc'[k] \notin {"idle", "failed"} => hasher[k].mapping \in Training
      BY <1>1, <3>1 DEF HasherOf
    <3>3. hasher'[k].mapping = hasher[k].mapping
          /\ \/ hasher'[k].calibration = hasher[k].calibration
             \/ hasher'[k].calibration = None
             \/ Calibrates(hasher'[k].calibration)
      <4>1. CASE KeyType(hasher[l].model.code) # KeyType(manifest[l])
        <5>1. hasher' = [hasher EXCEPT ![l].key_type = KeyType(hasher[l].model.code)]
          BY <2>6, <4>1 DEF Finish
        <5>. QED
          BY <1>1, <5>1 DEF Hashers
      <4>2. CASE KeyType(hasher[l].model.code) = KeyType(manifest[l])
        <5>. DEFINE c == IF Calibrates(manifest[l]) /\ hasher[l].model.raw
                            /\ MaxIndex(manifest[l]) > 0 THEN manifest[l] ELSE None
        <5>1. hasher' = [hasher EXCEPT ![l] =
                [@ EXCEPT !.key_type = KeyType(hasher[l].model.code),
                          !.raw = hasher[l].model.raw, !.calibration = c, !.loaded = TRUE]]
          BY <2>6, <4>2 DEF Finish
        <5>2. c = None \/ Calibrates(c)
          OBVIOUS
        <5>. HIDE DEF c
        <5>. QED
          BY <1>1, <5>1, <5>2 DEF Hashers
      <4>. QED
        BY <4>1, <4>2
    <3>. QED
      BY <1>1, <3>2, <3>3 DEF HasherOf
  <2>7. CASE KillLoader(l)
    <3>1. hasher' = [hasher EXCEPT ![l] = NewHasher] /\ pc' = [pc EXCEPT ![l] = "idle"]
      BY <2>7 DEF KillLoader, GoTo
    <3>. QED
      BY <1>1, <3>1 DEF HasherOf, NewHasher
  <2>. QED
    BY <1>6, <2>1, <2>2, <2>3, <2>4, <2>5, <2>6, <2>7 DEF Load
<1>7. CASE Train \/ Write \/ KillTraining
  BY <1>5, <1>7 DEF Train, Write, KillTraining, load
<1>8. CASE UNCHANGED vars
  BY <1>5, <1>8 DEF vars, load
<1>. QED
  BY <1>6, <1>7, <1>8 DEF Next

\* So it is for every Hasher, always.
LEMMA HasherInvariance == Spec => []IHasher
  BY InitIHasher, NextIHasher, Invariance, PTL DEF Spec

\* A training gives a configuration that the words are right for.
LEMMA ConfigOf ==
  ASSUME IType, NEW t \in Training
  PROVE  Config(t) \in Configs /\ Config(t).space_bits = trainings[t].space_bits
         /\ MaxIndex(t) \in Nat
<1>1. trainings \in Seq(TrainOptions)
  BY LeadAssumption DEF IType
<1>2. trainings[t] \in TrainOptions
  BY <1>1, ElementOfSeq DEF Training
<1>3. /\ trainings[t].rows \in 1 .. Base /\ trainings[t].space_bits \in 1 .. 4 * WordBits
      /\ trainings[t].scale \in Nat \X (Nat \ {0})
  BY <1>2 DEF TrainOptions
<1>4. MaxIndex(t) \in 0 .. Base - 1
  BY <1>3, BaseFacts DEF MaxIndex
<1>5. scale_factor_fixed(trainings[t].scale[1], trainings[t].scale[2]) \in 1 .. FixedOne
  BY <1>3, FixedFacts
<1>6. Config(t) \in Configs
  BY <1>3, <1>4, <1>5 DEF Config, Configs
<1>7. Config(t).space_bits = trainings[t].space_bits
  BY DEF Config, Mapping
<1>. QED
  BY <1>4, <1>6, <1>7

\* A calibrated prediction is a fraction, and grows with the prediction.
LEMMA CalibratedFacts ==
  ASSUME IType, NEW l \in Loader, HasherOf(l), hasher[l].mapping \in Training,
         NEW p \in Int
  PROVE  /\ Calibrated(l, p)[1] \in Int /\ Calibrated(l, p)[2] \in Nat \ {0}
         /\ Calibrated(l, p + 1)[2] = Calibrated(l, p)[2]
         /\ Calibrated(l, p + 1)[1] \in Int
         /\ Calibrated(l, p)[1] <= Calibrated(l, p + 1)[1]
<1>. DEFINE c == hasher[l].calibration
            m == MaxIndex(hasher[l].mapping)
<1>1. m \in Nat
  BY ConfigOf
<1>2. CASE c = None
  <2>1. \A x : Calibrated(l, x) = <<x, Grain>>
    BY <1>2 DEF Calibrated
  <2>. QED
    BY <2>1, MappingAssumption
<1>3. CASE c # None
  <2>1. c \in Training /\ Calibrates(c)
    BY <1>3 DEF HasherOf, IType, Hashers
  <2>2. trainings \in Seq(TrainOptions)
    BY LeadAssumption DEF IType
  <2>3. trainings[c] \in TrainOptions
    BY <2>1, <2>2, ElementOfSeq DEF Training
  <2>4. PICK lo \in Int, hi \in Int : lo = trainings[c].low /\ hi = trainings[c].high /\ lo < hi
    BY <2>1, <2>3 DEF TrainOptions, Calibrates
  <2>5. \A x : Calibrated(l, x) = <<(x - lo) * m, hi - lo>>
    BY <1>3, <2>4 DEF Calibrated, apply_calibration
  <2>. HIDE DEF c, m
  <2>6. hi - lo \in Nat \ {0} /\ (p - lo) * m \in Int /\ ((p + 1) - lo) * m \in Int
    BY <1>1, <2>4
  <2>7. ((p + 1) - lo) * m = (p - lo) * m + m
    <3>1. PICK x \in Int : x = p - lo
      OBVIOUS
    <3>2. (p + 1) - lo = x + 1 /\ (x + 1) * m = x * m + m
      BY <1>1, <3>1
    <3>. QED
      BY <3>1, <3>2
  <2>8. (p - lo) * m <= ((p + 1) - lo) * m
    BY <1>1, <2>6, <2>7
  <2>. QED
    BY <2>5, <2>6, <2>8
<1>. QED
  BY <1>2, <1>3

\* In whatever words: the hash is that of integers without a width, stays in
\* the scaled range and grows with the prediction, its leading words are its
\* most significant bits, and the hash of an index grows with the index.
\* (MappingConfig::compute, IndexMapper::map_double and map, UInt256)
THEOREM HashesKeepOrder == Spec => []HashKeepsOrder
<1>1. IInv /\ IHasher => HashKeepsOrder
  <2>. SUFFICES ASSUME IInv, IHasher, NEW l \in Loader, pc[l] = "done"
                PROVE  LET c == Config(hasher[l].mapping)
                           value(p) == Value(hash(l, p))
                       IN
                       /\ \A p \in Predictions :
                            /\ value(p) = HashRef(c, Calibrated(l, p)[1], Calibrated(l, p)[2])
                            /\ value(p) <= RangeRef(c)
                            /\ hash64(l, p)
                                  = value(p) \div PowerOf2(Excess(c.space_bits, 1))
                            /\ hash128(l, p)[1] + Base * hash128(l, p)[2]
                                  = value(p) \div PowerOf2(Excess(c.space_bits, 2))
                            /\ p + 1 \in Predictions => value(p) <= value(p + 1)
                       /\ \A i \in 0 .. c.max_index :
                            /\ Value(map(c, i)) <= RangeRef(c)
                            /\ Value(map(c, i)) <= Value(map(c, i + 1))
    BY DEF HashKeepsOrder
  <2>. DEFINE t == hasher[l].mapping
              c == Config(t)
              n(p) == Calibrated(l, p)[1]
              d(p) == Calibrated(l, p)[2]
  <2>1. IType /\ HasherOf(l) /\ t \in Training
    BY DEF IInv, IHasher, HasherOf
  <2>2. c \in Configs /\ c.space_bits = trainings[t].space_bits
    BY <2>1, ConfigOf
  <2>3. \A p : hash(l, p) = map_double(c, n(p), d(p))
    BY DEF hash
  <2>4. \A p : /\ hash64(l, p) = msb_u64(hash(l, p), c.space_bits)
               /\ hash128(l, p) = msb_u128(hash(l, p), c.space_bits)
    BY <2>2 DEF hash64, hash128
  <2>5. \A p \in Int : /\ n(p) \in Int /\ d(p) \in Nat \ {0} /\ d(p + 1) = d(p)
                       /\ n(p + 1) \in Int /\ n(p) <= n(p + 1)
    BY <2>1, CalibratedFacts
  <2>6. \A i \in 0 .. c.max_index :
          Value(map(c, i)) <= RangeRef(c) /\ Value(map(c, i)) <= Value(map(c, i + 1))
    BY <2>2, MapGrows
  <2>7. c.space_bits \in Nat /\ c.space_bits <= 4 * WordBits
    BY <2>2, ConfigFacts
  <2>8. Predictions \subseteq Int
    BY LeadAssumption
  <2>. HIDE DEF t, c, n, d
  <2>9. ASSUME NEW p \in Int
        PROVE  /\ hash(l, p) \in Word256 /\ Value(hash(l, p)) = HashRef(c, n(p), d(p))
               /\ Value(hash(l, p)) <= RangeRef(c)
               /\ Value(hash(l, p)) < PowerOf2(c.space_bits)
    BY <2>2, <2>3, <2>5, HashWords
  <2>10. ASSUME NEW p \in Int
         PROVE  /\ hash64(l, p) = Value(hash(l, p)) \div PowerOf2(Excess(c.space_bits, 1))
                /\ hash128(l, p)[1] + Base * hash128(l, p)[2]
                     = Value(hash(l, p)) \div PowerOf2(Excess(c.space_bits, 2))
    BY <2>4, <2>7, <2>9, MsbFacts
  <2>11. ASSUME NEW p \in Int PROVE Value(hash(l, p)) <= Value(hash(l, p + 1))
    <3>1. p + 1 \in Int
      OBVIOUS
    <3>2. HashRef(c, n(p), d(p)) <= HashRef(c, n(p + 1), d(p))
      BY <2>2, <2>5, HashGrows
    <3>. QED
      BY <2>5, <2>9, <3>1, <3>2
  <2>. QED
    BY <2>6, <2>8, <2>9, <2>10, <2>11 DEF t, c, n, d
<1>. QED
  BY <1>1, Invariance, HasherInvariance, PTL

=============================================================================
