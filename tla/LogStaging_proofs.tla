--------------------------- MODULE LogStaging_proofs ---------------------------
(***************************************************************************)
(* Theorems about LogStaging, for any logs, names, dest_dirs and numbers   *)
(* of runs and segments.                                                   *)
(***************************************************************************)
EXTENDS LogStaging, TLAPS

-----------------------------------------------------------------------------
(* Types.                                                                  *)

\* The run's DAG file names sources.
LEMMA TypesInit == Init => TypeOK
<1> SUFFICES ASSUME Init PROVE TypeOK
  OBVIOUS
<1>1. size \in [Logs -> Segs] /\ name \in [Logs -> Names] /\ lies \in [Dirs -> Spots]
  BY DEF Init
<1>2. \A f \in disk : f = Segment(f.place, f.seg, f.log) /\ f.seg \in Segs /\ f.log \in Logs
  <2> SUFFICES ASSUME NEW f \in disk
               PROVE  f = Segment(f.place, f.seg, f.log) /\ f.seg \in Segs /\ f.log \in Logs
    OBVIOUS
  <2>1. PICK l \in Logs : \E i \in 1..size[l] : f = Segment(<<"source", l>>, i, l)
    BY DEF Init
  <2>1a. PICK i \in 1..size[l] : f = Segment(<<"source", l>>, i, l)
    BY <2>1
  <2>2. size[l] \in 1..MaxSegs
    BY <1>1 DEF Segs
  <2>3. i \in Segs
    BY <2>2, BoundAssumption DEF Segs
  <2> QED BY <2>1, <2>1a, <2>3 DEF Segment
<1>3. run \in 0..MaxRuns
  BY BoundAssumption DEF Init
<1>4. authored \in [Roles -> SUBSET Sources] /\ wanted \in [Roles -> Sources] /\ conf \in [Roles -> Sources]
  BY DEF Init
<1>5. pc \in Steps /\ outcome \in Outcomes /\ got \in SUBSET Segs
      /\ temp \in SUBSET Roles /\ located \in SUBSET Roles
  BY DEF Init, Steps, Outcomes
<1>6. seen \in [Roles -> SUBSET [seg : Segs, log : Logs]]
  BY DEF Init, Unread
<1> QED BY <1>1, <1>2, <1>3, <1>4, <1>5, <1>6 DEF TypeOK

\* A step changes files by staging one or by removing a place that is not a
\* log's own.
Staged(w, i) ==
    disk' = {f \in disk : f.place # Place(w) \/ f.seg # i} \cup {Segment(Place(w), i, conf[w].log)}

DiskStep ==
    \/ disk' = disk
    \/ \E w \in Roles : \E i \in 1..size[conf[w].log] : pc = w /\ ~InPlace(conf[w]) /\ Staged(w, i)
    \/ \E w \in Roles : ~InPlace(conf[w]) /\ pc \notin {"check", "analyze"} /\ Remove(Place(w))

\* Only hooks that own a temp dir have one.
TempOwned == \A w \in temp : Owned(conf[w])

LEMMA StepsDisk ==
    ASSUME TypeOK, TempOwned, [Next]_vars
    PROVE  DiskStep
<1> USE DEF DiskStep
<1>1. CASE Start
  BY <1>1 DEF Start
<1>2. CASE CheckBaseline
  BY <1>2 DEF CheckBaseline
<1>3. CASE Analyze
  BY <1>3 DEF Analyze
<1>4. CASE Kill
  BY <1>4 DEF Kill
<1>5. CASE \E w \in Roles : Stage(w)
  BY <1>5 DEF Stage, Staged
<1>6. CASE \E w \in Roles : Return(w)
  BY <1>6 DEF Return
<1>7. CASE \E w \in Roles : LocateFails(w)
  <2>1. PICK w \in Roles : LocateFails(w)
    BY <1>7
  <2>2. pc \notin {"check", "analyze"}
    BY <2>1 DEF LocateFails, LeaveLocate, Roles
  <2>3. w \in temp => ~InPlace(conf[w])
    BY DEF TempOwned, Owned, InPlace
  <2> QED BY <2>1, <2>2, <2>3 DEF LocateFails, RemoveIfOwned
<1>8. CASE \E w \in Roles : TeardownFails(w)
  BY <1>8 DEF TeardownFails
<1>9. CASE \E w \in Roles : Cleanup(w)
  <2>1. PICK w \in Roles : Cleanup(w)
    BY <1>9
  <2>2. pc \notin {"check", "analyze"}
    BY <2>1 DEF Cleanup
  <2>3. OwnsCopy(conf[w]) \/ w \in temp => ~InPlace(conf[w])
    BY DEF TempOwned, Owned, InPlace, OwnsCopy
  <2> QED BY <2>1, <2>2, <2>3 DEF Cleanup, RemoveIfOwned
<1>10. CASE UNCHANGED vars
  BY <1>10 DEF vars
<1> QED BY <1>1, <1>2, <1>3, <1>4, <1>5, <1>6, <1>7, <1>8, <1>9, <1>10 DEF Next

\* The logs and the DAG file's hooks stay as they are.
LEMMA FixedLogs ==
    ASSUME [Next]_vars
    PROVE  UNCHANGED <<size, name, lies, authored>>
BY DEF Next, vars, Start, RenderTemplateFields, CheckBaseline, Analyze, Kill, LeaveLocate, Stage, Return,
       LocateFails, TeardownFails, Cleanup

\* Every step keeps the types.
LEMMA TypeStep ==
    ASSUME TypeOK, TempOwned, [Next]_vars
    PROVE  TypeOK'
<1>1. UNCHANGED <<size, name, lies, authored>>
  BY FixedLogs
<1>2. \A f \in disk' : f = Segment(f.place, f.seg, f.log) /\ f.seg \in Segs /\ f.log \in Logs
  <2>1. CASE disk' \subseteq disk
    BY <2>1 DEF TypeOK
  <2>2. ASSUME NEW w \in Roles, NEW i \in 1..size[conf[w].log], Staged(w, i)
        PROVE  \A f \in disk' : f = Segment(f.place, f.seg, f.log) /\ f.seg \in Segs /\ f.log \in Logs
    <3>1. conf[w].log \in Logs
      BY DEF TypeOK, Sources
    <3>2. size[conf[w].log] \in 1..MaxSegs
      BY <3>1 DEF TypeOK, Segs
    <3>3. i \in Segs
      BY <3>2, BoundAssumption DEF Segs
    <3> QED BY <2>2, <3>1, <3>3 DEF Staged, Segment, TypeOK
  <2> QED BY <2>1, <2>2, StepsDisk DEF DiskStep, Remove
<1>3. /\ run' \in 0..MaxRuns /\ wanted' \in [Roles -> Sources] /\ conf' \in [Roles -> Sources]
      /\ pc' \in Steps /\ outcome' \in Outcomes /\ got' \in SUBSET Segs
      /\ temp' \in SUBSET Roles /\ located' \in SUBSET Roles
      /\ seen' \in [Roles -> SUBSET [seg : Segs, log : Logs]]
  <2> USE DEF TypeOK, Steps, Outcomes
  <2>1. CASE Start
    BY <2>1, BoundAssumption DEF Start, RenderTemplateFields, OwnTemp, Unread, Roles
  <2>2. CASE CheckBaseline
    BY <2>2 DEF CheckBaseline
  <2>3. CASE Analyze
    <3>1. \A p : At(p) \in SUBSET [seg : Segs, log : Logs]
      BY DEF At
    <3> QED BY <2>3, <3>1 DEF Analyze
  <2>4. CASE Kill
    BY <2>4 DEF Kill, LeaveLocate
  <2>5. CASE \E w \in Roles : Stage(w)
    <3>1. PICK w \in Roles : Stage(w)
      BY <2>5
    <3>2. conf[w].log \in Logs
      BY DEF Sources
    <3>3. 1..size[conf[w].log] \subseteq Segs
      BY <3>2, BoundAssumption DEF Segs
    <3> QED BY <3>1, <3>3 DEF Stage
  <2>6. CASE \E w \in Roles : Return(w)
    BY <2>6 DEF Return, OwnTemp, Roles
  <2>7. CASE \E w \in Roles : LocateFails(w)
    BY <2>7 DEF LocateFails, LeaveLocate, RemoveIfOwned
  <2>8. CASE \E w \in Roles : TeardownFails(w)
    BY <2>8 DEF TeardownFails, LeaveLocate
  <2>9. CASE \E w \in Roles : Cleanup(w)
    BY <2>9 DEF Cleanup, RemoveIfOwned
  <2>10. CASE UNCHANGED vars
    BY <2>10 DEF vars, runVars
  <2> QED BY <2>1, <2>2, <2>3, <2>4, <2>5, <2>6, <2>7, <2>8, <2>9, <2>10 DEF Next
<1> QED BY <1>1, <1>2, <1>3 DEF TypeOK

\* A temp dir is made for a hook that owns it, and the hooks stay the run's.
LEMMA TempOwnedStep ==
    ASSUME TypeOK, TempOwned, [Next]_vars
    PROVE  TempOwned'
<1> USE DEF TempOwned, Owned
<1>1. CASE Start
  BY <1>1 DEF Start, OwnTemp
<1>2. CASE CheckBaseline
  BY <1>2 DEF CheckBaseline
<1>3. CASE Analyze
  BY <1>3 DEF Analyze
<1>4. CASE Kill
  BY <1>4 DEF Kill, LeaveLocate
<1>5. CASE \E w \in Roles : Stage(w)
  BY <1>5 DEF Stage
<1>6. CASE \E w \in Roles : Return(w)
  BY <1>6 DEF Return, OwnTemp
<1>7. CASE \E w \in Roles : LocateFails(w)
  BY <1>7 DEF LocateFails, LeaveLocate, RemoveIfOwned
<1>8. CASE \E w \in Roles : TeardownFails(w)
  BY <1>8 DEF TeardownFails, LeaveLocate
<1>9. CASE \E w \in Roles : Cleanup(w)
  BY <1>9 DEF Cleanup, RemoveIfOwned
<1>10. CASE UNCHANGED vars
  BY <1>10 DEF vars, runVars
<1> QED BY <1>1, <1>2, <1>3, <1>4, <1>5, <1>6, <1>7, <1>8, <1>9, <1>10 DEF Next

LEMMA Types == Spec => [](TypeOK /\ TempOwned)
<1>1. Init => TypeOK /\ TempOwned
  BY TypesInit DEF Init, TempOwned
<1>2. TypeOK /\ TempOwned /\ [Next]_vars => (TypeOK /\ TempOwned)'
  BY TypeStep, TempOwnedStep
<1> QED BY <1>1, <1>2, PTL DEF Spec

\* Type correctness of the model.
THEOREM TypeCorrect == Spec => []TypeOK
BY Types, PTL


-----------------------------------------------------------------------------
(* Places.                                                                 *)

\* Places are told apart by what they are.
LEMMA ApartByKind ==
    ASSUME NEW l, NEW d, NEW n, NEW r, NEW w
    PROVE  /\ <<"source", l>> # <<"dest", d, n>>
           /\ <<"source", l>> # <<"temp", r, w>>
           /\ <<"dest", d, n>> # <<"temp", r, w>>
OBVIOUS

\* What a role's log is staged at.
LEMMA PlaceOf ==
    ASSUME NEW w \in Roles, ~InPlace(conf[w])
    PROVE  /\ Owned(conf[w]) => Place(w) = <<"temp", run, w>>
           /\ ~Owned(conf[w]) => Place(w) = <<"dest", conf[w].dir, name[conf[w].log]>>
           /\ \A l : Place(w) # <<"source", l>>
BY ApartByKind DEF Place, StagedAs

\* Only copies lie inside a dest_dir.
LEMMA CopiesInside ==
    ASSUME NEW p, NEW l
    PROVE  ~Inside(<<"source", l>>, p)
BY ApartByKind DEF Inside

\* Staging at one place, or removing it, leaves the files of another alone that
\* is not inside it.
LEMMA OtherPlaces ==
    ASSUME NEW p, NEW q, p # q, ~Inside(q, p),
           \/ Remove(p)
           \/ \E w \in Roles : \E i : p = Place(w) /\ Staged(w, i)
    PROVE  /\ At(q)' = At(q)
           /\ \A f : f.place = q => (f \in disk' <=> f \in disk)
<1>1. \A f : f.place = q => (f \in disk' <=> f \in disk)
  BY DEF Remove, Staged, Segment
<1> QED BY <1>1 DEF At

\* The owners' logs stay whole.
LEMMA SourcesStep ==
    ASSUME TypeOK, TempOwned, SourcesUntouched, [Next]_vars
    PROVE  SourcesUntouched'
<1>1. SUFFICES ASSUME NEW l \in Logs
               PROVE  At(<<"source", l>>)' = At(<<"source", l>>)
  BY FixedLogs DEF SourcesUntouched, Content
<1>2. CASE disk' = disk
  BY <1>2 DEF At
<1>3. ASSUME NEW w \in Roles, ~InPlace(conf[w]),
             Remove(Place(w)) \/ \E i : Staged(w, i)
      PROVE  At(<<"source", l>>)' = At(<<"source", l>>)
  BY <1>3, PlaceOf, CopiesInside, OtherPlaces
<1> QED BY <1>2, <1>3, StepsDisk DEF DiskStep

LEMMA SourcesInit == Init => SourcesUntouched
<1> SUFFICES ASSUME Init, NEW l \in Logs PROVE At(<<"source", l>>) = Content(l)
  BY DEF SourcesUntouched
<1>1. ASSUME NEW f \in disk, f.place = <<"source", l>>
      PROVE  [seg |-> f.seg, log |-> f.log] \in Content(l)
  <2>1. PICK k \in Logs : \E i \in 1..size[k] : f = Segment(<<"source", k>>, i, k)
    BY DEF Init
  <2>2. PICK i \in 1..size[k] : f = Segment(<<"source", k>>, i, k)
    BY <2>1
  <2>3. k = l
    BY <1>1, <2>2 DEF Segment
  <2> QED BY <2>2, <2>3 DEF Segment, Content
<1>2. ASSUME NEW i \in 1..size[l]
      PROVE  [seg |-> i, log |-> l] \in At(<<"source", l>>)
  <2>1. disk = UNION {{Segment(<<"source", k>>, j, k) : j \in 1..size[k]} : k \in Logs}
    BY DEF Init
  <2>2. Segment(<<"source", l>>, i, l) \in {Segment(<<"source", l>>, j, l) : j \in 1..size[l]}
    OBVIOUS
  <2>3. Segment(<<"source", l>>, i, l) \in disk
    BY <2>1, <2>2, Zenon
  <2> QED BY <2>3 DEF At, Segment
<1> QED BY <1>1, <1>2 DEF At, Content

\* No log source touches a log where its owner keeps it.
THEOREM SourcesKept == Spec => []SourcesUntouched
<1>1. TypeOK /\ TempOwned /\ SourcesUntouched /\ [Next]_vars => SourcesUntouched'
  BY SourcesStep
<1> QED BY <1>1, SourcesInit, Types, PTL DEF Spec


-----------------------------------------------------------------------------
(* The order of a run.                                                     *)

\* What a run has located, which temp dirs it can have, and when it has an
\* outcome, at each place; killed runs and failed tunnels aside.
InOrder ==
    /\ conf = wanted
    /\ pc \in {"log", "base", "check", "analyze"} => outcome = "none"
    /\ \A w \in Roles : pc = w /\ Owned(conf[w]) => w \in temp
    /\ pc = "log" => located = {} /\ temp \subseteq {"log"}
    /\ pc = "base" => located = {"log"} /\ Compares
    /\ pc = "check" => located = Roles /\ Compares
    /\ pc = "analyze" => "log" \in located /\ temp \subseteq located /\ (Compares => located = Roles)
                         /\ (located = Roles => Compares)
    /\ pc = "cleanBase" /\ outcome \in {"success", "error"} => "log" \in located /\ temp \subseteq located
    /\ pc = "cleanLog" /\ outcome \in {"success", "error"} => "log" \in located /\ temp \subseteq {"log"}
    /\ pc = "idle" /\ outcome \in {"success", "error"} => temp = {}

\* Every step keeps the order.
LEMMA InOrderStep ==
    ASSUME TypeOK, TempOwned, InOrder, [Next]_vars
    PROVE  InOrder'
<1>0. located \in SUBSET Roles /\ temp \in SUBSET Roles /\ Roles = {"log", "base"}
  BY DEF TypeOK, Roles
<1>a. \A w \in temp : ~OwnsCopy(conf[w])
  BY DEF TempOwned, Owned, OwnsCopy
<1> USE DEF InOrder, Compares
<1>1. CASE Start
  BY <1>1, <1>0, <1>a DEF Start, RenderTemplateFields, OwnTemp
<1>2. CASE CheckBaseline
  BY <1>2, <1>0, <1>a DEF CheckBaseline
<1>3. CASE Analyze
  BY <1>3, <1>0, <1>a DEF Analyze
<1>4. CASE Kill
  BY <1>4, <1>0, <1>a DEF Kill, LeaveLocate
<1>5. ASSUME NEW w \in Roles, Stage(w) PROVE InOrder'
  BY <1>5, <1>0, <1>a DEF Stage
<1>6. ASSUME NEW w \in Roles, Return(w) PROVE InOrder'
  BY <1>6, <1>0, <1>a DEF Return, OwnTemp
<1>7. ASSUME NEW w \in Roles, LocateFails(w) PROVE InOrder'
  <2>1. pc = w /\ outcome' = "error" /\ UNCHANGED <<wanted, conf, located>>
        /\ pc' = (IF w = "log" THEN "idle" ELSE "cleanBase")
    BY <1>7 DEF LocateFails, LeaveLocate
  <2>2. temp' = temp \ {w}
    BY <1>7, <1>0 DEF LocateFails, RemoveIfOwned
  <2>3. CASE w = "log"
    BY <1>0, <2>1, <2>2, <2>3
  <2>4. CASE w = "base"
    BY <1>0, <2>1, <2>2, <2>4
  <2> QED BY <1>0, <2>3, <2>4
<1>8. ASSUME NEW w \in Roles, TeardownFails(w) PROVE InOrder'
  BY <1>8, <1>0, <1>a DEF TeardownFails, LeaveLocate
<1>9. ASSUME NEW w \in Roles, Cleanup(w) PROVE InOrder'
  <2>1. UNCHANGED <<wanted, conf, located, outcome>>
    BY <1>9 DEF Cleanup
  <2>2. temp' = IF w \in located THEN temp \ {w} ELSE temp
    BY <1>9, <1>0, <1>a DEF Cleanup, RemoveIfOwned
  <2>3. CASE w = "log"
    <3>1. pc = "cleanLog" /\ pc' = "idle"
      BY <1>9, <2>3 DEF Cleanup
    <3> QED BY <1>0, <2>1, <2>2, <2>3, <3>1
  <2>4. CASE w = "base"
    <3>1. pc = "cleanBase" /\ pc' = "cleanLog"
      BY <1>9, <2>4 DEF Cleanup
    <3> QED BY <1>0, <2>1, <2>2, <2>4, <3>1
  <2> QED BY <1>0, <2>3, <2>4
<1>10. CASE UNCHANGED vars
  BY <1>10 DEF vars, runVars
<1> QED BY <1>1, <1>2, <1>3, <1>4, <1>5, <1>6, <1>7, <1>8, <1>9, <1>10 DEF Next

\* Once a run has ended, it has no temp dir; and files in one belong to a run
\* that has it.
FilesOwn ==
    \A f \in disk :
        /\ f.seg \in 1..size[f.log]
        /\ \A d, n : f.place = <<"dest", d, n>> => name[f.log] = n
        /\ \A r, w : f.place = <<"temp", r, w>> =>
               r \in 0..run /\ (r = run => w \in temp /\ f.log = conf[w].log)
        /\ \A l : f.place = <<"source", l>> => f.log = l
        /\ \A g \in disk : f.place = g.place /\ f.seg = g.seg => f.log = g.log


\* A temp dir goes with its files.
LEMMA TempsGo ==
    ASSUME TypeOK, TempOwned, Next, ~Start
    PROVE  /\ run' = run /\ conf' = conf
           /\ \/ temp \subseteq temp'
              \/ \E w \in temp : Remove(Place(w)) /\ temp' = temp \ {w}
<1>1. CASE CheckBaseline
  BY <1>1 DEF CheckBaseline
<1>2. CASE Analyze
  BY <1>2 DEF Analyze
<1>3. CASE Kill
  BY <1>3 DEF Kill, LeaveLocate
<1>4. CASE \E w \in Roles : Stage(w)
  BY <1>4 DEF Stage
<1>5. CASE \E w \in Roles : Return(w)
  BY <1>5 DEF Return
<1>6. CASE \E w \in Roles : LocateFails(w)
  BY <1>6 DEF LocateFails, LeaveLocate, RemoveIfOwned
<1>7. CASE \E w \in Roles : TeardownFails(w)
  BY <1>7 DEF TeardownFails, LeaveLocate
<1>8. CASE \E w \in Roles : Cleanup(w)
  BY <1>8 DEF Cleanup, RemoveIfOwned
<1> QED BY <1>1, <1>2, <1>3, <1>4, <1>5, <1>6, <1>7, <1>8 DEF Next

\* Every step keeps what lies where.
LEMMA FilesOwnStep ==
    ASSUME TypeOK, TempOwned, InOrder, FilesOwn, [Next]_vars
    PROVE  FilesOwn'
<1>0. UNCHANGED <<size, name>>
  BY FixedLogs
<1>1. CASE Start
  <2>1. disk' = disk /\ run' = run + 1 /\ run \in Nat
    BY <1>1 DEF Start, TypeOK
  <2>2. run' \notin 0..run /\ 0..run \subseteq 0..run'
    BY <2>1
  <2> QED BY <1>0, <2>1, <2>2 DEF FilesOwn
<1>2. CASE Next /\ ~Start
  <2>0. run' = run /\ conf' = conf
    BY <1>2, TempsGo
  <2>1. CASE \E w \in temp : Remove(Place(w)) /\ temp' = temp \ {w}
    <3>1. PICK w \in temp : Remove(Place(w)) /\ temp' = temp \ {w}
      BY <2>1
    <3>2. w \in Roles /\ Place(w) = <<"temp", run, w>>
      BY PlaceOf DEF TypeOK, TempOwned, Owned, InPlace
    <3>3. \A f \in disk' : f \in disk /\ f.place # <<"temp", run, w>>
      BY <3>1, <3>2 DEF Remove
    <3> QED BY <1>0, <2>0, <3>1, <3>3 DEF FilesOwn
  <2>2. CASE temp \subseteq temp' /\ disk' \subseteq disk
    BY <1>0, <2>0, <2>2 DEF FilesOwn
  <2>3. ASSUME temp \subseteq temp', NEW w \in Roles, NEW i \in 1..size[conf[w].log], pc = w,
               ~InPlace(conf[w]), Staged(w, i)
        PROVE  FilesOwn'
    <3>1. \A f \in disk' : \/ f \in disk /\ (f.place # Place(w) \/ f.seg # i)
                           \/ f = Segment(Place(w), i, conf[w].log)
      BY <2>3 DEF Staged
    <3>2. ASSUME NEW f, f = Segment(Place(w), i, conf[w].log)
          PROVE  /\ f.place = Place(w) /\ f.seg = i /\ f.log = conf[w].log
                 /\ \A d, n : f.place = <<"dest", d, n>> => name[f.log] = n
                 /\ \A r, v : f.place = <<"temp", r, v>> => r = run /\ v = w /\ v \in temp
                 /\ \A l : f.place # <<"source", l>>
      <4>1. f.place = Place(w) /\ f.seg = i /\ f.log = conf[w].log
        BY <3>2 DEF Segment
      <4>2. CASE Owned(conf[w])
        <5>1. Place(w) = <<"temp", run, w>> /\ w \in temp
          BY <2>3, <4>2, PlaceOf DEF InOrder
        <5> QED BY <4>1, <5>1, ApartByKind
      <4>3. CASE ~Owned(conf[w])
        <5>1. Place(w) = <<"dest", conf[w].dir, name[conf[w].log]>>
          BY <2>3, <4>3, PlaceOf
        <5> QED BY <4>1, <5>1, ApartByKind
      <4> QED BY <4>2, <4>3
    <3>3. run \in 0..run
      BY DEF TypeOK
    <3>4. ASSUME NEW f \in disk', NEW g \in disk', f.place = g.place, f.seg = g.seg
          PROVE  f.log = g.log
      BY <3>1, <3>2, <3>4 DEF FilesOwn
    <3>5. ASSUME NEW f \in disk'
          PROVE  /\ f.seg \in 1..size'[f.log]
                 /\ \A d, n : f.place = <<"dest", d, n>> => name'[f.log] = n
                 /\ \A r, v : f.place = <<"temp", r, v>> =>
                        r \in 0..run' /\ (r = run' => v \in temp' /\ f.log = conf'[v].log)
                 /\ \A l : f.place = <<"source", l>> => f.log = l
      <4>1. CASE f \in disk
        BY <1>0, <2>0, <2>3, <4>1 DEF FilesOwn
      <4>2. CASE f = Segment(Place(w), i, conf[w].log)
        BY <1>0, <2>0, <2>3, <3>2, <3>3, <4>2
      <4> QED BY <3>1, <4>1, <4>2
    <3> QED BY <3>4, <3>5 DEF FilesOwn
  <2>4. CASE temp \subseteq temp'
    <3>1. CASE disk' \subseteq disk
      BY <2>2, <2>4, <3>1
    <3>2. CASE \E w \in Roles : \E i \in 1..size[conf[w].log] : pc = w /\ ~InPlace(conf[w]) /\ Staged(w, i)
      BY <2>3, <2>4, <3>2
    <3> QED BY <3>1, <3>2, StepsDisk DEF DiskStep, Remove
  <2> QED BY <1>2, <2>1, <2>4, TempsGo
<1>3. CASE UNCHANGED vars
  BY <1>3 DEF vars, runVars, FilesOwn
<1> QED BY <1>1, <1>2, <1>3


LEMMA FilesInit == Init => InOrder /\ FilesOwn
<1> SUFFICES ASSUME Init PROVE InOrder /\ FilesOwn
  OBVIOUS
<1>1. InOrder
  BY DEF Init, InOrder, Compares, Roles
<1>2. ASSUME NEW f \in disk
      PROVE  \E l \in Logs : f.place = <<"source", l>> /\ f.log = l /\ f.seg \in 1..size[l]
  <2>1. PICK l \in Logs : \E i \in 1..size[l] : f = Segment(<<"source", l>>, i, l)
    BY DEF Init
  <2> QED BY <2>1 DEF Segment
<1>3. FilesOwn
  BY <1>2, ApartByKind DEF FilesOwn
<1> QED BY <1>1, <1>3

\* remove_if_owned() is reached however a run ends, but for a kill and for a
\* tunnel that fails to close.
THEOREM TempDirsGo == Spec => []TempDirsRemoved
<1>1. TypeOK /\ InOrder /\ FilesOwn => TempDirsRemoved
  <2> SUFFICES ASSUME TypeOK, InOrder, FilesOwn, pc = "idle", outcome \in {"success", "error"}
               PROVE  temp = {} /\ \A w \in Roles : At(<<"temp", run, w>>) = {}
    BY DEF TempDirsRemoved
  <2>1. temp = {}
    BY DEF InOrder
  <2> QED BY <2>1 DEF FilesOwn, At
<1>2. TypeOK /\ TempOwned /\ InOrder /\ FilesOwn /\ [Next]_vars => (InOrder /\ FilesOwn)'
  BY InOrderStep, FilesOwnStep
<1> QED BY <1>1, <1>2, FilesInit, Types, PTL DEF Spec

-----------------------------------------------------------------------------
(* What the CLI reads.                                                     *)

\* A role's log lies complete where it was staged.
Whole(w) == \A i \in 1..size[conf[w].log] : Segment(Place(w), i, conf[w].log) \in disk

\* What was fetched is there, until the baseline is staged over it, which the
\* check finds out before the analysis.
Complete ==
    /\ \A w \in Roles : pc = w /\ ~InPlace(conf[w]) =>
           \A i \in got : Segment(Place(w), i, conf[w].log) \in disk
    /\ pc \in {"base", "check"} => Whole("log") \/ Place("log") = Place("base")
    /\ pc = "check" => Whole("base")
    /\ pc = "analyze" => \A w \in located : Whole(w)
    /\ pc = "analyze" /\ Compares => Place("log") # Place("base")


\* locate() returns once all segments are there.
LEMMA FetchedIsWhole ==
    ASSUME TypeOK, SourcesUntouched, Complete, NEW w \in Roles, pc = w, Fetched(w)
    PROVE  Whole(w)
<1>1. CASE InPlace(conf[w])
  <2>1. Place(w) = <<"source", conf[w].log>> /\ conf[w].log \in Logs
    BY <1>1 DEF Place, TypeOK, Sources
  <2>2. ASSUME NEW i \in 1..size[conf[w].log]
        PROVE  Segment(Place(w), i, conf[w].log) \in disk
    <3>1. [seg |-> i, log |-> conf[w].log] \in At(<<"source", conf[w].log>>)
      BY <2>1 DEF SourcesUntouched, Content
    <3>2. PICK f \in disk : f.place = Place(w) /\ f.seg = i /\ f.log = conf[w].log
      BY <2>1, <3>1 DEF At
    <3>3. f = Segment(Place(w), i, conf[w].log)
      BY <3>2 DEF TypeOK
    <3> QED BY <3>3
  <2> QED BY <2>2 DEF Whole
<1>2. CASE ~InPlace(conf[w])
  BY <1>2 DEF Fetched, Complete, Whole
<1> QED BY <1>1, <1>2

\* Where a run stages stays where it is, until the next run starts.
LEMMA SamePlaces ==
    ASSUME TypeOK, TempOwned, Next, ~Start
    PROVE  \A w : Place(w)' = Place(w) /\ InPlace(conf[w])' = InPlace(conf[w]) /\ conf'[w] = conf[w]
<1>1. run' = run /\ conf' = conf /\ name' = name
  BY TempsGo, FixedLogs
<1> QED BY <1>1 DEF Place, StagedAs, Owned, InPlace

\* Every step keeps what was fetched for the analysis.
LEMMA CompleteStep ==
    ASSUME TypeOK, TempOwned, InOrder, SourcesUntouched, Complete, [Next]_vars
    PROVE  Complete'
<1>0. Roles = {"log", "base"} /\ size' = size
  BY FixedLogs DEF Roles
<1>1. CASE Start
  BY <1>0, <1>1 DEF Start, Complete
<1>2. CASE UNCHANGED vars
  BY <1>2 DEF vars, runVars, Complete, Whole, Place, StagedAs, Owned, InPlace, Compares
<1>3. CASE Next /\ ~Start
  <2>0. \A w : Place(w)' = Place(w) /\ InPlace(conf[w])' = InPlace(conf[w]) /\ conf'[w] = conf[w]
    BY <1>3, SamePlaces
  <2>1. CASE pc' \in {"idle", "cleanBase", "cleanLog"}
    BY <1>0, <2>1 DEF Complete
  <2>2. ASSUME NEW w \in Roles, Stage(w) PROVE Complete'
    <3>1. PICK i \in 1..size[conf[w].log] : Staged(w, i) /\ got' = got \cup {i}
      BY <2>2 DEF Stage, Staged
    <3>2. pc = w /\ pc' = pc /\ ~InPlace(conf[w])
      BY <2>2 DEF Stage
    <3>3. \A j \in got' : Segment(Place(w), j, conf[w].log) \in disk'
      BY <3>1, <3>2 DEF Staged, Segment, Complete
    <3>4. pc = "base" => Whole("log")' \/ Place("log")' = Place("base")'
      <4>1. SUFFICES ASSUME pc = "base", Whole("log"), Place("log") # Place("base")
                     PROVE  Whole("log")'
        BY <1>0, <2>0 DEF Complete
      <4>2. \A f : f.place = Place("log") => (f \in disk' <=> f \in disk)
        BY <3>1, <3>2, <4>1 DEF Staged, Segment
      <4> QED BY <1>0, <2>0, <4>1, <4>2 DEF Whole, Segment
    <3> QED BY <1>0, <2>0, <3>2, <3>3, <3>4 DEF Complete
  <2>3. ASSUME NEW w \in Roles, Return(w) PROVE Complete'
    <3>1. Whole(w) /\ pc = w /\ disk' = disk /\ located' = located \cup {w}
      BY <2>3, FetchedIsWhole DEF Return
    <3>2. Whole(w)' /\ (Whole("log") => Whole("log")') /\ (Compares' <=> Compares)
      BY <1>0, <2>0, <3>1 DEF Whole, Compares
    <3>3. CASE w = "log"
      <4>1. IF Compares THEN pc' = "base" ELSE pc' = "analyze"
        BY <2>3, <3>3 DEF Return
      <4>2. located' = {"log"} /\ got' = {}
        BY <2>3, <3>1, <3>3 DEF InOrder, Return
      <4> QED BY <1>0, <3>2, <3>3, <4>1, <4>2 DEF Complete
    <3>4. CASE w = "base"
      <4>1. pc' = "check"
        BY <2>3, <3>4 DEF Return
      <4> QED BY <1>0, <2>0, <3>1, <3>2, <3>4, <4>1 DEF Complete
    <3> QED BY <1>0, <3>3, <3>4
  <2>4. CASE CheckBaseline
    <3>1. pc = "check" /\ disk' = disk /\ located' = located
      BY <2>4 DEF CheckBaseline
    <3>2. pc' = "analyze" => Place("log") # Place("base")
      BY <2>4 DEF CheckBaseline, Overlapping
    <3>3. pc' \in {"analyze", "cleanBase"}
      BY <2>4 DEF CheckBaseline
    <3>4. pc' = "analyze" => \A w \in Roles : Whole(w)'
      BY <1>0, <2>0, <3>1, <3>2 DEF Complete, Whole
    <3> QED BY <1>0, <2>0, <2>1, <3>1, <3>2, <3>3, <3>4 DEF Complete, InOrder
  <2>5. CASE ~CheckBaseline /\ \A w \in Roles : ~Stage(w) /\ ~Return(w)
    <3>1. pc' \in {"idle", "cleanBase", "cleanLog"}
      BY <1>0, <1>3, <2>5 DEF Next, Analyze, Kill, LocateFails, TeardownFails, LeaveLocate, Cleanup
    <3> QED BY <2>1, <3>1
  <2> QED BY <2>2, <2>3, <2>4, <2>5
<1> QED BY <1>1, <1>2, <1>3


\* A segment at a place is read there.
LEMMA SegmentIsRead ==
    ASSUME NEW p, NEW i, NEW l, Segment(p, i, l) \in disk
    PROVE  [seg |-> i, log |-> l] \in At(p)
<1>1. Segment(p, i, l).place = p /\ Segment(p, i, l).seg = i /\ Segment(p, i, l).log = l
  BY DEF Segment
<1> QED BY <1>1 DEF At

\* A place that holds the log whole holds nothing else, where no two logs share
\* a base name.
LEMMA WholeIsAll ==
    ASSUME TypeOK, SourcesUntouched, FilesOwn, NEW w \in Roles, Whole(w),
           \A k, l \in Logs : name[k] = name[l] => k = l
    PROVE  At(Place(w)) = Content(conf[w].log)
<1>0. conf[w].log \in Logs
  BY DEF TypeOK, Sources
<1>1. CASE InPlace(conf[w])
  BY <1>0, <1>1 DEF Place, SourcesUntouched
<1>2. CASE ~InPlace(conf[w])
  <2>1. ASSUME NEW f \in disk, f.place = Place(w)
        PROVE  f.log = conf[w].log /\ f.seg \in 1..size[conf[w].log]
    <3>1. CASE Owned(conf[w])
      BY <1>2, <2>1, <3>1, PlaceOf DEF FilesOwn
    <3>2. CASE ~Owned(conf[w])
      <4>1. name[f.log] = name[conf[w].log] /\ f.log \in Logs
        BY <1>2, <2>1, <3>2, PlaceOf DEF FilesOwn, TypeOK
      <4>2. f.log = conf[w].log
        BY <1>0, <4>1
      <4> QED BY <4>2 DEF FilesOwn
    <3> QED BY <3>1, <3>2
  <2>2. At(Place(w)) \subseteq Content(conf[w].log)
    BY <2>1 DEF At, Content
  <2>3. Content(conf[w].log) \subseteq At(Place(w))
    BY SegmentIsRead DEF Whole, Content
  <2> QED BY <2>2, <2>3
<1> QED BY <1>1, <1>2

\* A step ends the run with success only where it is analyzed; until then there
\* is no outcome, and afterwards what was read stays.
LEMMA SuccessIsAnalyze ==
    ASSUME TypeOK, InOrder, [Next]_vars, outcome' = "success"
    PROVE  \/ Analyze
           \/ UNCHANGED <<size, name, wanted, conf, located, seen, outcome>>
<1>1. CASE Start
  BY <1>1 DEF Start
<1>2. CASE CheckBaseline
  BY <1>2 DEF CheckBaseline, InOrder
<1>3. CASE Kill
  BY <1>3 DEF Kill, LeaveLocate
<1>4. ASSUME NEW w \in Roles, Stage(w) \/ Return(w)
      PROVE  FALSE
  BY <1>4 DEF Stage, Return, InOrder, Roles
<1>5. ASSUME NEW w \in Roles, LocateFails(w) \/ TeardownFails(w)
      PROVE  FALSE
  BY <1>5 DEF LocateFails, TeardownFails, LeaveLocate
<1>6. ASSUME NEW w \in Roles, Cleanup(w)
      PROVE  UNCHANGED <<size, name, wanted, conf, located, seen, outcome>>
  BY <1>6 DEF Cleanup
<1>7. CASE UNCHANGED vars
  BY <1>7 DEF vars, runVars
<1> QED BY <1>1, <1>2, <1>3, <1>4, <1>5, <1>6, <1>7 DEF Next

LEMMA ReadsStep ==
    ASSUME TypeOK, InOrder, SourcesUntouched, FilesOwn, Complete, ReadsOwnLogs, [Next]_vars
    PROVE  ReadsOwnLogs'
<1> SUFFICES ASSUME \A k, l \in Logs : name'[k] = name'[l] => k = l, outcome' = "success",
                    NEW w \in located'
             PROVE  seen'[w] = Content(wanted[w].log)' 
  BY DEF ReadsOwnLogs
<1>1. \A k, l \in Logs : name[k] = name[l] => k = l
  BY FixedLogs
<1>2. CASE Analyze
  <2>1. pc = "analyze" /\ UNCHANGED <<size, wanted, conf, located>>
        /\ seen' = [v \in Roles |-> IF v \in located THEN At(Place(v)) ELSE {}]
    BY <1>2 DEF Analyze
  <2>2. w \in Roles /\ Whole(w)
    BY <2>1 DEF TypeOK, Complete
  <2>3. At(Place(w)) = Content(conf[w].log)
    BY <1>1, <2>2, WholeIsAll
  <2> QED BY <2>1, <2>2, <2>3 DEF InOrder, Content
<1>3. CASE UNCHANGED <<size, name, wanted, conf, located, seen, outcome>>
  BY <1>1, <1>3 DEF ReadsOwnLogs, Content
<1> QED BY <1>2, <1>3, SuccessIsAnalyze

LEMMA ApartStep ==
    ASSUME TypeOK, InOrder, FilesOwn, Complete, BaselineIsNotTheCopy, [Next]_vars
    PROVE  BaselineIsNotTheCopy'
<1>1. CASE Analyze /\ outcome' = "success" /\ Compares /\ conf["log"].log # conf["base"].log
  <2>1. pc = "analyze" /\ located = Roles /\ "log" \in Roles /\ "base" \in Roles
    BY <1>1 DEF Analyze, InOrder, Roles
  <2>2. seen' = [v \in Roles |-> At(Place(v))]
    BY <1>1, <2>1 DEF Analyze
  <2>3. Whole("log") /\ Whole("base") /\ conf["log"].log \in Logs /\ conf["base"].log \in Logs
    BY <2>1 DEF Complete, TypeOK, Sources
  <2>4. 1 \in 1..size[conf["log"].log] /\ 1 \in 1..size[conf["base"].log]
    BY <2>3, BoundAssumption DEF TypeOK, Segs
  <2>5. [seg |-> 1, log |-> conf["base"].log] \in At(Place("base"))
    BY <2>3, <2>4, SegmentIsRead DEF Whole
  <2>6. [seg |-> 1, log |-> conf["base"].log] \notin At(Place("log"))
    <3>1. SUFFICES ASSUME NEW f \in disk, f.place = Place("log"), f.seg = 1, f.log = conf["base"].log
                   PROVE  FALSE
      BY DEF At
    <3>2. Segment(Place("log"), 1, conf["log"].log) \in disk
      BY <2>3, <2>4 DEF Whole
    <3> QED BY <1>1, <3>1, <3>2 DEF FilesOwn, Segment
  <2>7. seen'["log"] # seen'["base"]
    BY <2>1, <2>2, <2>5, <2>6
  <2> QED BY <2>7 DEF BaselineIsNotTheCopy
<1>2. CASE ~(Analyze /\ outcome' = "success" /\ Compares /\ conf["log"].log # conf["base"].log)
  <2>1. SUFFICES ASSUME outcome' = "success", Compares', conf'["log"].log # conf'["base"].log
                 PROVE  seen'["log"] # seen'["base"]
    BY DEF BaselineIsNotTheCopy
  <2>2. CASE Analyze
    BY <1>2, <2>1, <2>2 DEF Analyze, Compares
  <2>3. CASE UNCHANGED <<size, name, wanted, conf, located, seen, outcome>>
    BY <2>1, <2>3 DEF BaselineIsNotTheCopy, Compares
  <2> QED BY <2>1, <2>2, <2>3, SuccessIsAnalyze
<1> QED BY <1>1, <1>2

-----------------------------------------------------------------------------
(* The inductive invariant.                                                *)

Inv ==
    /\ TypeOK /\ TempOwned /\ InOrder /\ SourcesUntouched /\ FilesOwn
    /\ Complete /\ ReadsOwnLogs /\ BaselineIsNotTheCopy

LEMMA Invariant == Spec => []Inv
<1>1. Init => Inv
  <2> SUFFICES ASSUME Init PROVE Inv
    OBVIOUS
  <2>1. TypeOK /\ TempOwned /\ InOrder /\ SourcesUntouched /\ FilesOwn
    BY TypesInit, SourcesInit, FilesInit DEF Init, TempOwned
  <2>2. Complete /\ ReadsOwnLogs /\ BaselineIsNotTheCopy
    BY DEF Init, Complete, ReadsOwnLogs, BaselineIsNotTheCopy, Roles
  <2> QED BY <2>1, <2>2 DEF Inv
<1>2. Inv /\ [Next]_vars => Inv'
  BY TypeStep, TempOwnedStep, InOrderStep, SourcesStep, FilesOwnStep, CompleteStep,
     ReadsStep, ApartStep DEF Inv
<1> QED BY <1>1, <1>2, PTL DEF Spec

\* Whatever lies in the dest_dirs, the CLI reads the logs the DAG file names.
THEOREM OwnLogsRead == Spec => []ReadsOwnLogs
<1>1. Inv => ReadsOwnLogs
  BY DEF Inv
<1> QED BY <1>1, Invariant, PTL

\* _check_baseline_is_another_log() keeps a log from being read as its baseline.
THEOREM BaselineApart == Spec => []BaselineIsNotTheCopy
<1>1. Inv => BaselineIsNotTheCopy
  BY DEF Inv
<1> QED BY <1>1, Invariant, PTL


=============================================================================
