------------------------------ MODULE LogStaging ------------------------------
(***************************************************************************)
(* What the log sources (hooks/log_source) put on a worker's disk and take *)
(* away again, over several runs there, as run_spark_forensics drives      *)
(* them: locate() of the log, locate() of the baseline, the check that     *)
(* they are two logs, the analysis, the two cleanup()s, and what of that   *)
(* an exception or a kill leaves out.                                      *)
(*                                                                         *)
(* Writing one file is one step.  Runs that are active at once are taken   *)
(* to use different paths, and so do not meet: the model has one at a time *)
(* and lets later runs find what earlier ones left.                        *)
(***************************************************************************)
EXTENDS Naturals

CONSTANTS
    MaxRuns,    \* bound: the runs on this worker
    Logs,       \* the event logs they read
    Names,      \* the base names of logs (or their application ids)
    Dirs,       \* the dest_dirs the DAG files name
    NoDir,      \* dest_dir=None
    MaxSegs     \* bound: the events_<n>_* segments of a log

ASSUME DirAssumption == NoDir \notin Dirs
ASSUME BoundAssumption == {MaxRuns, MaxSegs} \subseteq Nat \ {0}

Roles == {"log", "base"}
Segs == 1..MaxSegs

VARIABLES
    size, name,     \* of each log: its segments are 1..size[l]
    lies,           \* the log or staged copy whose path a dest_dir lies inside, or NoDir
    disk,           \* the files: which segments lie at each place
    authored,       \* what was rendered into the DAG file's own hooks, by role
    run,            \* the number of the current run
    wanted,         \* the log sources its DAG file means, by role
    conf,           \* what the fields of its hooks name
    pc,             \* where it is
    got,            \* the segments the locate() in progress has fetched
    temp,           \* the roles whose hook has a temp dir of its own
    located,        \* the roles whose locate() returned
    seen,           \* what the CLI read, by role
    outcome         \* how the run ends

runVars == <<wanted, conf, pc, got, temp, located, seen, outcome>>
vars == <<size, name, lies, disk, authored, run, runVars>>

\* filesystem: FilesystemLogSourceHook, and with no dest_dir any hook that
\* stages nothing (XCom, remote path, application).  fetch: the SFTP and
\* History Server hooks.  tunnel: the latter, with no dest_dir, wrapped in
\* SSHTunneledLogSourceHook.  none: no log source.
Kinds == {"filesystem", "fetch", "tunnel", "none"}
Sources == {s \in [kind : Kinds, dir : Dirs \cup {NoDir}, log : Logs] :
               s.kind \in {"tunnel", "none"} => s.dir = NoDir}

Steps == {"idle", "log", "base", "check", "analyze", "cleanBase", "cleanLog"}
Outcomes == {"none", "success", "error", "teardown", "killedLocating", "killed"}

-----------------------------------------------------------------------------
(* Where a source's log is, and what is there.                             *)

Owned(s) == s.kind \in {"fetch", "tunnel"} /\ s.dir = NoDir
InPlace(s) == s.kind = "filesystem" /\ s.dir = NoDir

\* Mutant of StagedAs: no directory per source under dest_dir.
StagedFlat(s) == <<"dest", s.dir>>

\* dest_for(), and the History Server hook's dest_root/<app id>.
StagedAs(s) == <<"dest", s.dir, name[s.log]>>

Place(w) ==
    IF InPlace(conf[w]) THEN <<"source", conf[w].log>>
    ELSE IF Owned(conf[w]) THEN <<"temp", run, w>>
    ELSE StagedAs(conf[w])

Segment(p, i, l) == [place |-> p, seg |-> i, log |-> l]
Content(l) == {[seg |-> i, log |-> l] : i \in 1..size[l]}

\* The copies staged in a dest_dir that lies inside p.
Inside(q, p) == \E d \in Dirs, m \in Names : q = <<"dest", d, m>> /\ lies[d] = p

\* A directory is read by its own segments, and removed with what is inside it.
At(p) == {[seg |-> f.seg, log |-> f.log] : f \in {f \in disk : f.place = p}}
Remove(p) == disk' = {f \in disk : f.place # p /\ ~Inside(f.place, p)}

Spots == {NoDir} \cup {<<"source", l>> : l \in Logs} \cup {<<"dest", d, m>> : d \in Dirs, m \in Names}

TypeOK ==
    /\ size \in [Logs -> Segs] /\ name \in [Logs -> Names] /\ lies \in [Dirs -> Spots]
    /\ \A f \in disk : f = Segment(f.place, f.seg, f.log) /\ f.seg \in Segs /\ f.log \in Logs
    /\ run \in 0..MaxRuns
    /\ authored \in [Roles -> SUBSET Sources]
    /\ wanted \in [Roles -> Sources]
    /\ conf \in [Roles -> Sources]
    /\ pc \in Steps
    /\ got \in SUBSET Segs
    /\ temp \in SUBSET Roles /\ located \in SUBSET Roles
    /\ seen \in [Roles -> SUBSET [seg : Segs, log : Logs]]
    /\ outcome \in Outcomes

Unread == [w \in Roles |-> {}]

Init ==
    /\ size \in [Logs -> Segs] /\ name \in [Logs -> Names]
    /\ lies \in [Dirs -> Spots]
    /\ \A d, e \in Dirs, m \in Names : lies[d] = <<"dest", e, m>> => lies[e] = NoDir \* bound: one deep
    /\ disk = UNION {{Segment(<<"source", l>>, i, l) : i \in 1..size[l]} : l \in Logs}
    /\ run = 0
    /\ authored = [w \in Roles |-> {}]
    /\ wanted \in {[w \in Roles |-> s] : s \in {s \in Sources : s.kind = "none"}}
    /\ conf = wanted
    /\ pc = "idle" /\ got = {} /\ temp = {} /\ located = {} /\ seen = Unread /\ outcome = "none"

Compares == conf["base"].kind # "none"

-----------------------------------------------------------------------------
(* Locating the logs.                                                      *)

\* Mutant of OwnTemp: temp dirs are told apart by the hook's class.
OwnTempByKind(s, w) == IF Owned(s) THEN {s.kind} ELSE {}

\* make_dest_root() is called as a locate() begins.
OwnTemp(s, w) == IF Owned(s) THEN {w} ELSE {}

\* Mutant of RenderTemplateFields: Airflow renders a hook's fields in place, and
\* a rendered field holds no template for a later run.
RenderInPlace ==
    /\ conf' = [w \in Roles |-> IF authored[w] = {} THEN wanted'[w]
                               ELSE CHOOSE s \in authored[w] : TRUE]
    /\ authored' = [w \in Roles |-> {conf'[w]}]

\* The operator and the callback render copies: the DAG file's own hooks may
\* serve several runs of this process.
RenderTemplateFields == conf' = wanted' /\ UNCHANGED authored

Start ==
    /\ pc = "idle"
    /\ run < MaxRuns
    /\ run' = run + 1
    /\ wanted' \in [Roles -> Sources]
    /\ wanted'["log"].kind # "none"
    /\ wanted'["base"].kind = "none" => wanted'["base"].log = wanted'["log"].log
    /\ RenderTemplateFields
    /\ temp' = OwnTemp(conf'["log"], "log")
    /\ pc' = "log" /\ got' = {} /\ located' = {} /\ seen' = Unread /\ outcome' = "none"
    /\ UNCHANGED <<size, name, lies, disk>>

\* locate() copies, downloads or extracts one more file, over one of its name.
Stage(w) ==
    /\ pc = w
    /\ ~InPlace(conf[w])
    /\ \E i \in 1..size[conf[w].log] \ got :
          /\ disk' = {f \in disk : f.place # Place(w) \/ f.seg # i}
                     \cup {Segment(Place(w), i, conf[w].log)}
          /\ got' = got \cup {i}
    /\ UNCHANGED <<size, name, lies, authored, run, wanted, conf, pc, temp, located, seen, outcome>>

Fetched(w) == InPlace(conf[w]) \/ got = 1..size[conf[w].log]

\* locate() returns.  The baseline's is called next, if there is one.
Return(w) ==
    /\ pc = w
    /\ Fetched(w)
    /\ located' = located \cup {w}
    /\ got' = {}
    /\ IF w = "log" /\ Compares
       THEN pc' = "base" /\ temp' = temp \cup OwnTemp(conf["base"], "base")
       ELSE pc' = (IF w = "log" THEN "analyze" ELSE "check") /\ UNCHANGED temp
    /\ UNCHANGED <<size, name, lies, disk, authored, run, wanted, conf, seen, outcome>>

\* An exception in the log's locate() leaves the run: the try statement comes
\* after it.  One in the baseline's reaches the finally clauses.
LeaveLocate(w, o) ==
    /\ pc = w
    /\ pc' = IF w = "log" THEN "idle" ELSE "cleanBase"
    /\ got' = {}
    /\ outcome' = o
    /\ UNCHANGED <<size, name, lies, authored, run, wanted, conf, located, seen>>

\* Mutant of RemoveIfOwned: the temp dir is left.
KeepTemp(w) == w \in Roles /\ UNCHANGED <<disk, temp>>

\* remove_if_owned().
RemoveIfOwned(w) ==
    IF w \in temp THEN Remove(Place(w)) /\ temp' = temp \ {w} ELSE UNCHANGED <<disk, temp>>

\* The fetch fails: the fetching hooks remove their temp dir themselves.
LocateFails(w) == LeaveLocate(w, "error") /\ RemoveIfOwned(w)

\* The log is fetched, and the tunnel's shutdown raises.
TeardownFails(w) ==
    /\ conf[w].kind = "tunnel"
    /\ Fetched(w)
    /\ LeaveLocate(w, "teardown")
    /\ UNCHANGED <<disk, temp>>

-----------------------------------------------------------------------------
(* From the check to the cleanups.                                         *)

\* Mutant of Overlapping: the check is not made.
NeverOverlapping == run = 0

\* _check_baseline_is_another_log(): the two paths are one, or one is inside
\* the other.
Overlapping ==
    \/ Place("log") = Place("base")
    \/ Inside(Place("log"), Place("base")) \/ Inside(Place("base"), Place("log"))

CheckBaseline ==
    /\ pc = "check"
    /\ IF Overlapping
       THEN pc' = "cleanBase" /\ outcome' = "error"
       ELSE pc' = "analyze" /\ UNCHANGED outcome
    /\ UNCHANGED <<size, name, lies, disk, authored, run, wanted, conf, got, temp, located, seen>>

\* backend.analyze(), which reads the logs or fails before it does, and
\* handle_report().
Analyze ==
    /\ pc = "analyze"
    /\ \/ /\ seen' = [w \in Roles |-> IF w \in located THEN At(Place(w)) ELSE {}]
          /\ outcome' \in {"success", "error"}
       \/ UNCHANGED seen /\ outcome' = "error"
    /\ pc' = "cleanBase"
    /\ UNCHANGED <<size, name, lies, disk, authored, run, wanted, conf, got, temp, located>>

\* Mutant of OwnsCopy: whatever path the hook returned is removed.
OwnsAnyPath(s) == s.kind = "filesystem"

\* FilesystemLogSourceHook removes its copy, never the caller's own path.
OwnsCopy(s) == s.kind = "filesystem" /\ s.dir # NoDir

Cleanup(w) ==
    /\ pc = IF w = "base" THEN "cleanBase" ELSE "cleanLog"
    /\ pc' = IF w = "base" THEN "cleanLog" ELSE "idle"
    /\ IF w \notin located THEN UNCHANGED <<disk, temp>>
       ELSE IF OwnsCopy(conf[w]) THEN Remove(Place(w)) /\ UNCHANGED temp
       ELSE RemoveIfOwned(w)
    /\ UNCHANGED <<size, name, lies, authored, run, wanted, conf, got, located, seen, outcome>>

\* A kill or an AirflowTaskTimeout.  locate()'s own handlers catch Exception
\* only; between the two locate()s and the end the finally clauses run.
Kill ==
    /\ \/ \E w \in Roles : LeaveLocate(w, "killedLocating")
       \/ /\ pc \in {"check", "analyze", "cleanBase", "cleanLog"}
          /\ pc' = CASE pc = "cleanBase" -> "cleanLog"
                     [] pc = "cleanLog" -> "idle"
                     [] OTHER -> "cleanBase"
          /\ outcome' = "killed"
          /\ UNCHANGED <<size, name, lies, authored, run, wanted, conf, got, located, seen>>
    /\ UNCHANGED <<disk, temp>>

Next ==
    \/ Start \/ CheckBaseline \/ Analyze \/ Kill
    \/ \E w \in Roles : Stage(w) \/ Return(w) \/ LocateFails(w) \/ TeardownFails(w) \/ Cleanup(w)

Spec == Init /\ [][Next]_vars

-----------------------------------------------------------------------------
(* Properties.                                                             *)

\* Where the logs have base names of their own, the CLI reads exactly the
\* segments of the log and of the baseline that the run's DAG file names,
\* whatever earlier, failed or killed runs left in the dest_dirs, and whichever
\* hooks it shares with them.
ReadsOwnLogs ==
    (\A k, l \in Logs : name[k] = name[l] => k = l) =>
        \A w \in located : outcome = "success" => seen[w] = Content(wanted[w].log)

\* Even where base names are shared, a log and its baseline are never analyzed
\* as each other's copy.
BaselineIsNotTheCopy ==
    outcome = "success" /\ Compares /\ conf["log"].log # conf["base"].log =>
        seen["log"] # seen["base"]

\* A run that ended left no temp dir of its own, unless it was killed, or the
\* tunnel it fetched a log through failed to close.
TempDirsRemoved ==
    pc = "idle" /\ outcome \in {"success", "error"} =>
        temp = {} /\ \A w \in Roles : At(<<"temp", run, w>>) = {}

\* Nobody's staging or cleanup touches a log where its owner keeps it.
SourcesUntouched == \A l \in Logs : At(<<"source", l>>) = Content(l)

\* "downloads to a private temp directory and removes it after analysis,
\* including when `locate()` itself fails partway through", and the same for
\* the hook a tunnel wraps (docs/troubleshooting.md:441-443 and 458-460).
NoTempDirLeft == pc = "idle" /\ outcome \in {"success", "error", "teardown"} => temp = {}

=============================================================================
