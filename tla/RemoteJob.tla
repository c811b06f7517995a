------------------------------ MODULE RemoteJob ------------------------------
(***************************************************************************)
(* One deferrable task instance over all its tries: the worker processes   *)
(* that run SparkForensicsOperator with an SSHAnalyzeHook, the deferral in *)
(* between, and the job each try runs on an SSH host (RemoteHost).         *)
(*                                                                         *)
(* A try executes on a worker (locate, prepare, submit, push, defer), has  *)
(* no process while deferred, and resumes on another worker with a fresh   *)
(* operator built from the DAG file as it is then.  Airflow itself (tries, *)
(* deferral, XCom, the kill of a task) is modelled as far as the operator  *)
(* depends on it.  The DAG file may be edited at any time: to another      *)
(* host or remote_base_dir, to deferrable=False, or to a backend that      *)
(* cannot defer.  A try that starts with deferrable=False runs its CLI in  *)
(* the foreground of an SSH connection (SyncRun has its details), one with *)
(* another backend analyzes on the worker; neither sweeps or submits.      *)
(***************************************************************************)
EXTENDS RemoteHost

CONSTANTS
    Kinds,      \* the kinds of backend the DAG file may name
    Overlap,    \* may Airflow start a try while an older try's worker lives?
    InOrder     \* does a host finish launching a job before a later sweep?

\* defer: SSHAnalyzeHook with deferrable=True.  sync: with deferrable=False.
\* local: an AnalyzeHook that is no DeferrableAnalyzeHook.
ASSUME KindsAssumption == Kinds \subseteq {"defer", "sync", "local"}
ASSUME ScheduleAssumption == Overlap \in BOOLEAN /\ InOrder \in BOOLEAN

NoTry == 0      \* "no job", where a job is named by its try

VARIABLES
    cur,        \* the try Airflow is at
    xcom,       \* the task instance's XCom under REMOTE_JOB_XCOM_KEY
    pc,         \* where each try is
    hook,       \* the backend its current process rendered
    killJob,    \* self._kill_job of its current process
    event,      \* what it resumes with
    read,       \* what collect() read of the job's output
    faults      \* history: what went wrong around the try

tryVars == <<cur, xcom, pc, hook, killJob, event, read, faults>>
vars == <<hostVars, tryVars>>

Backends == [scope : Scopes, kind : Kinds]
NoBackend == [scope |-> NoScope, kind |-> "none"]

\* A worker process runs the try, and nothing has killed it yet.
Live == {"locate", "sync", "analyze", "prepare", "submit", "acking", "push", "defer", "abandon",
         "resume", "collect", "reading", "rereading", "giveup", "cleanup", "report"}
Ended == {"failed", "success", "crashed"}
TryStates == Live \cup Ended \cup {"idle", "deferred", "onkill"}

\* The try has submitted a job and still means to use it.
Waiting == {"acking", "push", "defer", "deferred"}

Events == {"none", "usable", "unusable", "lost", "fail"}

Faults == {"lostAck", "crash", "abandonFailed", "clearedDeferred", "overtaken",
           "xcomUnread", "unreachable", "cleanupFailed", "superseded", "edited", "cliLeft"}

TypeOK ==
    /\ HostTypeOK
    /\ cur \in Tries \cup {NoTry}
    /\ xcom \in Tries \cup {NoTry}
    /\ pc \in [Tries -> TryStates]
    /\ hook \in [Tries -> Backends \cup {NoBackend}]
    /\ killJob \in [Tries -> Tries \cup {NoTry}]
    /\ event \in [Tries -> Events]
    /\ read \in [Tries -> Outputs]
    /\ faults \in [Tries -> SUBSET Faults]

Init ==
    /\ HostInit
    /\ cur = NoTry
    /\ xcom = NoTry
    /\ pc = [t \in Tries |-> "idle"]
    /\ hook = [t \in Tries |-> NoBackend]
    /\ killJob = [t \in Tries |-> NoTry]
    /\ event = [t \in Tries |-> "none"]
    /\ read = [t \in Tries |-> "nothing"]
    /\ faults = [t \in Tries |-> {}]

Goto(t, s) == pc' = [pc EXCEPT ![t] = s]
Fault(t, f) == faults' = [faults EXCEPT ![t] = @ \cup f]

CanSweep(d) == InOrder => Settled(d)

\* A worker's process builds its operator from the DAG file as it is by then,
\* and renders its templates afresh.
RenderBackend(t) == \E b \in Backends : hook' = [hook EXCEPT ![t] = b]

-----------------------------------------------------------------------------
(* Abandoning a job.                                                       *)

\* One abandon_scope(_dir)_command of try t's process: it sweeps the task
\* instance's directory d.  Every caller only logs a failure.
SendAbandon(t, d, f) ==
    /\ \/ /\ CanSweep(d)
          /\ SweepScope(d)
          /\ Fault(t, f \cup (IF InFlight(t) THEN {"overtaken"} ELSE {}))
       \/ /\ CanSweep(d)
          /\ SweepScopePartly(d)
          /\ Fault(t, f \cup {"abandonFailed"})
       \/ UNCHANGED <<proc, dir>> /\ Fault(t, f \cup {"abandonFailed"})
    /\ UNCHANGED <<at, launch, wrote, cli>>

\* Mutant of Abandon: always the scope of the hook at hand.
AbandonHere(t, job, f) == SendAbandon(t, hook[t].scope, f)

\* SSHAnalyzeHook.abandon(): the job's own host and directory when the job is
\* known, else those of the hook at hand.
Abandon(t, job, f) == SendAbandon(t, IF job = NoTry THEN hook[t].scope ELSE at[job], f)

\* The same for the job in XCom, which may not be readable.
AbandonSubmitted(t) ==
    \/ Abandon(t, xcom, {})
    \/ xcom # NoTry /\ Abandon(t, NoTry, {"xcomUnread"})

-----------------------------------------------------------------------------
(* The first worker: execute() and _submit_and_defer().                    *)

\* A retry or a clear.  Airflow clears the task instance's XComs.
StartTry(t) ==
    /\ t = cur + 1
    /\ cur # NoTry => pc[cur] \in Ended \/ (Overlap /\ pc[cur] \in Live \cup {"onkill"})
    /\ cur' = t
    /\ xcom' = NoTry
    /\ RenderBackend(t)
    /\ Goto(t, "locate")
    /\ UNCHANGED <<hostVars, killJob, event, read, faults>>

\* Locating the logs and checking them against the backend: no job yet, so
\* an error only cleans the logs up.
LocateLogs(t) ==
    /\ pc[t] = "locate"
    /\ Goto(t, IF hook[t].kind = "defer" THEN "prepare" ELSE "sync") \/ Goto(t, "failed")
    /\ UNCHANGED <<hostVars, cur, xcom, hook, killJob, event, read, faults>>

\* execute() with a backend that analyzes on the worker itself.
RunLocally(t) ==
    /\ pc[t] = "sync"
    /\ hook[t].kind = "local"
    /\ Goto(t, "success") \/ Goto(t, "failed")
    /\ UNCHANGED <<hostVars, cur, xcom, hook, killJob, event, read, faults>>

\* execute() with deferrable=False: the CLI starts on the backend's host, and
\* no command looks for a job of an earlier try.
StartCli(t) ==
    /\ pc[t] = "sync"
    /\ hook[t].kind = "sync"
    /\ \/ cli' = [cli EXCEPT ![t] = hook[t].scope.host] /\ Goto(t, "analyze")
       \/ UNCHANGED cli /\ Goto(t, "failed")
    /\ UNCHANGED <<jobVars, cur, xcom, hook, killJob, event, read, faults>>

\* analyze() ends with its CLI, or before it: at its deadline or for a lost
\* connection, neither of which stops the CLI.
EndSync(t) ==
    /\ pc[t] = "analyze"
    /\ \/ cli[t] = NoHost /\ Goto(t, "success") /\ UNCHANGED faults
       \/ Goto(t, "failed") /\ Fault(t, IF cli[t] = NoHost THEN {} ELSE {"cliLeft"})
    /\ UNCHANGED <<hostVars, cur, xcom, hook, killJob, event, read>>

\* submit()'s prepare_scope_command.  Its failure, or that of its answer,
\* fails the try before anything is launched.
PrepareScope(t) ==
    /\ pc[t] = "prepare"
    /\ \/ CanSweep(hook[t].scope) /\ SweepScope(hook[t].scope) /\ Goto(t, "submit")
       \/ CanSweep(hook[t].scope) /\ SweepScope(hook[t].scope) /\ Goto(t, "failed")
       \/ CanSweep(hook[t].scope) /\ SweepScopePartly(hook[t].scope) /\ Goto(t, "failed")
       \/ UNCHANGED <<proc, dir>> /\ Goto(t, "failed")
    /\ UNCHANGED <<at, launch, wrote, cli, cur, xcom, hook, killJob, event, read, faults>>

Submit(t) ==
    /\ pc[t] = "submit"
    /\ \/ SendSubmit(t, hook[t].scope) /\ Goto(t, "acking")
       \/ UNCHANGED hostVars /\ Goto(t, "failed")
    /\ UNCHANGED <<cur, xcom, hook, killJob, event, read, faults>>

\* submit() returns the job and execute() keeps it for on_kill().
SubmitAcked(t) ==
    /\ pc[t] = "acking"
    /\ launch[t] = "recorded"
    /\ killJob' = [killJob EXCEPT ![t] = t]
    /\ Goto(t, "push")
    /\ UNCHANGED <<hostVars, cur, xcom, hook, event, read, faults>>

\* submit() raises: the wrapper failed, or its answer did not come in time.
\* _submit_and_defer() has no job to abandon then.
SubmitFails(t) ==
    /\ pc[t] = "acking"
    /\ Fault(t, IF launch[t] = "refused" THEN {} ELSE {"lostAck"})
    /\ Goto(t, "failed")
    /\ UNCHANGED <<hostVars, cur, xcom, hook, killJob, event, read>>

PushJob(t) ==
    /\ pc[t] = "push"
    /\ \/ xcom' = t /\ Goto(t, "defer")
       \/ xcom' \in {xcom, t} /\ Goto(t, "abandon")
    /\ UNCHANGED <<hostVars, cur, hook, killJob, event, read, faults>>

\* Mutant of Defer: TaskDeferred is handled like any other exception.
DeferAbandons(t) ==
    /\ pc[t] = "defer"
    /\ Abandon(t, t, {})
    /\ Goto(t, "deferred")
    /\ killJob' = [killJob EXCEPT ![t] = NoTry]
    /\ UNCHANGED <<cur, xcom, hook, event, read>>

\* TaskDeferred leaves the worker, unless building the deferral fails.
\* Airflow takes no deferral from a try it has given up on.
Defer(t) ==
    /\ pc[t] = "defer"
    /\ \/ /\ t = cur
          /\ Goto(t, "deferred")
          /\ killJob' = [killJob EXCEPT ![t] = NoTry]
          /\ UNCHANGED faults
       \/ /\ t # cur
          /\ Goto(t, "failed")
          /\ Fault(t, {"superseded"})
          /\ UNCHANGED killJob
       \/ Goto(t, "abandon") /\ UNCHANGED <<killJob, faults>>
    /\ UNCHANGED <<hostVars, cur, xcom, hook, event, read>>

\* The except clause of _submit_and_defer() once it has the job.
AbandonQuietly(t) ==
    /\ pc[t] = "abandon"
    /\ Abandon(t, t, {})
    /\ Goto(t, "failed")
    /\ UNCHANGED <<cur, xcom, hook, killJob, event, read>>

-----------------------------------------------------------------------------
(* Deferred: no process, only the trigger.                                 *)

ResumeWith(t, e) ==
    /\ pc[t] = "deferred"
    /\ event' = [event EXCEPT ![t] = e]
    /\ RenderBackend(t)
    /\ Goto(t, "resume")
    /\ UNCHANGED <<hostVars, cur, xcom, killJob, read, faults>>

\* The trigger read the exit code file.
TriggerFires(t) ==
    /\ dir[t] = "exit"
    /\ ResumeWith(t, IF wrote[t] = "error" THEN "unusable" ELSE "usable")

\* The trigger lost the host: an event without an exit code.
TriggerGivesUp(t) == ResumeWith(t, "lost")

\* Mutant of DeferralFails: no timeout is passed to defer().
TriggerFailsAfterExit(t) == dir[t] = "exit" /\ ResumeWith(t, "fail")

\* The deferral timed out, or the trigger crashed: next_method is "__fail__".
DeferralFails(t) == ResumeWith(t, "fail")

\* A user clears or marks the deferred task: no process, so no on_kill().
ClearDeferred(t) ==
    /\ pc[t] = "deferred"
    /\ Goto(t, "failed")
    /\ Fault(t, {"clearedDeferred"})
    /\ UNCHANGED <<hostVars, cur, xcom, hook, killJob, event, read>>

-----------------------------------------------------------------------------
(* The second worker: resume_execution() and execute_complete().           *)

\* The resumed operator's backend cannot abandon, or is not asked to.
LeaveJob(t) ==
    /\ Fault(t, IF at[t] = NoScope THEN {} ELSE {"edited"})
    /\ UNCHANGED hostVars

\* Mutant of ResumeFails: nothing is stopped once deferrable is switched off.
ResumeFailsIfDeferrable(t) ==
    /\ pc[t] = "resume"
    /\ event[t] = "fail"
    /\ IF hook[t].kind = "defer" THEN AbandonSubmitted(t) ELSE UNCHANGED <<hostVars, faults>>
    /\ Goto(t, "failed")
    /\ UNCHANGED <<cur, xcom, hook, killJob, event, read>>

\* resume_execution() with "__fail__": stop the job, also when deferrable was
\* switched off, then Airflow raises.
ResumeFails(t) ==
    /\ pc[t] = "resume"
    /\ event[t] = "fail"
    /\ IF hook[t].kind = "local" THEN LeaveJob(t) ELSE AbandonSubmitted(t)
    /\ Goto(t, "failed")
    /\ UNCHANGED <<cur, xcom, hook, killJob, event, read>>

ExecuteComplete(t) ==
    /\ pc[t] = "resume"
    /\ event[t] # "fail"
    /\ killJob' = [killJob EXCEPT ![t] = t]
    /\ Goto(t, IF event[t] = "lost" THEN "giveup" ELSE "collect")
    /\ UNCHANGED <<hostVars, cur, xcom, hook, event, read, faults>>

\* The backend has no collect(): an AttributeError.
CannotCollect(t) ==
    /\ pc[t] \in {"giveup", "collect"}
    /\ hook[t].kind = "local"
    /\ LeaveJob(t)
    /\ Goto(t, "failed")
    /\ UNCHANGED <<cur, xcom, hook, killJob, event, read>>

\* collect() of an event without an exit code.
LoseTrack(t) ==
    /\ pc[t] = "giveup"
    /\ hook[t].kind # "local"
    /\ Abandon(t, t, {})
    /\ Goto(t, "failed")
    /\ UNCHANGED <<cur, xcom, hook, killJob, event, read>>

\* Mutant of OutputOf: the exit status is taken for the output.
ExitStatusOf(t) == event[t]

\* What the job's files say to a reader who has the trigger's exit code.
OutputOf(t) == IF event[t] = "unusable" THEN "error"
               ELSE IF dir[t] = "exit" /\ wrote[t] = "report" THEN "report"
               ELSE "missing"

\* Mutant of Collect: the cleanup comes before the reads.
CollectAfterCleanup(t) ==
    /\ pc[t] = "collect"
    /\ RemoveJobDir(t)
    /\ Goto(t, "reading")
    /\ UNCHANGED <<cur, xcom, hook, killJob, event, read, faults>>

\* collect(): connect and read stderr, which may be missing.  A failed read
\* still cleans the job up, a failed connection does not.
Collect(t) ==
    /\ pc[t] = "collect"
    /\ hook[t].kind # "local"
    /\ \/ Goto(t, "reading") /\ UNCHANGED faults
       \/ Goto(t, "cleanup") /\ UNCHANGED faults
       \/ Goto(t, "failed") /\ Fault(t, {"unreachable"})
    /\ UNCHANGED <<hostVars, cur, xcom, hook, killJob, event, read>>

\* The second read: the report, after a usable exit code.
ReadReport(t) ==
    /\ pc[t] = "reading"
    /\ \/ /\ read' = [read EXCEPT ![t] = OutputOf(t)]
          /\ Goto(t, "cleanup") \/ (OutputOf(t) = "report" /\ Goto(t, "rereading"))
       \/ Goto(t, "cleanup") /\ UNCHANGED read
    /\ UNCHANGED <<hostVars, cur, xcom, hook, killJob, event, faults>>

\* The reads of the Markdown run, where the job has one: its exit code and
\* report may be gone by now.
ReadMarkdown(t) ==
    /\ pc[t] = "rereading"
    /\ read' \in {[read EXCEPT ![t] = OutputOf(t)], [read EXCEPT ![t] = "nothing"]}
    /\ Goto(t, "cleanup")
    /\ UNCHANGED <<hostVars, cur, xcom, hook, killJob, event, faults>>

CleanupJob(t) ==
    /\ pc[t] = "cleanup"
    /\ \/ RemoveJobDir(t) /\ UNCHANGED faults
       \/ UNCHANGED hostVars /\ Fault(t, {"cleanupFailed"})
    /\ Goto(t, "report")
    /\ UNCHANGED <<cur, xcom, hook, killJob, event, read>>

\* Mutant of HandleReport: every exit code but an error's is taken for a report.
HandleAnyReport(t) ==
    /\ pc[t] = "report"
    /\ \/ read[t] # "error" /\ Goto(t, "success")
       \/ Goto(t, "failed")
    /\ UNCHANGED <<hostVars, cur, xcom, hook, killJob, event, read, faults>>

\* _report_from_run() and handle_report(): only a report that was read can
\* lead to success; every other outcome raises.
HandleReport(t) ==
    /\ pc[t] = "report"
    /\ \/ read[t] = "report" /\ Goto(t, "success")
       \/ Goto(t, "failed")
    /\ UNCHANGED <<hostVars, cur, xcom, hook, killJob, event, read, faults>>

-----------------------------------------------------------------------------
(* A kill or an AirflowTaskTimeout ends whatever the worker does and calls *)
(* on_kill(); a crash calls nothing.                                       *)

Kill(t) ==
    /\ pc[t] \in Live
    /\ Goto(t, "onkill")
    /\ UNCHANGED <<hostVars, cur, xcom, hook, killJob, event, read, faults>>

\* The stop of a synchronous run reaches its CLI, unless the pid is not known
\* yet or the stop fails.
StopCli(t) ==
    /\ \/ cli' = [cli EXCEPT ![t] = NoHost] /\ UNCHANGED faults
       \/ UNCHANGED cli /\ Fault(t, {"cliLeft"})
    /\ UNCHANGED jobVars

\* abandon(context, self._kill_job or self._submitted_job(context)) with
\* deferrable=True; else the synchronous run is stopped, if there is one.
OnKill(t) ==
    /\ pc[t] = "onkill"
    /\ IF cli[t] # NoHost THEN StopCli(t)
       ELSE IF hook[t].kind # "defer" THEN LeaveJob(t)
       ELSE IF killJob[t] # NoTry THEN Abandon(t, killJob[t], {}) ELSE AbandonSubmitted(t)
    /\ Goto(t, "failed")
    /\ UNCHANGED <<cur, xcom, hook, killJob, event, read>>

Crash(t) ==
    /\ pc[t] \in Live \cup {"onkill"}
    /\ Goto(t, "crashed")
    /\ Fault(t, {"crash"})
    /\ UNCHANGED <<hostVars, cur, xcom, hook, killJob, event, read>>

-----------------------------------------------------------------------------

\* The steps a worker takes on its own, each bounded by a deadline.
WorkerStep(t) ==
    \/ LocateLogs(t) \/ RunLocally(t) \/ StartCli(t) \/ EndSync(t)
    \/ PrepareScope(t) \/ Submit(t) \/ SubmitAcked(t) \/ SubmitFails(t)
    \/ PushJob(t) \/ Defer(t) \/ AbandonQuietly(t)
    \/ ResumeFails(t) \/ ExecuteComplete(t) \/ CannotCollect(t) \/ LoseTrack(t)
    \/ Collect(t) \/ ReadReport(t) \/ ReadMarkdown(t) \/ CleanupJob(t) \/ HandleReport(t)
    \/ OnKill(t)

AirflowStep(t) ==
    \/ StartTry(t) \/ TriggerFires(t) \/ TriggerGivesUp(t) \/ DeferralFails(t)
    \/ ClearDeferred(t) \/ Kill(t) \/ Crash(t)

Next ==
    \/ \E t \in Tries : WorkerStep(t) \/ AirflowStep(t)
    \/ \E t \in Tries : HostStep(t) /\ UNCHANGED tryVars
    \/ \E h \in Hosts : Reboot(h) /\ UNCHANGED tryVars

Spec == Init /\ [][Next]_vars

\* Workers run under the command timeouts of ssh.py, and every deferral has
\* the timeout of _defer_timeout().
Fairness == \A t \in Tries : WF_vars(WorkerStep(t)) /\ WF_vars(DeferralFails(t))

FairSpec == Spec /\ Fairness

-----------------------------------------------------------------------------
(* Properties.                                                             *)

\* "That is what keeps a retry or a clear from running two analyses at once"
\* (ARCHITECTURE.md), as far as it is true: of the jobs in one directory, no
\* two run without having been told to stop, whatever was lost, killed or
\* crashed in earlier tries, and whichever hosts, directories and kinds of
\* backend those used.
AtMostOneAnalysis ==
    \A s, t \in Tries : at[s] = at[t] /\ proc[s] = "running" /\ proc[t] = "running" => s = t

\* "There is never more than one analysis per task instance on the host"
\* (docs/troubleshooting.md:388), of those nobody told to stop: not one job
\* beside another's or in another directory, nor beside a synchronous analysis.
Analyzes(t, h) == cli[t] = h \/ (at[t].host = h /\ proc[t] = "running")

OneAnalysisPerHost ==
    \A h \in Hosts, s, t \in Tries : Analyzes(s, h) /\ Analyzes(t, h) => s = t

\* "a new try never reuses an old try's output" (docs/troubleshooting.md):
\* from its submit on, a try shares its scope with no older job.
OnlyOwnDirectory ==
    \A s, t \in Tries :
        pc[t] \in Waiting /\ at[s] = at[t] /\ s # t => dir[s] = "absent"

\* A try that ended and met no failure it cannot see or undo leaves neither
\* a running analysis nor a directory: every exception, kill and timeout
\* between submit() and the end reaches some abandon or cleanup, in the scope
\* the job runs in, and a kill of a synchronous analysis reaches its CLI.
NothingLeftBehind ==
    \A t \in Tries :
        pc[t] \in Ended /\ faults[t] = {} =>
            proc[t] # "running" /\ dir[t] = "absent" /\ cli[t] = NoHost

\* What collect() reads is what the try's own job wrote: nothing swept or
\* cleaned up the files between the trigger's event and the last read.
ReadsOwnOutput ==
    \A t \in Tries : read[t] # "nothing" => read[t] = wrote[t]

\* The steps of a try that may stop jobs.
Sweepers == {"prepare", "abandon", "resume", "giveup", "onkill"}

\* All tries share a scope (ssh.py:358-371), so a late abandon of an older try,
\* or the sweep of a newer one, may stop a job that is waited for.  A try
\* itself never does, however it defers, and no cleanup or read does: it takes
\* another try's worker that submits, gives up or is killed.
StoppedByOthersOnly ==
    [][\A t \in Tries :
          {pc[t], pc'[t]} \subseteq Waiting /\ proc[t] = "running" /\ proc'[t] = "stopping" =>
              \E s \in Tries \ {t} : pc[s] \in Sweepers /\ pc'[s] \in {"submit", "failed"}]_vars

\* Every try that starts ends, although its job may never write an exit code,
\* may be killed from outside or may have lost its directory.
EveryTryEnds == \A t \in Tries : pc[t] # "idle" ~> pc[t] \in Ended

\* "There is never more than one analysis per task instance on the host"
\* (ssh.py:238 and docs/troubleshooting.md:388), counting a job that was
\* told to stop until it has exited.
NeverMoreThanOneAnalysis ==
    \A s, t \in Tries :
        at[s] = at[t] /\ {proc[s], proc[t]} \subseteq {"running", "stopping"} => s = t

-----------------------------------------------------------------------------
(* What a task instance promises.                                          *)

TaskOf(t) ==
    IF pc[t] = "idle" THEN "idle"
    ELSE IF pc[t] = "success" THEN "succeeded"
    ELSE IF pc[t] \in Ended THEN "failed"
    ELSE IF pc[t] \in Waiting THEN "waiting"
    ELSE "working"

AnalysisOf(t) ==
    IF launch[t] = "unsent" THEN "none"
    ELSE IF launch[t] = "sent" THEN "asked"
    ELSE IF proc[t] \in {"running", "stopping"} THEN proc[t]
    ELSE "ended"

Lifecycle == INSTANCE AnalysisLifecycle WITH
    task <- [t \in Tries |-> TaskOf(t)],
    analysis <- [t \in Tries |-> AnalysisOf(t)],
    scope <- at,
    reports <- {t \in Tries : wrote[t] = "report"},
    excused <- {t \in Tries : faults[t] # {}}

\* With workers, commands whose answers may be lost, sweeps, kills and crashes,
\* a task instance keeps what AnalysisLifecycle promises of its jobs: it asks
\* for one only in a scope where none is wanted any more, stops none that is
\* waited for, succeeds by its own report, and leaves none behind without an
\* excuse.  A synchronous analysis is the try's own work there, not a job.
IsAnalysisLifecycle == Lifecycle!Spec

=============================================================================
