----------------------------- MODULE RemoteHost -----------------------------
(***************************************************************************)
(* The SSH hosts as one task instance sees them: what the commands of      *)
(* hooks/analyze/_remote_job.py do there.  Each try of the task instance   *)
(* submits at most one job, so a job is named by its try.  The task        *)
(* instance has one directory per host and remote_base_dir, its scope      *)
(* there (task_instance_scope), with one sub-directory per job.            *)
(* A synchronous analysis has no directory: it is a process in the         *)
(* foreground of its try's SSH connection.                                 *)
(*                                                                         *)
(* The launcher of a job is the SSH provider's wrapper: it makes the job   *)
(* directory, forks the detached analysis, then writes the pid file.       *)
(***************************************************************************)
EXTENDS Naturals

CONSTANTS
    Hosts,      \* the hosts an ssh_conn_id of this task may name
    Dirs,       \* the remote_base_dirs it may name
    NoHost,     \* "on no host"
    MaxTries    \* bound: the tries of the task instance that are looked at

Scopes == [host : Hosts, dir : Dirs]
NoScope == [host |-> NoHost, dir |-> "none"]

ASSUME HostAssumption == NoHost \notin Hosts
ASSUME TriesAssumption == MaxTries \in Nat

Tries == 1..MaxTries

VARIABLES
    at,         \* the scope each try's submit command was sent to
    launch,     \* how far the launcher of each try's job has come
    proc,       \* the process the job's recorded pid names
    dir,        \* the job's directory: absent, made, with a pid file, with an exit code
    wrote,      \* what the finished job left in its directory
    cli         \* where a try's foreground analysis runs that nobody told to stop

jobVars == <<at, launch, proc, dir, wrote>>
hostVars == <<jobVars, cli>>

\* unsent -> sent -> forked -> recorded; refused if nothing was forked,
\* unrecorded if the pid file could not be written.
LaunchStates == {"unsent", "sent", "forked", "recorded", "refused", "unrecorded"}

\* stopping: it has SIGTERM and has not exited.
ProcStates == {"none", "running", "stopping", "dead"}

DirStates == {"absent", "made", "pid", "exit"}

\* error: an exit code that carries no report.  report / missing: a usable
\* exit code, with or without a report file.
Outputs == {"nothing", "error", "report", "missing"}

HostTypeOK ==
    /\ at \in [Tries -> Scopes \cup {NoScope}]
    /\ launch \in [Tries -> LaunchStates]
    /\ proc \in [Tries -> ProcStates]
    /\ dir \in [Tries -> DirStates]
    /\ wrote \in [Tries -> Outputs]
    /\ cli \in [Tries -> Hosts \cup {NoHost}]

HostInit ==
    /\ at = [t \in Tries |-> NoScope]
    /\ launch = [t \in Tries |-> "unsent"]
    /\ proc = [t \in Tries |-> "none"]
    /\ dir = [t \in Tries |-> "absent"]
    /\ wrote = [t \in Tries |-> "nothing"]
    /\ cli = [t \in Tries |-> NoHost]

InFlight(t) == launch[t] \in {"sent", "forked"}

Settled(d) == \A t \in Tries : at[t] = d => ~InFlight(t)

-----------------------------------------------------------------------------
(* What a worker's commands do on a host.                                  *)

\* Of the jobs it finds recorded and unfinished, a sweep signals those whose
\* process still runs.
Sweepable(t, d) == at[t] = d /\ dir[t] = "pid" /\ proc[t] = "running"

\* Mutant of SignalScope: the sweep removes directories and stops nothing.
SignalNothing(d) == d \in Scopes /\ UNCHANGED proc

SignalScope(d) ==
    proc' = [t \in Tries |-> IF Sweepable(t, d) THEN "stopping" ELSE proc[t]]

\* Mutant of RemoveScope: skips the directories of finished jobs.
RemoveUnfinished(d) ==
    dir' = [t \in Tries |-> IF at[t] = d /\ dir[t] # "exit" THEN "absent" ELSE dir[t]]

RemoveScope(d) ==
    dir' = [t \in Tries |-> IF at[t] = d THEN "absent" ELSE dir[t]]

\* _SWEEP_SCOPE: signal every recorded, unfinished job, then rm -rf the scope.
SweepScope(d) == SignalScope(d) /\ RemoveScope(d)

\* The same, when rm fails (set -e ends the script with an error).
SweepScopePartly(d) == SignalScope(d) /\ UNCHANGED dir

\* submit_command reaches the host.
SendSubmit(t, d) ==
    /\ at' = [at EXCEPT ![t] = d]
    /\ launch' = [launch EXCEPT ![t] = "sent"]
    /\ UNCHANGED <<proc, dir, wrote, cli>>

\* cleanup_job_command.
RemoveJobDir(t) ==
    /\ dir' = [dir EXCEPT ![t] = "absent"]
    /\ UNCHANGED <<at, launch, proc, wrote, cli>>

-----------------------------------------------------------------------------
(* What happens on a host by itself.                                       *)

ForkJob(t) ==
    /\ launch[t] = "sent"
    /\ launch' = [launch EXCEPT ![t] = "forked"]
    /\ proc' = [proc EXCEPT ![t] = "running"]
    /\ dir' = [dir EXCEPT ![t] = "made"]
    /\ UNCHANGED <<at, wrote, cli>>

\* The wrapper fails before it forks (no space, no bash, no permission).
RefuseJob(t) ==
    /\ launch[t] = "sent"
    /\ launch' = [launch EXCEPT ![t] = "refused"]
    /\ UNCHANGED <<at, proc, dir, wrote, cli>>

\* The pid file needs the directory, which a sweep may have removed.
RecordPid(t) ==
    /\ launch[t] = "forked"
    /\ launch' = [launch EXCEPT ![t] = IF dir[t] = "absent" THEN "unrecorded" ELSE "recorded"]
    /\ dir' = [dir EXCEPT ![t] = IF @ = "made" THEN "pid" ELSE @]
    /\ UNCHANGED <<at, proc, wrote, cli>>

\* The analysis ends, by itself or under its own coreutils `timeout`, and the
\* wrapper moves the exit code into place, if the directory is still there.
FinishJob(t) ==
    /\ proc[t] = "running"
    /\ proc' = [proc EXCEPT ![t] = "dead"]
    /\ IF dir[t] = "absent"
       THEN UNCHANGED <<dir, wrote>>
       ELSE /\ dir' = [dir EXCEPT ![t] = "exit"]
            /\ \E o \in {"error", "report", "missing"} : wrote' = [wrote EXCEPT ![t] = o]
    /\ UNCHANGED <<at, launch, cli>>

\* The job is killed from outside, or exits on the SIGTERM of a sweep, which
\* reaches its wrapper too: no exit code is written.
JobDies(t) ==
    /\ proc[t] \in {"running", "stopping"}
    /\ proc' = [proc EXCEPT ![t] = "dead"]
    /\ UNCHANGED <<at, launch, dir, wrote, cli>>

\* The foreground analysis of a try ends.
CliExits(t) ==
    /\ cli[t] # NoHost
    /\ cli' = [cli EXCEPT ![t] = NoHost]
    /\ UNCHANGED jobVars

\* A reboot ends jobs, launchers and foreground analyses alike; the
\* directories stay.
Reboot(h) ==
    /\ \E t \in Tries : \/ at[t].host = h /\ (InFlight(t) \/ proc[t] \in {"running", "stopping"})
                       \/ cli[t] = h
    /\ proc' = [t \in Tries |->
                  IF at[t].host = h /\ proc[t] \in {"running", "stopping"} THEN "dead" ELSE proc[t]]
    /\ launch' = [t \in Tries |->
                  IF at[t].host # h \/ ~InFlight(t) THEN launch[t]
                  ELSE IF launch[t] = "sent" THEN "refused" ELSE "unrecorded"]
    /\ cli' = [t \in Tries |-> IF cli[t] = h THEN NoHost ELSE cli[t]]
    /\ UNCHANGED <<at, dir, wrote>>

HostStep(t) == ForkJob(t) \/ RefuseJob(t) \/ RecordPid(t) \/ FinishJob(t)
               \/ JobDies(t) \/ CliExits(t)

=============================================================================
