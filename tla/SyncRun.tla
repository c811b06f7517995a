------------------------------- MODULE SyncRun -------------------------------
(***************************************************************************)
(* SSHAnalyzeHook.analyze(): the CLI runs in the foreground of an SSH      *)
(* channel, once for the report and, if wanted, once more for the Markdown *)
(* report.  A kill may come at any point of it, and on_kill() then has     *)
(* only self._sync_argv, _sync_pid and _sync_channel to find what runs.    *)
(*                                                                         *)
(* On the host a launcher prints its pid on the channel and then becomes   *)
(* coreutils `timeout` with the CLI.  Runs are named 1 and 2.              *)
(***************************************************************************)
EXTENDS Naturals

Runs == {1, 2}
None == 0

VARIABLES
    markdown,   \* thresholds["markdown"]
    pc,         \* where the worker is
    n,          \* the run it is at
    argv, pid, channel, \* self._sync_argv, _sync_pid, _sync_channel: whose they are
    ok,         \* the run in hand ended with a report
    target,     \* the run whose pid on_kill() passes to the stop command
    stop,       \* how far the stop command has come on the host
    cli,        \* what each run's pid names on the host
    status,     \* the runs whose exit status is on the channel
    open,       \* the runs whose channel is open
    raced,      \* history: the runs that ended between a stop's look and its signal
    faults      \* history: what kept a kill from stopping a run

hook == <<argv, pid, channel>>
stopVars == <<target, stop, raced>>
vars == <<markdown, pc, n, hook, ok, stopVars, cli, status, open, faults>>

Polling == {"exec", "channel", "poll"}
Live == {"argv", "connect", "clear", "clearPid", "clearChannel", "result"} \cup Polling
Killing == {"onkill", "stop", "await"}
Ended == {"done", "failed", "killed", "crashed"}

\* launched: no pid line yet; refused: there will be none.  printed: the
\* launcher has not become the CLI yet.
\* reused and hit: the pid went to an unrelated process, which got a signal.
CliStates == {"none", "launched", "refused", "printed", "running", "stopping", "dead", "reused", "hit"}
Alive == {"launched", "printed", "running"}

Faults == {"noPid", "early", "stopFailed", "cutShort", "gaveUp"}

TypeOK ==
    /\ markdown \in BOOLEAN
    /\ pc \in Live \cup Killing \cup Ended
    /\ n \in Runs
    /\ {argv, pid, channel, target} \subseteq Runs \cup {None}
    /\ stop \in {"none", "sent", "matched", "over"}
    /\ raced \subseteq Runs
    /\ ok \in BOOLEAN
    /\ cli \in [Runs -> CliStates]
    /\ status \subseteq Runs /\ open \subseteq Runs
    /\ faults \subseteq Faults

Init ==
    /\ markdown \in BOOLEAN
    /\ pc = "argv" /\ n = 1
    /\ argv = None /\ pid = None /\ channel = None
    /\ ok = FALSE /\ target = None /\ stop = "none" /\ raced = {}
    /\ cli = [r \in Runs |-> "none"]
    /\ status = {} /\ open = {} /\ faults = {}

Cli(r, s) == cli' = [cli EXCEPT ![r] = s]

-----------------------------------------------------------------------------
(* The worker: _run_cli(), _run_remote() and _exec().                      *)

KeepArgv ==
    /\ pc = "argv"
    /\ argv' = n
    /\ pc' = "connect"
    /\ UNCHANGED <<markdown, n, pid, channel, ok, stopVars, cli, status, open, faults>>

Connect ==
    /\ pc = "connect"
    /\ \/ pc' = "exec" /\ ok' = ok
       \/ pc' = "clear" /\ ok' = FALSE
    /\ UNCHANGED <<markdown, n, hook, stopVars, cli, status, open, faults>>

\* An ordinary exception: the connection is closed, the CLI may run on.
GiveUp ==
    /\ pc' = "clear"
    /\ ok' = FALSE
    /\ open' = open \ {n}
    /\ faults' = faults \cup (IF cli'[n] \in Alive THEN {"gaveUp"} ELSE {})

\* client.exec_command(), which may fail before or after the host has started.
Exec ==
    /\ pc = "exec"
    /\ \/ Cli(n, "launched") /\ open' = open \cup {n} /\ pc' = "channel" /\ UNCHANGED <<ok, faults>>
       \/ Cli(n, "launched") /\ GiveUp
       \/ UNCHANGED cli /\ GiveUp
    /\ UNCHANGED <<markdown, n, hook, stopVars, status>>

KeepChannel ==
    /\ pc = "channel"
    /\ channel' = n
    /\ pc' = "poll"
    /\ UNCHANGED <<markdown, n, argv, pid, ok, stopVars, cli, status, open, faults>>

\* _take_pid_line().
TakePid ==
    /\ pc = "poll"
    /\ pid = None
    /\ cli[n] \notin {"none", "launched", "refused"}
    /\ pid' = n
    /\ UNCHANGED <<markdown, pc, n, argv, channel, ok, stopVars, cli, status, open, faults>>

\* The exit status is there, and all output before it has been read: a report,
\* unless the status carries none or the output cannot be parsed.
ReadExit ==
    /\ pc = "poll"
    /\ n \in status
    /\ pid = n \/ cli[n] = "refused"
    /\ pc' = "clear"
    /\ ok' \in (IF cli[n] = "refused" THEN {FALSE} ELSE BOOLEAN)
    /\ open' = open \ {n}
    /\ UNCHANGED <<markdown, n, hook, stopVars, cli, status, faults>>

\* Mutant of Deadline: the poll waits until the CLI has ended.
NoDeadline ==
    /\ pc = "poll"
    /\ cli[n] \notin Alive
    /\ UNCHANGED <<markdown, n, hook, stopVars, cli, status>>
    /\ GiveUp

\* The worker's own deadline, or an error of the connection.
Deadline ==
    /\ pc = "poll"
    /\ UNCHANGED <<markdown, n, hook, stopVars, cli, status>>
    /\ GiveUp

\* _clear_sync_run(), one attribute after the other.
ClearArgv ==
    /\ pc = "clear"
    /\ argv' = None
    /\ pc' = "clearPid"
    /\ UNCHANGED <<markdown, n, pid, channel, ok, stopVars, cli, status, open, faults>>

\* Mutant of ClearPid: the pid outlives its run.
KeepPid ==
    /\ pc = "clearPid"
    /\ pc' = "clearChannel"
    /\ UNCHANGED <<markdown, n, hook, ok, stopVars, cli, status, open, faults>>

ClearPid ==
    /\ pc = "clearPid"
    /\ pid' = None
    /\ pc' = "clearChannel"
    /\ UNCHANGED <<markdown, n, argv, channel, ok, stopVars, cli, status, open, faults>>

ClearChannel ==
    /\ pc = "clearChannel"
    /\ channel' = None
    /\ pc' = "result"
    /\ UNCHANGED <<markdown, n, argv, pid, ok, stopVars, cli, status, open, faults>>

\* Mutants of Result: the Markdown run follows every run; it follows a run
\* that did not end, too.
MarkdownAgain ==
    /\ pc = "result"
    /\ IF ok /\ markdown THEN n' = n + 1 /\ pc' = "argv"
       ELSE pc' = (IF ok THEN "done" ELSE "failed") /\ n' = n
    /\ UNCHANGED <<markdown, hook, ok, stopVars, cli, status, open, faults>>

MarkdownAlways ==
    /\ pc = "result"
    /\ IF n = 1 /\ markdown THEN n' = 2 /\ pc' = "argv"
       ELSE pc' = (IF ok THEN "done" ELSE "failed") /\ n' = n
    /\ UNCHANGED <<markdown, hook, ok, stopVars, cli, status, open, faults>>

\* _analyze(): a run without a report raises; the Markdown report is a second run.
Result ==
    /\ pc = "result"
    /\ \/ ~ok /\ n' = n /\ pc' = "failed"
       \/ ok /\ n = 1 /\ markdown /\ n' = 2 /\ pc' = "argv"
       \/ ok /\ (n = 2 \/ ~markdown) /\ n' = n /\ pc' = "done"
    /\ UNCHANGED <<markdown, hook, ok, stopVars, cli, status, open, faults>>

-----------------------------------------------------------------------------
(* Kills.                                                                  *)

\* Mutant of Timeout: an AirflowTaskTimeout is handled like an exception.
TimeoutClears ==
    /\ pc \in Live
    /\ pc' = "onkill"
    /\ argv' = None /\ pid' = None /\ channel' = None
    /\ open' = open \ {n}
    /\ UNCHANGED <<markdown, n, ok, stopVars, cli, status, faults>>

\* An AirflowTaskTimeout unwinds the run, which closes the connection and
\* keeps what on_kill() needs; the task runner calls on_kill() then.
Timeout ==
    /\ pc \in Live
    /\ pc' = "onkill"
    /\ open' = open \ {n}
    /\ UNCHANGED <<markdown, n, hook, ok, stopVars, cli, status, faults>>

\* SIGTERM: the handler calls on_kill() before anything unwinds.
Sigterm ==
    /\ pc \in Live
    /\ pc' = "onkill"
    /\ UNCHANGED <<markdown, n, hook, ok, stopVars, cli, status, open, faults>>

\* on_kill(): take and clear the three attributes, close the channel.
OnKill ==
    /\ pc = "onkill"
    /\ argv' = None /\ pid' = None /\ channel' = None
    /\ IF argv = None
       THEN pc' = "killed" /\ UNCHANGED <<target, open, faults>>
       ELSE /\ open' = open \ {channel}
            /\ target' = pid
            /\ IF pid = None
               THEN pc' = "killed" /\ faults' = faults \cup {"noPid"}
               ELSE pc' = "stop" /\ UNCHANGED faults
    /\ UNCHANGED <<markdown, n, ok, stop, raced, cli, status>>

\* stop_sync_command, over a connection of its own.  A failure is logged.
SendStop ==
    /\ pc = "stop"
    /\ \/ stop' = "sent" /\ pc' = "await" /\ UNCHANGED faults
       \/ stop' = stop /\ pc' = "killed" /\ faults' = faults \cup {"stopFailed"}
    /\ UNCHANGED <<markdown, n, hook, ok, target, raced, cli, status, open>>

\* Its answer comes, or does not come in time.
AwaitStop ==
    /\ pc = "await"
    /\ pc' = "killed"
    /\ \/ stop = "over" /\ UNCHANGED faults
       \/ faults' = faults \cup {"stopFailed"}
    /\ UNCHANGED <<markdown, n, hook, ok, stopVars, cli, status, open>>

\* A second signal ends on_kill(): the attributes may be gone already.
CutShort ==
    /\ pc \in Killing
    /\ pc' = "killed"
    /\ faults' = faults \cup {"cutShort"}
    /\ UNCHANGED <<markdown, n, hook, ok, stopVars, cli, status, open>>

Crash ==
    /\ pc \in Live \cup Killing
    /\ pc' = "crashed"
    /\ open' = {}
    /\ UNCHANGED <<markdown, n, hook, ok, stopVars, cli, status, faults>>

-----------------------------------------------------------------------------
(* The host.                                                               *)

\* printf of the pid line; if it fails, as on a closed channel, the launcher
\* exits, as it does where the shell cannot be started.
PrintPid(r) ==
    /\ cli[r] = "launched"
    /\ \/ Cli(r, "printed") /\ UNCHANGED status
       \/ Cli(r, "refused") /\ status' = status \cup ({r} \cap open)
    /\ UNCHANGED <<markdown, pc, n, hook, ok, stopVars, open, faults>>

BecomeCli(r) ==
    /\ cli[r] = "printed"
    /\ Cli(r, "running")
    /\ UNCHANGED <<markdown, pc, n, hook, ok, stopVars, status, open, faults>>

\* The CLI ends, is stopped by coreutils `timeout`, or obeys a signal.
CliExits(r) ==
    /\ cli[r] \in {"printed", "running", "stopping"}
    /\ Cli(r, "dead")
    /\ status' = status \cup ({r} \cap open)
    /\ raced' = IF stop = "matched" THEN raced \cup ({r} \cap {target}) ELSE raced
    /\ UNCHANGED <<markdown, pc, n, hook, ok, target, stop, open, faults>>

ReusePid(r) ==
    /\ cli[r] = "dead"
    /\ Cli(r, "reused")
    /\ UNCHANGED <<markdown, pc, n, hook, ok, stopVars, status, open, faults>>

\* Mutant of LookAtPid: the pid is signalled unseen.
SkipLook ==
    /\ stop = "sent"
    /\ stop' = "matched"
    /\ UNCHANGED <<markdown, pc, n, hook, ok, target, raced, cli, status, open, faults>>

\* The stop command goes on only if the pid's command line is the one the run
\* was started with, which the launcher's is not.
LookAtPid ==
    /\ stop = "sent"
    /\ stop' = IF cli[target] = "running" THEN "matched" ELSE "over"
    /\ faults' = faults \cup (IF cli[target] = "printed" THEN {"early"} ELSE {})
    /\ UNCHANGED <<markdown, pc, n, hook, ok, target, raced, cli, status, open>>

\* stop_session: whatever has the pid by now gets the signal.
SignalPid ==
    /\ stop = "matched"
    /\ stop' = "over"
    /\ cli' = [cli EXCEPT ![target] = IF @ = "running" THEN "stopping"
                                     ELSE IF @ = "reused" THEN "hit" ELSE @]
    /\ UNCHANGED <<markdown, pc, n, hook, ok, target, raced, status, open, faults>>

-----------------------------------------------------------------------------

WorkerStep ==
    \/ KeepArgv \/ Connect \/ Exec \/ KeepChannel \/ TakePid \/ ReadExit \/ Deadline
    \/ ClearArgv \/ ClearPid \/ ClearChannel \/ Result
    \/ OnKill \/ SendStop \/ AwaitStop

Next ==
    \/ WorkerStep \/ Timeout \/ Sigterm \/ CutShort \/ Crash
    \/ \E r \in Runs : PrintPid(r) \/ BecomeCli(r) \/ CliExits(r) \/ ReusePid(r)
    \/ LookAtPid \/ SignalPid

Spec == Init /\ [][Next]_vars

FairSpec == Spec /\ WF_vars(WorkerStep)

-----------------------------------------------------------------------------
(* Properties.                                                             *)

\* A kill stops the remote CLI whenever the worker knew its pid and reached
\* the host, at whichever statement of analyze() it came: what may run on is a
\* CLI whose pid had not arrived or whose launcher was still under way, one the
\* worker gave up on before, or one whose stop failed or was cut short.
KilledAnalysisStops ==
    pc = "killed" /\ faults = {} => \A r \in Runs : cli[r] \notin Alive

\* on_kill() never pairs one run's pid or channel with the other run's command
\* line, whichever statements of the two runs and of the clearing between them
\* it interrupts.
HoldsOneRun == argv # None => {pid, channel} \subseteq {argv, None}

\* "Signals the session [...] only while that pid still runs the command line it
\* was started with" (_remote_job.py:240-241), as far as two steps on the host
\* can: an unrelated process is hit only if the CLI was there when the stop
\* command looked, and ended with its pid given away before the signal.  The
\* pid of a CLI that had ended before is safe.
StrangersUntouched == \A r \in Runs : cli[r] = "hit" => r \in raced

\* The Markdown run is never started beside a report run that is still alive.
OneCliAtATime == cli[2] # "none" => cli[1] \notin Alive

\* analyze() ends although the CLI may hang or its channel stay silent.
AnalysisEnds == <>(pc \in Ended)

=============================================================================
