---------------------------- MODULE DeferDeadline -----------------------------
(***************************************************************************)
(* The clocks of one deferral: the coreutils `timeout` around each CLI run *)
(* of the job, the trigger that polls for the exit code, the deferral's    *)
(* own timeout (defer_timeout of ssh.py, capped by _defer_timeout of       *)
(* operator.py), the task's execution_timeout, and the bound of each       *)
(* command a worker sends to the host.  Time is in seconds since the task  *)
(* started; how long Airflow takes to start a resumed worker is left out.  *)
(***************************************************************************)
EXTENDS Integers

CONSTANTS
    Grace,      \* _DEFER_GRACE_S
    CommandTimeout, \* _JOB_COMMAND_TIMEOUT_S
    Timeouts,   \* bound: the values of the backend's `timeout`
    Polls,      \* bound: the values of `poll_interval`
    Limits,     \* bound: the values of execution_timeout
    NoLimit,    \* the task has none
    MaxSubmit   \* bound: how long the worker takes to submit and to defer

ASSUME GraceAssumption == Grace \in Nat /\ Grace > 1
ASSUME CommandAssumption == CommandTimeout \in Nat \ {0}
ASSUME ConfAssumption ==
    /\ Timeouts \subseteq Nat \ {0} /\ Polls \subseteq Nat \ {0}
    /\ Limits \subseteq Nat \ {0} /\ NoLimit \notin Nat
    /\ MaxSubmit \in Nat

VARIABLES
    timeout, poll, limit,   \* how the task is configured
    markdown,       \* a second CLI run is to write a Markdown report
    now,            \* the time
    phase,          \* where the task is
    job,            \* where its job is
    runAt,          \* when the job's current CLI run started
    endedAt,        \* when the job wrote its exit code
    submittedAt,    \* the job's submitted_at
    deferredAt,     \* when the task deferred
    until,          \* when the deferral times out
    nextPoll,       \* when the trigger looks at the job next
    commands,       \* how many commands the worker has still to end
    sentAt,         \* when it sent the current one
    outage          \* history: the trigger was kept from its schedule

conf == <<timeout, poll, limit, markdown>>
jobVars == <<job, runAt, endedAt>>
deferVars == <<submittedAt, deferredAt, until, nextPoll, outage>>
workVars == <<commands, sentAt>>
vars == <<conf, now, phase, jobVars, deferVars, workVars>>

\* Of the phases in which a worker has the task, these end with its last command.
Working == {"resumed", "gaveUp", "timedOut"}
Phases == {"submitting", "submitted", "deferred", "done"} \cup Working

\* hung: it writes no exit code any more (a reboot, a kill, an ignored SIGTERM).
Jobs == {"none", "first", "second", "ended", "hung"}
Running == {"first", "second"}

TypeOK ==
    /\ timeout \in Timeouts /\ poll \in Polls /\ limit \in Limits \cup {NoLimit}
    /\ markdown \in BOOLEAN /\ outage \in BOOLEAN
    /\ phase \in Phases /\ job \in Jobs
    /\ {now, runAt, endedAt, submittedAt, deferredAt, until, nextPoll, sentAt} \subseteq Nat
    /\ phase = "deferred" => until > deferredAt
    /\ commands \in 0..7 /\ (commands > 0 <=> phase \in Working)

Init ==
    /\ timeout \in Timeouts /\ poll \in Polls /\ limit \in Limits \cup {NoLimit}
    /\ markdown \in BOOLEAN /\ outage = FALSE
    /\ now = 0 /\ phase = "submitting" /\ job = "none"
    /\ runAt = 0 /\ endedAt = 0 /\ submittedAt = 0 /\ deferredAt = 0 /\ until = 0 /\ nextPoll = 0
    /\ commands = 0 /\ sentAt = 0

Earlier(a, b) == IF a < b THEN a ELSE b
Later(a, b) == IF a < b THEN b ELSE a

\* A second passes, but not past a moment at which something is due:
\* a CLI run ends at its timeout, the trigger polls on time, Airflow ends a
\* deferral and, before it, the execution on time, and a command of a worker
\* ends at its timeout.
Pass ==
    /\ job \in Running => now < runAt + timeout
    /\ phase = "deferred" => now < nextPoll /\ now < until
    /\ phase \in {"submitting", "submitted"} =>
          now < MaxSubmit /\ (limit # NoLimit => now < limit)
    /\ phase \in Working => now < sentAt + CommandTimeout
    /\ phase # "done"
    /\ now' = now + 1
    /\ UNCHANGED <<conf, phase, jobVars, deferVars, workVars>>

-----------------------------------------------------------------------------
(* The job.                                                                *)

StartJob ==
    /\ phase = "submitting" /\ job = "none"
    /\ job' = "first" /\ runAt' = now
    /\ UNCHANGED <<conf, now, phase, endedAt, deferVars, workVars>>

\* A CLI run ends by itself or at its timeout; a usable report is followed by
\* the Markdown run, under a timeout of its own.
EndRun ==
    /\ job \in Running
    /\ \/ /\ job = "first" /\ markdown
          /\ job' = "second" /\ runAt' = now
          /\ UNCHANGED endedAt
       \/ /\ job' = "ended" /\ endedAt' = now
          /\ UNCHANGED runAt
    /\ UNCHANGED <<conf, now, phase, deferVars, workVars>>

HangJob ==
    /\ job \in Running
    /\ job' = "hung"
    /\ UNCHANGED <<conf, now, phase, runAt, endedAt, deferVars, workVars>>

-----------------------------------------------------------------------------
(* The task.                                                               *)

\* submit() returns, some time after the wrapper forked the job.
Submitted ==
    /\ phase = "submitting" /\ job # "none"
    /\ phase' = "submitted" /\ submittedAt' = now
    /\ UNCHANGED <<conf, now, jobVars, deferredAt, until, nextPoll, outage, workVars>>

\* Mutant of JobTime: the Markdown run shares the timeout of the first.
OneRunTime == timeout

\* runs * job["timeout"]
JobTime == IF markdown THEN 2 * timeout ELSE timeout

\* Mutant of DeferTimeout: counted from the deferral.
TimeoutFromNow == Later(1, JobTime + Grace)

\* Mutant of DeferTimeout: no grace.
TimeoutWithoutGrace == Later(1, submittedAt + JobTime - now)

\* SSHAnalyzeHook.defer_timeout()
DeferTimeout == Later(1, submittedAt + JobTime + Grace - now)

\* Mutant of CappedTimeout: Airflow is left to cap it, which Airflow 3 does not.
UncappedTimeout == DeferTimeout

\* Mutant of CappedTimeout: what is left of execution_timeout may be nothing.
TimeoutWithoutMinimum ==
    IF limit = NoLimit THEN DeferTimeout ELSE Earlier(DeferTimeout, limit - now)

\* SparkForensicsOperator._defer_timeout()
CappedTimeout ==
    IF limit = NoLimit THEN DeferTimeout ELSE Later(Earlier(DeferTimeout, limit - now), 1)

Defer ==
    /\ phase = "submitted"
    /\ phase' = "deferred" /\ deferredAt' = now
    /\ until' = now + CappedTimeout
    /\ nextPoll' = now
    /\ UNCHANGED <<conf, now, jobVars, submittedAt, outage, workVars>>

\* A worker goes on with this many commands.
Work(p, n) == phase' = p /\ commands' = n /\ sentAt' = now

\* collect(): it connects, reads stderr and the report, for a Markdown run its
\* exit code, report and stderr too, then cleans up.
CollectCommands == IF markdown THEN 7 ELSE 4

\* abandon(): it connects and sweeps.
AbandonCommands == 2

\* The trigger looks for the exit code, then sleeps for poll_interval.
Poll ==
    /\ phase = "deferred" /\ now >= nextPoll
    /\ IF job = "ended"
       THEN Work("resumed", CollectCommands) /\ UNCHANGED nextPoll
       ELSE nextPoll' = now + poll /\ UNCHANGED <<phase, workVars>>
    /\ UNCHANGED <<conf, now, jobVars, submittedAt, deferredAt, until, outage>>

\* No triggerer runs for a while, or it cannot reach the host.
Outage ==
    /\ phase = "deferred"
    /\ nextPoll' = now + poll
    /\ outage' = TRUE
    /\ UNCHANGED <<conf, now, phase, jobVars, submittedAt, deferredAt, until, workVars>>

\* The deferral times out: resume_execution() abandons the job.
GiveUp ==
    /\ phase = "deferred" /\ now >= until
    /\ Work("gaveUp", AbandonCommands)
    /\ UNCHANGED <<conf, now, jobVars, deferVars>>

\* AirflowTaskTimeout in a worker, the first or a resumed one, and on_kill().
TimeOut ==
    /\ phase \in {"submitting", "submitted", "resumed", "gaveUp"}
    /\ limit # NoLimit /\ now >= limit
    /\ Work("timedOut", AbandonCommands)
    /\ UNCHANGED <<conf, now, jobVars, deferVars>>

\* A command ends, by itself or at its timeout; an error skips some of the rest.
EndCommand ==
    /\ phase \in Working
    /\ \E n \in 0..(commands - 1) : Work(IF n = 0 THEN "done" ELSE phase, n)
    /\ UNCHANGED <<conf, now, jobVars, deferVars>>

Next ==
    \/ Pass \/ StartJob \/ EndRun \/ HangJob
    \/ Submitted \/ Defer \/ Poll \/ Outage \/ GiveUp \/ TimeOut \/ EndCommand

Spec == Init /\ [][Next]_vars

-----------------------------------------------------------------------------
(* Properties.                                                             *)

\* A deferral never ends while a CLI run of its job is within its timeout,
\* the Markdown run's own one included, unless execution_timeout is over.
JobHasItsTime ==
    phase = "gaveUp" /\ job \in Running => limit # NoLimit /\ now >= limit

\* The deferral's timeout is "a backstop for a job that never reports back"
\* (base.py:122): a job that wrote its exit code is seen before, provided that
\* the trigger looks more often than the grace and was not kept from it.
FinishedJobIsSeen ==
    phase = "gaveUp" /\ job = "ended" =>
        outage \/ poll >= Grace \/ (limit # NoLimit /\ now >= limit)

\* "The deferral gives up 120 seconds past timeout (twice timeout with
\* markdown_dest), counted from submission, or at the task's execution_timeout
\* if that comes first" (troubleshooting.md:386), and no later than a second
\* after a worker that was too slow to defer in time.
GivesUpInTime ==
    phase = "deferred" =>
        /\ now <= Later(submittedAt + JobTime + Grace, deferredAt + 1)
        /\ limit # NoLimit => now <= Later(limit, deferredAt + 1)

\* An execution_timeout ends a try that has not deferred, and a deferral a second
\* later.  It does not bound the worker that then collects or abandons the job,
\* but _JOB_COMMAND_TIMEOUT_S does: each of its commands, and those of an
\* on_kill() that cuts it short, takes that long at most.
EndsWithinLimit ==
    limit # NoLimit =>
        /\ phase \in {"submitting", "submitted"} => now <= limit
        /\ phase = "deferred" => now <= limit + 1
        /\ phase \in Working =>
              now <= limit + 1 + (CollectCommands + AbandonCommands) * CommandTimeout

=============================================================================
