--------------------------- MODULE RemoteJob_proofs ---------------------------
(***************************************************************************)
(* Theorems about RemoteJob, for every set of hosts and number of tries.   *)
(***************************************************************************)
EXTENDS RemoteJob, TLAPS

-----------------------------------------------------------------------------
(* Types.                                                                  *)

\* A scope is on some host.
LEMMA ScopeIsSomewhere == \A d \in Scopes : d # NoScope
BY HostAssumption DEF Scopes, NoScope

\* An abandon keeps the types of what it changes.
LEMMA SendAbandonType ==
    ASSUME TypeOK, NEW t \in Tries, NEW h, NEW f \in SUBSET Faults,
           SendAbandon(t, h, f)
    PROVE  HostTypeOK' /\ faults' \in [Tries -> SUBSET Faults]
<1>2. SignalScope(h) => proc' \in [Tries -> ProcStates]
  BY DEF SignalScope, TypeOK, HostTypeOK, ProcStates
<1>3. RemoveScope(h) => dir' \in [Tries -> DirStates]
  BY DEF RemoveScope, TypeOK, HostTypeOK, DirStates
<1>4. proc' \in [Tries -> ProcStates] /\ dir' \in [Tries -> DirStates]
  BY <1>2, <1>3 DEF SendAbandon, SweepScope, SweepScopePartly, TypeOK, HostTypeOK
<1>5. faults' \in [Tries -> SUBSET Faults]
  BY DEF SendAbandon, Fault, Faults, TypeOK
<1> QED BY <1>4, <1>5 DEF SendAbandon, TypeOK, HostTypeOK

\* Abandoning a job, known or not, keeps the types.
LEMMA AbandonType ==
    ASSUME TypeOK, NEW t \in Tries, NEW job, NEW f \in SUBSET Faults, Abandon(t, job, f)
    PROVE  HostTypeOK' /\ faults' \in [Tries -> SUBSET Faults]
BY SendAbandonType DEF Abandon

\* So does abandoning the job in XCom, whether it can be read or not.
LEMMA AbandonSubmittedType ==
    ASSUME TypeOK, NEW t \in Tries, AbandonSubmitted(t)
    PROVE  HostTypeOK' /\ faults' \in [Tries -> SUBSET Faults]
<1>1. {} \in SUBSET Faults /\ {"xcomUnread"} \in SUBSET Faults
  BY DEF Faults
<1>2. CASE Abandon(t, xcom, {})
  BY <1>1, <1>2, AbandonType
<1>3. CASE Abandon(t, NoTry, {"xcomUnread"})
  BY <1>1, <1>3, AbandonType
<1> QED BY <1>2, <1>3 DEF AbandonSubmitted

\* Leaving the job alone does, too.
LEMMA LeaveJobType ==
    ASSUME TypeOK, NEW t \in Tries, LeaveJob(t)
    PROVE  HostTypeOK' /\ faults' \in [Tries -> SUBSET Faults]
BY DEF LeaveJob, Fault, Faults, hostVars, jobVars, TypeOK, HostTypeOK

\* Every step of a worker keeps the types.
LEMMA TypeStepWorker ==
    ASSUME TypeOK, NEW t \in Tries, WorkerStep(t)
    PROVE  TypeOK'
<1> USE DEF TypeOK, Goto, TryStates, Live, Ended
<1>1. CASE LocateLogs(t)
  BY <1>1 DEF LocateLogs, HostTypeOK, hostVars, jobVars
<1>2. CASE PrepareScope(t)
  <2>1. SweepScope(hook[t].scope) \/ SweepScopePartly(hook[t].scope) \/ UNCHANGED <<proc, dir>>
    BY <1>2 DEF PrepareScope
  <2>2. proc' \in [Tries -> ProcStates] /\ dir' \in [Tries -> DirStates]
    BY <2>1 DEF SweepScope, SweepScopePartly, SignalScope, RemoveScope,
                HostTypeOK, ProcStates, DirStates
  <2> QED BY <1>2, <2>2 DEF PrepareScope, HostTypeOK
<1>3. CASE Submit(t)
  <2>1. hook[t].scope \in Scopes \cup {NoScope}
    BY DEF Backends, NoBackend
  <2> QED BY <1>3, <2>1 DEF Submit, SendSubmit, HostTypeOK, hostVars, jobVars, LaunchStates
<1>4. CASE SubmitAcked(t)
  BY <1>4 DEF SubmitAcked, HostTypeOK, hostVars, jobVars
<1>5. CASE SubmitFails(t)
  BY <1>5 DEF SubmitFails, HostTypeOK, hostVars, jobVars, Fault, Faults
<1>6. CASE PushJob(t)
  BY <1>6 DEF PushJob, HostTypeOK, hostVars, jobVars
<1>7. CASE Defer(t)
  BY <1>7 DEF Defer, HostTypeOK, hostVars, jobVars, Fault, Faults, NoTry
<1>8. CASE AbandonQuietly(t)
  <2>1. HostTypeOK' /\ faults' \in [Tries -> SUBSET Faults]
    BY <1>8, AbandonType DEF AbandonQuietly
  <2> QED BY <1>8, <2>1 DEF AbandonQuietly
<1>9. CASE ResumeFails(t)
  <2>1. HostTypeOK' /\ faults' \in [Tries -> SUBSET Faults]
    BY <1>9, AbandonSubmittedType, LeaveJobType DEF ResumeFails
  <2> QED BY <1>9, <2>1 DEF ResumeFails
<1>10. CASE ExecuteComplete(t)
  BY <1>10 DEF ExecuteComplete, HostTypeOK, hostVars, jobVars
<1>11. CASE LoseTrack(t)
  <2>1. HostTypeOK' /\ faults' \in [Tries -> SUBSET Faults]
    BY <1>11, AbandonType DEF LoseTrack
  <2> QED BY <1>11, <2>1 DEF LoseTrack
<1>12. CASE Collect(t)
  BY <1>12 DEF Collect, HostTypeOK, hostVars, jobVars, Fault, Faults
<1>13. CASE CleanupJob(t)
  BY <1>13 DEF CleanupJob, RemoveJobDir, HostTypeOK, hostVars, jobVars, Fault, Faults, DirStates
<1>14. CASE HandleReport(t)
  BY <1>14 DEF HandleReport, HostTypeOK, hostVars, jobVars
<1>15. CASE OnKill(t)
  <2>1. HostTypeOK' /\ faults' \in [Tries -> SUBSET Faults]
    <3>1. CASE StopCli(t)
      BY <3>1 DEF StopCli, jobVars, HostTypeOK, Fault, Faults
    <3> QED BY <1>15, <3>1, AbandonType, AbandonSubmittedType, LeaveJobType DEF OnKill
  <2> QED BY <1>15, <2>1 DEF OnKill
<1>16. CASE RunLocally(t) \/ EndSync(t)
  BY <1>16 DEF RunLocally, EndSync, HostTypeOK, hostVars, jobVars, Fault, Faults
<1>18. CASE StartCli(t)
  <2>1. hook[t].scope.host \in Hosts \cup {NoHost}
    BY DEF Backends, NoBackend, Scopes, NoScope
  <2> QED BY <1>18, <2>1 DEF StartCli, HostTypeOK, jobVars
<1>19. CASE ReadReport(t) \/ ReadMarkdown(t)
  <2>1. OutputOf(t) \in Outputs /\ "nothing" \in Outputs
    BY DEF OutputOf, Outputs
  <2> QED BY <1>19, <2>1 DEF ReadReport, ReadMarkdown, HostTypeOK, hostVars, jobVars
<1>17. CASE CannotCollect(t)
  <2>1. HostTypeOK' /\ faults' \in [Tries -> SUBSET Faults]
    BY <1>17, LeaveJobType DEF CannotCollect
  <2> QED BY <1>17, <2>1 DEF CannotCollect
<1> QED BY <1>1, <1>2, <1>3, <1>4, <1>5, <1>6, <1>7, <1>8, <1>9, <1>10, <1>11, <1>12,
           <1>13, <1>14, <1>15, <1>16, <1>17, <1>18, <1>19 DEF WorkerStep

\* Every step of Airflow keeps the types.
LEMMA TypeStepAirflow ==
    ASSUME TypeOK, NEW t \in Tries, AirflowStep(t)
    PROVE  TypeOK'
<1> USE DEF TypeOK, Goto, TryStates, Live, Ended, HostTypeOK, hostVars, jobVars
<1>1. CASE StartTry(t)
  BY <1>1 DEF StartTry, RenderBackend, NoTry
<1>2. ASSUME NEW e \in Events, ResumeWith(t, e) PROVE TypeOK'
  BY <1>2 DEF ResumeWith, RenderBackend
<1>3. CASE TriggerFires(t)
  BY <1>3, <1>2 DEF TriggerFires, Events
<1>4. CASE TriggerGivesUp(t)
  BY <1>4, <1>2 DEF TriggerGivesUp, Events
<1>5. CASE DeferralFails(t)
  BY <1>5, <1>2 DEF DeferralFails, Events
<1>6. CASE ClearDeferred(t)
  BY <1>6 DEF ClearDeferred, Fault, Faults
<1>7. CASE Kill(t)
  BY <1>7 DEF Kill
<1>8. CASE Crash(t)
  BY <1>8 DEF Crash, Fault, Faults
<1> QED BY <1>1, <1>3, <1>4, <1>5, <1>6, <1>7, <1>8 DEF AirflowStep

\* Every step of a host by itself keeps the types.
LEMMA TypeStepHost ==
    ASSUME TypeOK, UNCHANGED tryVars,
           (\E t \in Tries : HostStep(t)) \/ (\E h \in Hosts : Reboot(h))
    PROVE  TypeOK'
<1> USE DEF TypeOK, HostTypeOK, tryVars, LaunchStates, ProcStates, DirStates, Outputs
<1>1. ASSUME NEW t \in Tries, HostStep(t) PROVE HostTypeOK'
  BY <1>1 DEF HostStep, ForkJob, RefuseJob, RecordPid, FinishJob, JobDies, CliExits, jobVars
<1>2. ASSUME NEW h \in Hosts, Reboot(h) PROVE HostTypeOK'
  BY <1>2 DEF Reboot
<1> QED BY <1>1, <1>2

\* Type correctness of the model.
THEOREM TypeCorrect == Spec => []TypeOK
<1>1. Init => TypeOK
  BY DEF Init, HostInit, TypeOK, HostTypeOK, NoTry, LaunchStates, ProcStates, DirStates, Outputs,
         TryStates, Live, Ended, Events
<1>2. TypeOK /\ [Next]_vars => TypeOK'
  <2> SUFFICES ASSUME TypeOK, [Next]_vars PROVE TypeOK'
    OBVIOUS
  <2>1. CASE UNCHANGED vars
    BY <2>1 DEF vars, hostVars, jobVars, tryVars, TypeOK, HostTypeOK
  <2> QED BY <2>1, TypeStepWorker, TypeStepAirflow, TypeStepHost DEF Next
<1> QED BY <1>1, <1>2, PTL DEF Spec

-----------------------------------------------------------------------------
(* The inductive invariants.                                               *)

Active == Live \cup {"onkill", "deferred"}

\* The tries start one after another.
InTurn == \A t \in Tries : t > cur => pc[t] = "idle"

\* Without overlap, only the current try has a worker or a trigger.
OneActive == \A t \in Tries : pc[t] \in Active => t = cur

\* Nothing of a job exists before its submit command reaches the host.
NotSubmittedYet ==
    \A t \in Tries :
        /\ pc[t] \in {"idle", "locate", "sync", "analyze", "prepare", "submit"} =>
               launch[t] = "unsent" /\ read[t] = "nothing"
        /\ launch[t] \in {"unsent", "sent", "refused"} => dir[t] = "absent" /\ proc[t] = "none"

\* A job with an exit code, and one whose exit code the trigger has read, runs
\* no more and is not launched again.
JobEnded ==
    \A t \in Tries :
        /\ dir[t] = "exit" => proc[t] # "running" /\ wrote[t] # "nothing"
        /\ \/ pc[t] \in {"collect", "reading", "rereading", "cleanup"}
           \/ pc[t] = "resume" /\ event[t] \notin {"lost", "fail"}
           => proc[t] # "running" /\ launch[t] # "sent"

\* A synchronous analysis belongs to a try without a job, and is alive after
\* the end of that try only with a fault.
Foreground ==
    \A t \in Tries :
        cli[t] # NoHost =>
            /\ launch[t] = "unsent"
            /\ pc[t] \in {"analyze", "onkill"} \cup Ended
            /\ pc[t] \in Ended => faults[t] # {}

\* A job writes its output once, as it ends.
WritesOnce == \A t \in Tries : proc[t] \in {"none", "running"} => wrote[t] = "nothing"

\* The exit code the trigger brought is the one in the job's directory, which
\* stays as the job left it until collect() has read all of it.
Delivered(t) ==
    /\ dir[t] = "exit"
    /\ \/ event[t] = "unusable" /\ wrote[t] = "error"
       \/ event[t] = "usable" /\ wrote[t] \in {"report", "missing"}

OutputKept ==
    \A t \in Tries :
        /\ pc[t] = "resume" => event[t] \in {"lost", "fail"} \/ Delivered(t)
        /\ pc[t] \in {"collect", "reading", "rereading"} => Delivered(t)
        /\ read[t] # "nothing" => /\ proc[t] # "running"
                                 /\ launch[t] # "sent"
                                 /\ read[t] = wrote[t]

\* A running job can be found by the next sweep: it has its pid file, or its
\* launcher is about to write it.
RunningIsRecorded ==
    \A t \in Tries : proc[t] = "running" => \/ launch[t] = "forked" /\ dir[t] = "made"
                                            \/ launch[t] = "recorded" /\ dir[t] = "pid"

\* Where one job is being launched, no other runs or is being launched.
LaunchedAlone ==
    \A s, t \in Tries :
        InFlight(t) /\ at[s] = at[t] /\ s # t => proc[s] # "running" /\ ~InFlight(s)

\* From prepare_scope_command on, the scope holds no other job of the task
\* instance.
ScopeOwned ==
    \A s, t \in Tries :
        /\ pc[t] = "submit" /\ at[s] = hook[t].scope => dir[s] = "absent" /\ ~InFlight(s)
        /\ pc[t] \in Waiting /\ at[s] = at[t] /\ s # t => dir[s] = "absent" /\ ~InFlight(s)

\* A worker has a backend and kills no job but its try's own; a job that was
\* acknowledged has its pid file.
Acked == {"push", "defer", "deferred", "abandon", "resume", "giveup",
          "collect", "reading", "rereading", "cleanup", "report"}

JobNamed ==
    \A t \in Tries :
        /\ pc[t] # "idle" => hook[t] \in Backends
        /\ at[t] = NoScope => launch[t] = "unsent"
        /\ killJob[t] \in {NoTry, t}
        /\ pc[t] \in Acked => launch[t] = "recorded"

\* Without overlap, XCom names an active try's own job from the push on, and
\* until then the hook at hand is the one that submitted it.
JobKnown ==
    \A t \in Tries :
        /\ pc[t] \in Active => xcom \in {NoTry, t}
        /\ pc[t] \in Acked \ {"push", "abandon"} => xcom = t
        /\ pc[t] \in {"acking", "push", "abandon", "onkill"} /\ xcom = NoTry =>
               launch[t] = "unsent" \/ hook[t].scope = at[t]

\* With overlap, XCom may name another try's job, but one that was submitted.
XComSent == xcom # NoTry => at[xcom] # NoScope

\* The job a worker may still abandon has its pid file if it runs, or is being
\* launched.
Findable(t) ==
    proc[t] = "running" => \/ launch[t] = "forked" /\ dir[t] = "made"
                           \/ launch[t] = "recorded" /\ dir[t] = "pid"

JobsFindable == \A t \in Tries : pc[t] \in Active => Findable(t)

\* NothingLeftBehind, and nothing that could still come.
Clean(t) == proc[t] # "running" /\ dir[t] = "absent" /\ ~InFlight(t)

EndsClean == \A t \in Tries : pc[t] \in Ended \cup {"report"} /\ faults[t] = {} => Clean(t)

-----------------------------------------------------------------------------
(* What the groups of steps do to the variables the invariants relate.     *)

\* A sweep only stops running jobs and only removes directories; it removes
\* no directory of a job it leaves running, except a job without a pid file.
Swept ==
    /\ UNCHANGED <<at, launch, wrote>>
    /\ \A s \in Tries : cli'[s] \in {cli[s], NoHost}
    /\ \A s \in Tries : proc'[s] = proc[s] \/ (proc[s] = "running" /\ proc'[s] = "stopping")
    /\ \A s \in Tries : dir'[s] = dir[s] \/ dir'[s] = "absent"
    /\ \A s \in Tries : dir'[s] # dir[s] =>
            (InOrder => ~InFlight(s)) /\ (dir[s] = "pid" => proc'[s] # "running")

\* _SWEEP_SCOPE on one host, whole or cut short by a failing rm, only sweeps.
LEMMA SweepScopeSweeps ==
    ASSUME TypeOK, NEW h, CanSweep(h), UNCHANGED <<at, launch, wrote, cli>>,
           SweepScope(h) \/ SweepScopePartly(h)
    PROVE  Swept
<1> USE DEF TypeOK, HostTypeOK
<1>1. \A s \in Tries : proc'[s] = IF Sweepable(s, h) THEN "stopping" ELSE proc[s]
  BY DEF SweepScope, SweepScopePartly, SignalScope
<1>2. \A s \in Tries : dir'[s] # dir[s] => at[s] = h /\ dir'[s] = "absent"
  BY DEF SweepScope, SweepScopePartly, RemoveScope
<1>3. \A s \in Tries : proc'[s] = proc[s] \/ (proc[s] = "running" /\ proc'[s] = "stopping")
  BY <1>1 DEF Sweepable
<1>4. ASSUME NEW s \in Tries, dir'[s] # dir[s]
      PROVE  (InOrder => ~InFlight(s)) /\ (dir[s] = "pid" => proc'[s] # "running")
  <2>1. InOrder => ~InFlight(s)
    BY <1>2, <1>4 DEF CanSweep, Settled
  <2>2. dir[s] = "pid" /\ proc[s] = "running" => Sweepable(s, h)
    BY <1>2, <1>4 DEF Sweepable
  <2> QED BY <1>1, <1>3, <2>1, <2>2
<1> QED BY <1>2, <1>3, <1>4 DEF Swept

\* An abandon sweeps one host at most.
LEMMA AbandonSweeps ==
    ASSUME TypeOK, NEW t \in Tries, NEW job, NEW f, Abandon(t, job, f)
    PROVE  Swept
<1>1. PICK h : SendAbandon(t, h, f)
  BY DEF Abandon
<1>2. CASE UNCHANGED <<proc, dir>>
  BY <1>1, <1>2 DEF SendAbandon, Swept
<1>3. CASE CanSweep(h) /\ (SweepScope(h) \/ SweepScopePartly(h))
  BY <1>1, <1>3, SweepScopeSweeps DEF SendAbandon
<1> QED BY <1>1, <1>2, <1>3 DEF SendAbandon

\* Leaving the job alone is a sweep of nothing.
LEMMA LeaveJobSweeps ==
    ASSUME TypeOK, NEW t \in Tries, LeaveJob(t)
    PROVE  Swept
BY DEF LeaveJob, Swept, hostVars, jobVars

\* The steps that may sweep end the try, or begin its submission.
Sweeping(t) == PrepareScope(t) \/ AbandonQuietly(t) \/ ResumeFails(t) \/ LoseTrack(t) \/ OnKill(t)

\* Every step that sends a sweep only sweeps, and only the tries' hosts.
LEMMA SweepingSweeps ==
    ASSUME TypeOK, NEW t \in Tries, Sweeping(t)
    PROVE  /\ Swept
           /\ pc[t] \in {"prepare", "abandon", "resume", "giveup", "onkill"}
           /\ \/ pc' = [pc EXCEPT ![t] = "failed"]
              \/ /\ pc[t] = "prepare"
                 /\ pc' = [pc EXCEPT ![t] = "submit"]
                 /\ \A s \in Tries : at[s] = hook[t].scope =>
                        dir'[s] = "absent" /\ (InOrder => ~InFlight(s))
           /\ UNCHANGED <<cur, hook, event, read>>
<1> USE DEF TypeOK, Goto
<1>1. CASE PrepareScope(t)
  <2>1. Swept
    <3>1. CASE UNCHANGED <<proc, dir>>
      BY <1>1, <3>1 DEF PrepareScope, Swept
    <3>2. CASE CanSweep(hook[t].scope) /\ (SweepScope(hook[t].scope) \/ SweepScopePartly(hook[t].scope))
      BY <1>1, <3>2, SweepScopeSweeps DEF PrepareScope
    <3> QED BY <1>1, <3>1, <3>2 DEF PrepareScope
  <2>2. pc' = [pc EXCEPT ![t] = "failed"] \/
        (CanSweep(hook[t].scope) /\ RemoveScope(hook[t].scope) /\ pc' = [pc EXCEPT ![t] = "submit"])
    BY <1>1 DEF PrepareScope, SweepScope
  <2> QED BY <1>1, <2>1, <2>2 DEF PrepareScope, CanSweep, Settled, RemoveScope
<1>2. CASE AbandonQuietly(t)
  BY <1>2, AbandonSweeps DEF AbandonQuietly
<1>3. CASE ResumeFails(t)
  BY <1>3, AbandonSweeps, LeaveJobSweeps DEF ResumeFails, AbandonSubmitted
<1>4. CASE LoseTrack(t)
  BY <1>4, AbandonSweeps DEF LoseTrack
<1>5. CASE OnKill(t)
  <2>1. StopCli(t) => Swept
    BY DEF StopCli, Swept, jobVars, HostTypeOK
  <2> QED BY <1>5, <2>1, AbandonSweeps, LeaveJobSweeps DEF OnKill, AbandonSubmitted
<1> QED BY <1>1, <1>2, <1>3, <1>4, <1>5 DEF Sweeping

\* Every step of a try but its start is a step of an active one.
LEMMA ActiveSteps ==
    ASSUME TypeOK, NEW t \in Tries, WorkerStep(t) \/ AirflowStep(t), ~StartTry(t)
    PROVE  pc[t] \in Active /\ cur' = cur /\ \E s \in TryStates : pc' = [pc EXCEPT ![t] = s]
<1> USE DEF Goto, Active, Live, Ended, TryStates
<1>1. CASE WorkerStep(t)
  BY <1>1 DEF WorkerStep, LocateLogs, RunLocally, StartCli, EndSync, PrepareScope, Submit, SubmitAcked, SubmitFails, PushJob,
              Defer, AbandonQuietly, ResumeFails, ExecuteComplete, CannotCollect, LoseTrack, Collect, ReadReport, ReadMarkdown,
              CleanupJob, HandleReport, OnKill
<1>2. CASE AirflowStep(t)
  BY <1>2 DEF AirflowStep, TriggerFires, TriggerGivesUp, DeferralFails, ResumeWith,
              ClearDeferred, Kill, Crash
<1> QED BY <1>1, <1>2

\* The steps of a try that change no job on a host.
LEMMA LocalSteps ==
    ASSUME NEW t \in Tries, WorkerStep(t) \/ AirflowStep(t),
           ~Sweeping(t), ~Submit(t), ~CleanupJob(t)
    PROVE  UNCHANGED jobVars
<1>1. CASE WorkerStep(t)
  BY <1>1 DEF WorkerStep, Sweeping, LocateLogs, RunLocally, StartCli, EndSync, SubmitAcked, SubmitFails, PushJob, Defer,
              ExecuteComplete, CannotCollect, LeaveJob, Collect, ReadReport, ReadMarkdown, HandleReport, hostVars
<1>2. CASE AirflowStep(t)
  BY <1>2 DEF AirflowStep, StartTry, TriggerFires, TriggerGivesUp, DeferralFails, ResumeWith,
              ClearDeferred, Kill, Crash, hostVars
<1> QED BY <1>1, <1>2

\* Only the start of a synchronous analysis adds one, and only a try's own kill
\* or a sweep of nothing ends one.
LEMMA CliSteps ==
    ASSUME TypeOK, NEW t \in Tries, WorkerStep(t) \/ AirflowStep(t)
    PROVE  /\ \A s \in Tries : s # t => cli'[s] = cli[s]
           /\ StartCli(t) \/ OnKill(t) \/ cli' = cli
<1> USE DEF TypeOK, HostTypeOK
<1>1. CASE StartCli(t)
  BY <1>1 DEF StartCli
<1>2. CASE OnKill(t)
  BY <1>2 DEF OnKill, StopCli, LeaveJob, hostVars, AbandonSubmitted, Abandon, SendAbandon
<1>3. CASE PrepareScope(t) \/ AbandonQuietly(t) \/ ResumeFails(t) \/ LoseTrack(t)
  BY <1>3 DEF PrepareScope, AbandonQuietly, ResumeFails, LoseTrack,
              LeaveJob, hostVars, AbandonSubmitted, Abandon, SendAbandon
<1>4. CASE Submit(t) \/ CleanupJob(t)
  BY <1>4 DEF Submit, SendSubmit, CleanupJob, RemoveJobDir, hostVars
<1>5. CASE LocateLogs(t) \/ RunLocally(t) \/ EndSync(t) \/ SubmitAcked(t) \/ SubmitFails(t)
           \/ PushJob(t) \/ Defer(t) \/ ExecuteComplete(t) \/ CannotCollect(t) \/ Collect(t)
           \/ ReadReport(t) \/ ReadMarkdown(t) \/ HandleReport(t)
  BY <1>5 DEF LocateLogs, RunLocally, EndSync, SubmitAcked, SubmitFails, PushJob, Defer,
              ExecuteComplete, CannotCollect, LeaveJob, Collect, ReadReport, ReadMarkdown,
              HandleReport, hostVars
<1>6. CASE AirflowStep(t)
  BY <1>6 DEF AirflowStep, StartTry, TriggerFires, TriggerGivesUp, DeferralFails, ResumeWith,
              ClearDeferred, Kill, Crash, hostVars
<1> QED BY <1>1, <1>2, <1>3, <1>4, <1>5, <1>6 DEF WorkerStep

-----------------------------------------------------------------------------
(* Whatever the schedule: what a try's own steps imply.                    *)

\* No try starts before its turn, nor a second time.
LEMMA InTurnStep ==
    ASSUME TypeOK, InTurn, [Next]_vars
    PROVE  InTurn'
<1> USE DEF TypeOK, InTurn
<1>1. Tries \subseteq Nat /\ cur \in Nat
  BY TriesAssumption DEF Tries, NoTry
<1>2. ASSUME NEW t \in Tries, StartTry(t) PROVE InTurn'
  BY <1>1, <1>2 DEF StartTry, Goto
<1>3. ASSUME NEW t \in Tries, WorkerStep(t) \/ AirflowStep(t), ~StartTry(t) PROVE InTurn'
  <2>1. pc[t] # "idle" /\ cur' = cur /\ \E s \in TryStates : pc' = [pc EXCEPT ![t] = s]
    BY <1>3, ActiveSteps DEF Active, Live
  <2> QED BY <2>1
<1>4. CASE UNCHANGED tryVars
  BY <1>4 DEF tryVars
<1>5. CASE UNCHANGED vars
  BY <1>5 DEF vars, tryVars
<1> QED BY <1>2, <1>3, <1>4, <1>5 DEF Next

\* A try that starts has not started before.
LEMMA StartsIdle ==
    ASSUME TypeOK, InTurn, NEW t \in Tries, StartTry(t)
    PROVE  pc[t] = "idle"
BY TriesAssumption DEF TypeOK, InTurn, StartTry, Tries, NoTry

\* A try has nothing on a host before it sends its submit command.
LEMMA NotSubmittedYetStep ==
    ASSUME TypeOK, InTurn, NotSubmittedYet, [Next]_vars
    PROVE  NotSubmittedYet'
<1> USE DEF TypeOK, HostTypeOK, NotSubmittedYet
<1>1. ASSUME NEW t \in Tries, Sweeping(t) PROVE NotSubmittedYet'
  BY <1>1, SweepingSweeps DEF Swept
<1>2. ASSUME NEW t \in Tries, Submit(t) PROVE NotSubmittedYet'
  BY <1>2 DEF Submit, SendSubmit, Goto, hostVars, jobVars
<1>3. ASSUME NEW t \in Tries, CleanupJob(t) PROVE NotSubmittedYet'
  BY <1>3 DEF CleanupJob, RemoveJobDir, Goto, hostVars, jobVars
<1>4. ASSUME NEW t \in Tries, StartTry(t) PROVE NotSubmittedYet'
  <2>1. pc[t] = "idle"
    BY <1>4, StartsIdle
  <2> QED BY <1>4, <2>1 DEF StartTry, Goto, hostVars, jobVars
<1>5. ASSUME NEW t \in Tries, WorkerStep(t) \/ AirflowStep(t), ~StartTry(t),
             ~Sweeping(t), ~Submit(t), ~CleanupJob(t)
      PROVE  NotSubmittedYet'
  <2>1. UNCHANGED jobVars
    BY <1>5, LocalSteps
  <2>2. \E s \in TryStates :
          /\ pc' = [pc EXCEPT ![t] = s]
          /\ s \in {"idle", "locate", "sync", "analyze", "prepare", "submit"} =>
                 pc[t] \in {"locate", "sync"} /\ read' = read
          /\ \A u \in Tries : u # t => read'[u] = read[u]
    <3>1. CASE WorkerStep(t)
      BY <1>5, <3>1 DEF WorkerStep, Sweeping, LocateLogs, RunLocally, StartCli, EndSync, SubmitAcked, SubmitFails, PushJob, Defer,
                   ExecuteComplete, CannotCollect, LeaveJob, Collect, ReadReport, ReadMarkdown, HandleReport, Goto, TryStates, Live, Ended
    <3>2. CASE AirflowStep(t)
      BY <1>5, <3>2 DEF AirflowStep, TriggerFires, TriggerGivesUp, DeferralFails, ResumeWith,
                   ClearDeferred, Kill, Crash, Goto, TryStates, Live, Ended
    <3> QED BY <1>5, <3>1, <3>2
  <2> QED BY <2>1, <2>2 DEF hostVars, jobVars
<1>6. ASSUME NEW t \in Tries, HostStep(t), UNCHANGED tryVars PROVE NotSubmittedYet'
  BY <1>6 DEF HostStep, ForkJob, RefuseJob, RecordPid, FinishJob, JobDies, CliExits, jobVars, tryVars
<1>7. ASSUME NEW h \in Hosts, Reboot(h), UNCHANGED tryVars PROVE NotSubmittedYet'
  BY <1>7 DEF Reboot, InFlight, tryVars
<1>8. CASE UNCHANGED vars
  BY <1>8 DEF vars, hostVars, jobVars, tryVars
<1> QED BY <1>1, <1>2, <1>3, <1>4, <1>5, <1>6, <1>7, <1>8 DEF Next

\* An ended job stays ended.
LEMMA JobEndedStep ==
    ASSUME TypeOK, TypeOK', InTurn, NotSubmittedYet, JobEnded, [Next]_vars
    PROVE  JobEnded'
<1> USE DEF TypeOK, HostTypeOK, JobEnded
<1>1. ASSUME NEW t \in Tries, Sweeping(t) PROVE JobEnded'
  BY <1>1, SweepingSweeps DEF Swept
<1>2. ASSUME NEW t \in Tries, Submit(t) PROVE JobEnded'
  BY <1>2 DEF Submit, SendSubmit, NotSubmittedYet, Goto, hostVars, jobVars
<1>3. ASSUME NEW t \in Tries, CleanupJob(t) PROVE JobEnded'
  BY <1>3 DEF CleanupJob, RemoveJobDir, Goto, hostVars, jobVars
<1>4. ASSUME NEW t \in Tries, WorkerStep(t) \/ AirflowStep(t),
             ~Sweeping(t), ~Submit(t), ~CleanupJob(t)
      PROVE  JobEnded'
  <2>1. UNCHANGED jobVars
    BY <1>4, LocalSteps
  <2>2. CASE WorkerStep(t)
    BY <1>4, <2>1, <2>2
       DEF WorkerStep, Sweeping, LocateLogs, RunLocally, StartCli, EndSync, SubmitAcked, SubmitFails, PushJob, Defer,
           ExecuteComplete, CannotCollect, Collect, ReadReport, ReadMarkdown, HandleReport, Goto, hostVars, jobVars
  <2>3. CASE AirflowStep(t)
    BY <2>1, <2>3
       DEF AirflowStep, StartTry, TriggerFires, TriggerGivesUp, DeferralFails, ResumeWith,
           ClearDeferred, Kill, Crash, Goto, hostVars, jobVars, NotSubmittedYet
  <2> QED BY <1>4, <2>2, <2>3
<1>5. ASSUME NEW t \in Tries, HostStep(t), UNCHANGED tryVars PROVE JobEnded'
  BY <1>5 DEF HostStep, ForkJob, RefuseJob, RecordPid, FinishJob, JobDies, CliExits, jobVars, tryVars,
              NotSubmittedYet
<1>6. ASSUME NEW h \in Hosts, Reboot(h), UNCHANGED tryVars PROVE JobEnded'
  BY <1>6 DEF Reboot, InFlight, tryVars
<1>7. CASE UNCHANGED vars
  BY <1>7 DEF vars, hostVars, jobVars, tryVars
<1> QED BY <1>1, <1>2, <1>3, <1>4, <1>5, <1>6, <1>7 DEF Next

\* No other try's step touches what a worker has, and none forgets a job.
LEMMA JobNamedStep ==
    ASSUME TypeOK, InTurn, JobNamed, [Next]_vars
    PROVE  JobNamed'
<1> USE DEF TypeOK, HostTypeOK, JobNamed
<1>1. ASSUME NEW t \in Tries, Sweeping(t) PROVE JobNamed'
  <2>1. UNCHANGED <<at, launch, hook, killJob>>
    BY <1>1, SweepingSweeps
       DEF Swept, Sweeping, PrepareScope, AbandonQuietly, ResumeFails, LoseTrack, OnKill
  <2>2. pc[t] # "idle" /\ \E e \in {"failed", "submit"} : pc' = [pc EXCEPT ![t] = e]
    BY <1>1, SweepingSweeps
  <2> QED BY <2>1, <2>2 DEF Acked
<1>2. ASSUME NEW t \in Tries, Submit(t) PROVE JobNamed'
  <2>1. hook[t].scope # NoScope
    BY <1>2, ScopeIsSomewhere DEF Submit, Backends
  <2> QED BY <1>2, <2>1 DEF Submit, SendSubmit, Goto, hostVars, jobVars, Acked
<1>3. ASSUME NEW t \in Tries, WorkerStep(t) \/ AirflowStep(t), ~Sweeping(t), ~Submit(t)
      PROVE  JobNamed'
  <2>1. UNCHANGED <<at, launch>>
    BY <1>3, LocalSteps DEF CleanupJob, RemoveJobDir, hostVars, jobVars
  <2>2. CASE WorkerStep(t)
    BY <1>3, <2>1, <2>2
       DEF WorkerStep, Sweeping, LocateLogs, RunLocally, StartCli, EndSync, SubmitAcked, SubmitFails, PushJob, Defer,
           ExecuteComplete, CannotCollect, Collect, ReadReport, ReadMarkdown, CleanupJob, HandleReport, Goto, Acked
  <2>3. ASSUME RenderBackend(t), UNCHANGED killJob,
               Goto(t, "locate") \/ (pc[t] = "deferred" /\ Goto(t, "resume"))
        PROVE  JobNamed'
    BY <2>1, <2>3 DEF RenderBackend, Goto, Acked
  <2>4. CASE ClearDeferred(t) \/ Kill(t) \/ Crash(t)
    BY <2>1, <2>4 DEF ClearDeferred, Kill, Crash, Goto, Acked, Live
  <2>5. CASE AirflowStep(t)
    BY <2>3, <2>4, <2>5
       DEF AirflowStep, StartTry, TriggerFires, TriggerGivesUp, DeferralFails, ResumeWith
  <2> QED BY <1>3, <2>2, <2>5
<1>4. ASSUME NEW t \in Tries, HostStep(t), UNCHANGED tryVars PROVE JobNamed'
  BY <1>4 DEF HostStep, ForkJob, RefuseJob, RecordPid, FinishJob, JobDies, CliExits, jobVars, tryVars, Acked
<1>5. ASSUME NEW h \in Hosts, Reboot(h), UNCHANGED tryVars PROVE JobNamed'
  BY <1>5 DEF Reboot, InFlight, tryVars
<1>6. CASE UNCHANGED vars
  BY <1>6 DEF vars, hostVars, jobVars, tryVars
<1> QED BY <1>1, <1>2, <1>3, <1>4, <1>5, <1>6 DEF Next

\* A job that has not ended has written nothing.
LEMMA WritesOnceStep ==
    ASSUME TypeOK, NotSubmittedYet, WritesOnce, [Next]_vars
    PROVE  WritesOnce'
<1> USE DEF TypeOK, HostTypeOK, WritesOnce
<1>1. ASSUME NEW t \in Tries, Sweeping(t) PROVE WritesOnce'
  BY <1>1, SweepingSweeps DEF Swept
<1>2. ASSUME NEW t \in Tries, Submit(t) \/ CleanupJob(t) PROVE WritesOnce'
  BY <1>2 DEF Submit, SendSubmit, CleanupJob, RemoveJobDir, hostVars, jobVars
<1>3. ASSUME NEW t \in Tries, WorkerStep(t) \/ AirflowStep(t),
             ~Sweeping(t), ~Submit(t), ~CleanupJob(t)
      PROVE  WritesOnce'
  BY <1>3, LocalSteps DEF hostVars, jobVars
<1>4. ASSUME NEW t \in Tries, HostStep(t) PROVE WritesOnce'
  BY <1>4 DEF HostStep, ForkJob, RefuseJob, RecordPid, FinishJob, JobDies, CliExits, jobVars, NotSubmittedYet
<1>5. ASSUME NEW h \in Hosts, Reboot(h) PROVE WritesOnce'
  BY <1>5 DEF Reboot
<1>6. CASE UNCHANGED vars
  BY <1>6 DEF vars, hostVars, jobVars
<1> QED BY <1>1, <1>2, <1>3, <1>4, <1>5, <1>6 DEF Next

\* A fault is recorded.
LEMMA FaultRecorded ==
    ASSUME TypeOK, NEW t \in Tries, NEW f, NEW x \in f, Fault(t, f)
    PROVE  faults'[t] # {}
BY DEF TypeOK, Fault

\* A synchronous analysis never outlives its try unnoticed.
LEMMA ForegroundStep ==
    ASSUME TypeOK, InTurn, NotSubmittedYet, Foreground, [Next]_vars
    PROVE  Foreground'
<1> USE DEF TypeOK, HostTypeOK, Foreground
<1>1. ASSUME NEW t \in Tries, WorkerStep(t) \/ AirflowStep(t), StartCli(t) PROVE Foreground'
  <2>1. /\ launch[t] = "unsent" /\ UNCHANGED launch
        /\ cli'[t] # NoHost => pc'[t] = "analyze"
        /\ \A s \in Tries : s # t => cli'[s] = cli[s] /\ pc'[s] = pc[s]
        /\ UNCHANGED faults
    BY <1>1 DEF StartCli, NotSubmittedYet, Goto, jobVars, Ended
  <2> QED BY <2>1 DEF Ended
<1>2. ASSUME NEW t \in Tries, WorkerStep(t) \/ AirflowStep(t), ~StartCli(t) PROVE Foreground'
  <2>1. \A s \in Tries : cli'[s] # NoHost => cli'[s] = cli[s]
    <3>1. OnKill(t) => Swept
      BY SweepingSweeps DEF Sweeping
    <3> QED BY <1>2, <3>1, CliSteps DEF Swept
  <2>2. cli[t] # NoHost => launch' = launch
    <3>1. pc[t] # "submit" \/ cli[t] = NoHost
      BY DEF Ended
    <3>2. CASE Sweeping(t)
      BY <3>2, SweepingSweeps DEF Swept
    <3>3. CASE ~Sweeping(t)
      BY <1>2, <3>1, <3>3, LocalSteps DEF Submit, CleanupJob, RemoveJobDir, jobVars, hostVars
    <3> QED BY <3>2, <3>3
  <2>3. \A s \in Tries : s # t => launch'[s] = launch[s] /\ pc'[s] = pc[s]
    <3>1. \A s \in Tries : s # t => launch'[s] = launch[s]
      <4>1. CASE Sweeping(t)
        BY <4>1, SweepingSweeps DEF Swept
      <4>2. CASE ~Sweeping(t)
        BY <1>2, <4>2, LocalSteps
           DEF Submit, SendSubmit, CleanupJob, RemoveJobDir, jobVars, hostVars
      <4> QED BY <4>1, <4>2
    <3>2. \A s \in Tries : s # t => pc'[s] = pc[s]
      <4>1. CASE StartTry(t)
        BY <4>1 DEF StartTry, Goto
      <4>2. CASE ~StartTry(t)
        BY <1>2, <4>2, ActiveSteps
      <4> QED BY <4>1, <4>2
    <3> QED BY <3>1, <3>2
  <2>4. \A s \in Tries : s # t => faults'[s] = faults[s]
    BY <1>2 DEF WorkerStep, AirflowStep, LocateLogs, RunLocally, EndSync, PrepareScope, Submit,
                SubmitAcked, SubmitFails, PushJob, Defer, AbandonQuietly, ResumeFails,
                ExecuteComplete, CannotCollect, LoseTrack, Collect, ReadReport, ReadMarkdown,
                CleanupJob, HandleReport, OnKill, StopCli, AbandonSubmitted, Abandon, SendAbandon,
                LeaveJob, Fault, StartTry, TriggerFires, TriggerGivesUp, DeferralFails, ResumeWith,
                ClearDeferred, Kill, Crash
  <2>5. cli'[t] # NoHost => /\ pc'[t] \in {"analyze", "onkill"} \cup Ended
                            /\ pc'[t] \in Ended => faults'[t] # {}
    <3> SUFFICES ASSUME cli'[t] # NoHost, cli[t] # NoHost
                 PROVE  /\ pc'[t] \in {"analyze", "onkill"} \cup Ended
                        /\ pc'[t] \in Ended => faults'[t] # {}
      BY <2>1
    <3>1. CASE EndSync(t)
      <4>1. pc'[t] = "failed" /\ Fault(t, {"cliLeft"})
        BY <3>1 DEF EndSync, Goto
      <4> QED BY <4>1, FaultRecorded DEF Ended
    <3>2. CASE OnKill(t)
      <4>1. pc'[t] = "failed" /\ Fault(t, {"cliLeft"})
        BY <3>2 DEF OnKill, StopCli, Goto
      <4> QED BY <4>1, FaultRecorded DEF Ended
    <3>3. CASE Kill(t)
      BY <3>3 DEF Kill, Goto, Ended
    <3>4. CASE Crash(t)
      <4>1. pc'[t] = "crashed" /\ Fault(t, {"crash"})
        BY <3>4 DEF Crash, Goto
      <4> QED BY <4>1, FaultRecorded DEF Ended
    <3>5. StartTry(t) \/ EndSync(t) \/ OnKill(t) \/ Kill(t) \/ Crash(t)
      BY <1>2 DEF WorkerStep, LocateLogs, RunLocally, PrepareScope, Submit, SubmitAcked,
                  SubmitFails, PushJob, Defer, AbandonQuietly, ResumeFails, ExecuteComplete,
                  CannotCollect, LoseTrack, Collect, ReadReport, ReadMarkdown, CleanupJob,
                  HandleReport, AirflowStep, TriggerFires, TriggerGivesUp, DeferralFails,
                  ResumeWith, ClearDeferred, Ended
    <3>6. ~StartTry(t)
      BY StartsIdle DEF Ended
    <3> QED BY <3>1, <3>2, <3>3, <3>4, <3>5, <3>6
  <2> QED BY <2>1, <2>2, <2>3, <2>4, <2>5
<1>3. ASSUME NEW t \in Tries, HostStep(t), UNCHANGED tryVars PROVE Foreground'
  BY <1>3 DEF HostStep, ForkJob, RefuseJob, RecordPid, FinishJob, JobDies, CliExits, tryVars, jobVars
<1>4. ASSUME NEW h \in Hosts, Reboot(h), UNCHANGED tryVars PROVE Foreground'
  BY <1>4 DEF Reboot, InFlight, tryVars
<1>5. CASE UNCHANGED vars
  BY <1>5 DEF vars, hostVars, jobVars, tryVars
<1> QED BY <1>1, <1>2, <1>3, <1>4, <1>5 DEF Next

-----------------------------------------------------------------------------
(* Without overlap: which try is active, and what it reads.                *)

\* A try starts alone.
LEMMA OneActiveAfterStart ==
    ASSUME TypeOK, OneActive, ~Overlap, NEW t \in Tries, StartTry(t)
    PROVE  \A s \in Tries : pc[s] \notin Active /\ (s # t => pc'[s] \notin Active)
<1>1. cur # NoTry => pc[cur] \notin Active
  BY DEF StartTry, Active, Live, Ended
<1>2. \A s \in Tries : pc[s] \notin Active
  BY <1>1 DEF NoTry, Tries, OneActive
<1> QED BY <1>2 DEF StartTry, Goto, TypeOK

\* With one try at a time, only the current try has a worker or a deferral.
LEMMA OneActiveStep ==
    ASSUME TypeOK, OneActive, ~Overlap, [Next]_vars
    PROVE  OneActive'
<1> USE DEF TypeOK, OneActive
<1>1. ASSUME NEW t \in Tries, StartTry(t) PROVE OneActive'
  <2>1. \A s \in Tries : s # t => pc'[s] \notin Active
    BY <1>1, OneActiveAfterStart
  <2> QED BY <1>1, <2>1 DEF StartTry
<1>2. ASSUME NEW t \in Tries, WorkerStep(t) \/ AirflowStep(t), ~StartTry(t) PROVE OneActive'
  BY <1>2, ActiveSteps
<1>3. CASE UNCHANGED tryVars
  BY <1>3 DEF tryVars
<1>4. CASE UNCHANGED vars
  BY <1>4 DEF vars, tryVars
<1> QED BY <1>1, <1>2, <1>3, <1>4 DEF Next

\* Between the trigger's event and the read, the job's files stay as they are.
LEMMA OutputKeptStep ==
    ASSUME TypeOK, TypeOK', InTurn, OneActive, NotSubmittedYet, JobEnded, OutputKept, [Next]_vars
    PROVE  OutputKept'
<1> USE DEF TypeOK, HostTypeOK, JobEnded, OutputKept, Delivered, InFlight
<1>1. ASSUME NEW t \in Tries, Sweeping(t) PROVE OutputKept'
  <2>1. /\ Swept
        /\ pc[t] \in {"prepare", "abandon", "resume", "giveup", "onkill"}
        /\ \E e \in {"failed", "submit"} : pc' = [pc EXCEPT ![t] = e]
        /\ UNCHANGED <<event, read>>
    BY <1>1, SweepingSweeps
  <2>2. \A s \in Tries : s # t => pc[s] \notin {"resume", "collect", "reading", "rereading", "cleanup"}
    BY <2>1 DEF OneActive, Active, Live
  <2> QED BY <2>1, <2>2 DEF Swept
<1>2. ASSUME NEW t \in Tries, Submit(t) PROVE OutputKept'
  BY <1>2 DEF Submit, SendSubmit, NotSubmittedYet, Goto, hostVars, jobVars
<1>3. ASSUME NEW t \in Tries, CleanupJob(t) PROVE OutputKept'
  <2>1. \A s \in Tries : s # t => pc[s] \notin {"resume", "collect", "reading", "rereading", "cleanup"}
    BY <1>3 DEF CleanupJob, OneActive, Active, Live
  <2> QED BY <1>3, <2>1 DEF CleanupJob, RemoveJobDir, Goto, hostVars, jobVars
<1>4. ASSUME NEW t \in Tries, ReadReport(t) \/ ReadMarkdown(t) PROVE OutputKept'
  <2>1. Delivered(t) /\ proc[t] # "running"
    BY <1>4 DEF ReadReport, ReadMarkdown
  <2>2. launch[t] \notin {"unsent", "sent", "refused"}
    BY <2>1 DEF NotSubmittedYet
  <2>3. OutputOf(t) = wrote[t]
    BY <2>1 DEF OutputOf, Outputs
  <2>4. UNCHANGED jobVars /\ UNCHANGED event
    BY <1>4 DEF ReadReport, ReadMarkdown, hostVars
  <2>5. /\ \A s \in Tries : s # t => read'[s] = read[s] /\ pc'[s] = pc[s]
        /\ read'[t] \in {read[t], wrote[t], "nothing"}
        /\ pc'[t] \in {"cleanup", "rereading"}
    BY <1>4, <2>3 DEF ReadReport, ReadMarkdown, Goto
  <2> QED BY <2>1, <2>2, <2>4, <2>5 DEF jobVars
<1>5. ASSUME NEW t \in Tries, WorkerStep(t) \/ AirflowStep(t),
             ~Sweeping(t), ~Submit(t), ~CleanupJob(t),
             ~ReadReport(t), ~ReadMarkdown(t)
      PROVE  OutputKept'
  <2>1. UNCHANGED jobVars
    BY <1>5, LocalSteps
  <2>2. CASE WorkerStep(t)
    BY <1>5, <2>1, <2>2
       DEF WorkerStep, Sweeping, LocateLogs, RunLocally, StartCli, EndSync, SubmitAcked, SubmitFails, PushJob, Defer,
           ExecuteComplete, CannotCollect, Collect, HandleReport, Goto, hostVars, jobVars, Events
  <2>3. CASE AirflowStep(t)
    BY <1>5, <2>1, <2>3
       DEF AirflowStep, StartTry, TriggerFires, TriggerGivesUp, DeferralFails, ResumeWith,
           ClearDeferred, Kill, Crash, Goto, hostVars, jobVars, Outputs
  <2> QED BY <1>5, <2>2, <2>3
<1>6. ASSUME NEW t \in Tries, HostStep(t), UNCHANGED tryVars PROVE OutputKept'
  BY <1>6 DEF HostStep, ForkJob, RefuseJob, RecordPid, FinishJob, JobDies, CliExits, jobVars, tryVars,
              NotSubmittedYet
<1>7. ASSUME NEW h \in Hosts, Reboot(h), UNCHANGED tryVars PROVE OutputKept'
  BY <1>7 DEF Reboot, tryVars
<1>8. CASE UNCHANGED vars
  BY <1>8 DEF vars, hostVars, jobVars, tryVars
<1> QED BY <1>1, <1>2, <1>3, <1>4, <1>5, <1>6, <1>7, <1>8 DEF Next

-----------------------------------------------------------------------------
(* Without overlap: what a try leaves behind.                              *)

\* The worker of an active try finds its own job in XCom, or nothing.
LEMMA JobKnownStep ==
    ASSUME TypeOK, InTurn, OneActive, ~Overlap, NotSubmittedYet, JobNamed, JobKnown, [Next]_vars
    PROVE  JobKnown'
<1> USE DEF TypeOK, HostTypeOK, JobKnown
<1>1. ASSUME NEW t \in Tries, Sweeping(t) PROVE JobKnown'
  <2>1. \A s \in Tries : pc'[s] = pc[s] \/ (s = t /\ pc'[s] = "failed")
                            \/ (s = t /\ pc[s] = "prepare" /\ pc'[s] = "submit")
    BY <1>1, SweepingSweeps
  <2>2. UNCHANGED <<at, launch, hook, xcom>>
    BY <1>1, SweepingSweeps
       DEF Swept, Sweeping, PrepareScope, AbandonQuietly, ResumeFails, LoseTrack, OnKill
  <2>3. \A s \in Tries : pc'[s] \in Active => pc[s] \in Active
    BY <2>1 DEF Active, Live
  <2>4. \A s \in Tries : pc'[s] \in Acked \cup {"acking", "onkill"} => pc'[s] = pc[s]
    BY <2>1 DEF Acked
  <2> QED BY <2>2, <2>3, <2>4 DEF Acked
<1>2. ASSUME NEW t \in Tries, Submit(t) PROVE JobKnown'
  BY <1>2 DEF Submit, SendSubmit, Goto, hostVars, jobVars, Acked, Active, Live
<1>3. ASSUME NEW t \in Tries, StartTry(t) PROVE JobKnown'
  <2>1. \A s \in Tries : s # t => pc'[s] \notin Active
    BY <1>3, OneActiveAfterStart
  <2>2. pc'[t] = "locate" /\ xcom' = NoTry
    BY <1>3 DEF StartTry, Goto
  <2> QED BY <2>1, <2>2 DEF Acked, Active, Live
<1>4. ASSUME NEW t \in Tries, WorkerStep(t) \/ AirflowStep(t), ~StartTry(t),
             ~Sweeping(t), ~Submit(t)
      PROVE  JobKnown'
  <2>1. UNCHANGED <<at, launch>>
    BY <1>4, LocalSteps DEF CleanupJob, RemoveJobDir, hostVars, jobVars
  <2>2. \A s \in Tries : s # t => pc[s] \notin Active /\ pc'[s] \notin Active
    BY <1>4, ActiveSteps DEF OneActive
  <2>3. t # NoTry
    BY TriesAssumption DEF Tries, NoTry
  <2>4. pc[t] \in {"locate", "sync", "analyze", "prepare", "submit"} => launch[t] = "unsent"
    BY DEF NotSubmittedYet
  <2>5. /\ xcom' \in {NoTry, t}
        /\ pc'[t] \in Acked \ {"push", "abandon"} => xcom' = t
        /\ pc'[t] \in {"acking", "push", "abandon", "onkill"} /\ xcom' = NoTry =>
               launch[t] = "unsent" \/ hook'[t].scope = at[t]
    <3>1. CASE WorkerStep(t)
      BY <1>4, <3>1, <2>3, <2>4
         DEF WorkerStep, Sweeping, LocateLogs, RunLocally, StartCli, EndSync, SubmitAcked, SubmitFails, PushJob, Defer,
             ExecuteComplete, CannotCollect, Collect, ReadReport, ReadMarkdown, CleanupJob, HandleReport, Goto, Acked, Active, Live
    <3>2. CASE AirflowStep(t)
      BY <1>4, <3>2, <2>3, <2>4
         DEF AirflowStep, TriggerFires, TriggerGivesUp, DeferralFails, ResumeWith,
             RenderBackend, ClearDeferred, Kill, Crash, Goto, Acked, Active, Live
    <3> QED BY <1>4, <3>1, <3>2
  <2> QED BY <2>1, <2>2, <2>5 DEF Acked, Active, Live
<1>5. ASSUME NEW t \in Tries, HostStep(t), UNCHANGED tryVars PROVE JobKnown'
  BY <1>5 DEF HostStep, ForkJob, RefuseJob, RecordPid, FinishJob, JobDies, CliExits, jobVars, tryVars,
              JobNamed, Acked
<1>6. ASSUME NEW h \in Hosts, Reboot(h), UNCHANGED tryVars PROVE JobKnown'
  BY <1>6 DEF Reboot, InFlight, tryVars
<1>7. CASE UNCHANGED vars
  BY <1>7 DEF vars, hostVars, jobVars, tryVars
<1> QED BY <1>1, <1>2, <1>3, <1>4, <1>5, <1>6, <1>7 DEF Next

\* An active try's job is never out of reach of its own worker's sweep.
LEMMA JobsFindableStep ==
    ASSUME TypeOK, InTurn, OneActive, NotSubmittedYet, JobEnded, JobsFindable, [Next]_vars
    PROVE  JobsFindable'
<1> USE DEF TypeOK, HostTypeOK, JobsFindable, Findable
<1>1. ASSUME NEW t \in Tries, Sweeping(t) PROVE JobsFindable'
  <2>1. /\ Swept
        /\ \/ pc' = [pc EXCEPT ![t] = "failed"]
           \/ pc[t] = "prepare" /\ pc' = [pc EXCEPT ![t] = "submit"]
        /\ pc[t] \in Active
    BY <1>1, SweepingSweeps DEF Active, Live
  <2>2. \A s \in Tries : s # t => pc'[s] \notin Active
    BY <2>1 DEF OneActive
  <2>3. pc'[t] \in Active => pc[t] = "prepare"
    BY <2>1 DEF Active, Live
  <2>4. pc[t] = "prepare" => proc[t] = "none"
    BY DEF NotSubmittedYet
  <2> QED BY <2>1, <2>2, <2>3, <2>4 DEF Swept
<1>2. ASSUME NEW t \in Tries, Submit(t) PROVE JobsFindable'
  BY <1>2 DEF Submit, SendSubmit, NotSubmittedYet, Goto, hostVars, jobVars
<1>3. ASSUME NEW t \in Tries, CleanupJob(t) PROVE JobsFindable'
  BY <1>3 DEF CleanupJob, RemoveJobDir, JobEnded, Goto, hostVars, jobVars
<1>4. ASSUME NEW t \in Tries, StartTry(t) PROVE JobsFindable'
  <2>1. pc[t] = "idle"
    BY <1>4, StartsIdle
  <2> QED BY <1>4, <2>1 DEF StartTry, NotSubmittedYet, Goto, hostVars, jobVars
<1>5. ASSUME NEW t \in Tries, WorkerStep(t) \/ AirflowStep(t), ~StartTry(t),
             ~Sweeping(t), ~Submit(t), ~CleanupJob(t)
      PROVE  JobsFindable'
  <2>1. UNCHANGED jobVars
    BY <1>5, LocalSteps
  <2>2. pc[t] \in Active /\ \E s \in TryStates : pc' = [pc EXCEPT ![t] = s]
    BY <1>5, ActiveSteps
  <2> QED BY <2>1, <2>2 DEF hostVars, jobVars
<1>6. ASSUME NEW t \in Tries, HostStep(t), UNCHANGED tryVars PROVE JobsFindable'
  BY <1>6 DEF HostStep, ForkJob, RefuseJob, RecordPid, FinishJob, JobDies, CliExits, jobVars, tryVars,
              NotSubmittedYet
<1>7. ASSUME NEW h \in Hosts, Reboot(h), UNCHANGED tryVars PROVE JobsFindable'
  BY <1>7 DEF Reboot, InFlight, tryVars
<1>8. CASE UNCHANGED vars
  BY <1>8 DEF vars, hostVars, jobVars, tryVars
<1> QED BY <1>1, <1>2, <1>3, <1>4, <1>5, <1>6, <1>7, <1>8 DEF Next

\* An abandon of a findable job on its own host leaves nothing, or a fault.
LEMMA AbandonCleans ==
    ASSUME TypeOK, NEW t \in Tries, Findable(t), NEW f,
           SendAbandon(t, at[t], f), faults'[t] = {}
    PROVE  Clean(t)'
<1> USE DEF TypeOK, HostTypeOK
<1>1. SweepScope(at[t]) /\ ~InFlight(t)
  BY DEF SendAbandon, Fault
<1>2. dir'[t] = "absent" /\ launch' = launch
  BY <1>1 DEF SendAbandon, SweepScope, RemoveScope
<1>3. /\ dir[t] = "pid" => proc'[t] # "running"
      /\ proc'[t] = "running" => proc[t] = "running"
  BY <1>1 DEF SweepScope, SignalScope, Sweepable
<1>4. proc[t] = "running" => dir[t] = "pid"
  BY <1>1 DEF Findable, InFlight
<1> QED BY <1>1, <1>2, <1>3, <1>4 DEF Clean, InFlight, Findable

\* Nothing was sent, so there is nothing to clean.
LEMMA UnsentIsClean ==
    ASSUME TypeOK, NotSubmittedYet, NEW t \in Tries, launch[t] \in {"unsent", "refused"}, Swept
    PROVE  Clean(t)'
BY DEF TypeOK, HostTypeOK, NotSubmittedYet, Swept, Clean, InFlight

\* What is clean stays clean under any sweep.
LEMMA SweptStaysClean ==
    ASSUME TypeOK, NEW s \in Tries, Clean(s), Swept
    PROVE  Clean(s)'
BY DEF TypeOK, HostTypeOK, Swept, Clean, InFlight

\* An XCom that cannot be read is a fault.
LEMMA AbandonSubmittedReads ==
    ASSUME TypeOK, NEW t \in Tries, AbandonSubmitted(t), faults'[t] = {}
    PROVE  Abandon(t, xcom, {})
<1>1. ASSUME NEW h, SendAbandon(t, h, {"xcomUnread"}) PROVE FALSE
  <2>1. PICK f : "xcomUnread" \in f /\ Fault(t, f)
    BY <1>1 DEF SendAbandon
  <2> QED BY <2>1, FaultRecorded
<1> QED BY <1>1 DEF Abandon, AbandonSubmitted

\* Every worker step that sends a sweep ends its try clean, or with a fault,
\* if it sends it to the job's host.
LEMMA SweepingEndsClean ==
    ASSUME TypeOK, NotSubmittedYet, JobNamed, Foreground, NEW t \in Tries, Findable(t),
           Sweeping(t),
           ResumeFails(t) \/ OnKill(t) =>
               \/ launch[t] = "unsent"
               \/ xcom = NoTry /\ hook[t].scope = at[t]
               \/ xcom # NoTry /\ at[xcom] = at[t],
           pc'[t] \in Ended \cup {"report"}, faults'[t] = {}
    PROVE  Clean(t)'
<1> USE DEF TypeOK, HostTypeOK
<1>1. Swept
  BY SweepingSweeps
<1>2. CASE launch[t] = "unsent"
  BY <1>1, <1>2, UnsentIsClean
<1>3. CASE PrepareScope(t)
  BY <1>2, <1>3 DEF PrepareScope, NotSubmittedYet
<1>4. ASSUME NEW f, SendAbandon(t, at[t], f) PROVE Clean(t)'
  BY <1>4, AbandonCleans
<1>5. ASSUME NEW f, Abandon(t, t, f) PROVE Clean(t)'
  <2>1. t # NoTry
    BY TriesAssumption DEF Tries, NoTry
  <2> QED BY <1>4, <1>5, <2>1 DEF Abandon
<1>6. CASE AbandonQuietly(t) \/ LoseTrack(t)
  BY <1>5, <1>6 DEF AbandonQuietly, LoseTrack
<1>7. CASE LeaveJob(t)
  <2>1. at[t] = NoScope
    BY <1>7 DEF LeaveJob, Fault
  <2> QED BY <1>2, <2>1 DEF JobNamed
<1>8. ASSUME AbandonSubmitted(t), ResumeFails(t) \/ OnKill(t) PROVE Clean(t)'
  <2>1. Abandon(t, xcom, {})
    BY <1>8, AbandonSubmittedReads
  <2> QED BY <1>2, <1>4, <1>8, <2>1 DEF Abandon
<1>9. CASE ResumeFails(t)
  BY <1>7, <1>8, <1>9 DEF ResumeFails
<1>10. CASE OnKill(t)
  <2>1. killJob[t] # NoTry => killJob[t] = t
    BY DEF JobNamed
  <2>2. launch[t] = "unsent" \/ LeaveJob(t) \/ Abandon(t, t, {}) \/ AbandonSubmitted(t)
    BY <1>10, <2>1 DEF OnKill, Foreground
  <2> QED BY <1>2, <1>5, <1>7, <1>8, <1>10, <2>2
<1> QED BY <1>3, <1>6, <1>9, <1>10 DEF Sweeping

\* However a try ends, if nothing it could not see or undo went wrong, it ends
\* clean, and nothing that follows leaves anything of it behind.
LEMMA EndsCleanStep ==
    ASSUME TypeOK, NotSubmittedYet, JobEnded, JobNamed, EndsClean, [Next]_vars,
           \A t \in Tries :
               Sweeping(t) /\ pc'[t] \in Ended \cup {"report"} /\ faults'[t] = {} => Clean(t)'
    PROVE  EndsClean'
<1> USE DEF TypeOK, HostTypeOK, EndsClean
<1>1. ASSUME NEW t \in Tries, Sweeping(t) PROVE EndsClean'
  <2>1. Swept /\ \A s \in Tries : s # t => pc'[s] = pc[s] /\ faults'[s] = faults[s]
    <3>1. Swept /\ \A s \in Tries : s # t => pc'[s] = pc[s]
      BY <1>1, SweepingSweeps
    <3>2. \A s \in Tries : s # t => faults'[s] = faults[s]
      BY <1>1 DEF Sweeping, PrepareScope, AbandonQuietly, ResumeFails, LoseTrack, OnKill,
                  AbandonSubmitted, Abandon, SendAbandon, LeaveJob, StopCli, Fault
    <3> QED BY <3>1, <3>2
  <2>2. \A s \in Tries : s # t /\ Clean(s) => Clean(s)'
    BY <2>1, SweptStaysClean
  <2>3. pc'[t] \in Ended \cup {"report"} /\ faults'[t] = {} => Clean(t)'
    BY <1>1
  <2> QED BY <2>1, <2>2, <2>3
<1>2. ASSUME NEW t \in Tries, Submit(t) PROVE EndsClean'
  <2>1. \A s \in Tries : s # t => Clean(s)' = Clean(s)
    BY <1>2 DEF Submit, SendSubmit, hostVars, jobVars, Clean, InFlight
  <2>2. pc'[t] = "failed" => Clean(t)'
    BY <1>2 DEF Submit, SendSubmit, Goto, hostVars, jobVars, Clean, InFlight, NotSubmittedYet
  <2>3. pc'[t] \in {"failed", "acking"} /\ \A s \in Tries : s # t => pc'[s] = pc[s]
    BY <1>2 DEF Submit, Goto
  <2>4. faults' = faults
    BY <1>2 DEF Submit
  <2> QED BY <2>1, <2>2, <2>3, <2>4 DEF Ended
<1>3. ASSUME NEW t \in Tries, CleanupJob(t) PROVE EndsClean'
  <2>1. launch[t] = "recorded" /\ proc[t] # "running"
    BY <1>3 DEF CleanupJob, JobNamed, Acked, JobEnded
  <2>2. \A s \in Tries : s # t => pc'[s] = pc[s] /\ faults'[s] = faults[s] /\ Clean(s)' = Clean(s)
    BY <1>3 DEF CleanupJob, RemoveJobDir, Goto, Fault, hostVars, jobVars, Clean, InFlight
  <2>3. CASE RemoveJobDir(t)
    BY <2>1, <2>2, <2>3 DEF RemoveJobDir, Clean, InFlight
  <2>4. CASE Fault(t, {"cleanupFailed"})
    <3>1. "cleanupFailed" \in {"cleanupFailed"}
      OBVIOUS
    <3>2. faults'[t] # {}
      BY <2>4, <3>1, FaultRecorded
    <3> QED BY <2>2, <3>2
  <2> QED BY <1>3, <2>3, <2>4 DEF CleanupJob
<1>4. ASSUME NEW t \in Tries, WorkerStep(t) \/ AirflowStep(t),
             ~Sweeping(t), ~Submit(t), ~CleanupJob(t)
      PROVE  EndsClean'
  <2>1. UNCHANGED jobVars
    BY <1>4, LocalSteps
  <2>2. \A s \in Tries : Clean(s)' = Clean(s)
    BY <2>1 DEF jobVars, Clean, InFlight
  <2>3. launch[t] \in {"unsent", "refused"} => Clean(t)
    BY DEF NotSubmittedYet, Clean, InFlight
  <2>4. \A s \in Tries : s # t => pc'[s] = pc[s] /\ faults'[s] = faults[s]
    <3>1. CASE WorkerStep(t)
      BY <1>4, <3>1
         DEF WorkerStep, Sweeping, LocateLogs, RunLocally, StartCli, EndSync, SubmitAcked, SubmitFails, PushJob, Defer,
             ExecuteComplete, CannotCollect, LeaveJob, Collect, ReadReport, ReadMarkdown, HandleReport, Goto, Fault
    <3>2. CASE AirflowStep(t)
      BY <1>4, <3>2
         DEF AirflowStep, StartTry, TriggerFires, TriggerGivesUp, DeferralFails, ResumeWith,
             ClearDeferred, Kill, Crash, Goto, Fault
    <3> QED BY <1>4, <3>1, <3>2
  <2>5. pc'[t] \in Ended \cup {"report"} /\ faults'[t] = {} => Clean(t)
    <3>1. CASE WorkerStep(t)
      <4>1. CASE LocateLogs(t) \/ RunLocally(t) \/ StartCli(t) \/ EndSync(t)
        BY <2>3, <4>1 DEF LocateLogs, RunLocally, StartCli, EndSync, NotSubmittedYet
      <4>2. CASE SubmitFails(t)
        BY <2>3, <4>2 DEF SubmitFails, Fault
      <4>3. CASE SubmitAcked(t) \/ PushJob(t) \/ ExecuteComplete(t)
        BY <4>3 DEF SubmitAcked, PushJob, ExecuteComplete, Goto, Ended
      <4>4. CASE Defer(t)
        <5>1. Goto(t, "deferred") \/ Goto(t, "abandon") \/ \E f : "superseded" \in f /\ Fault(t, f)
          BY <4>4 DEF Defer
        <5> QED BY <5>1, FaultRecorded DEF Goto, Ended
      <4>5. CASE CannotCollect(t)
        BY <2>3, <4>5 DEF CannotCollect, LeaveJob, Fault, JobNamed
      <4>6. CASE Collect(t) \/ ReadReport(t) \/ ReadMarkdown(t)
        <5>1. \/ \E e \in {"reading", "rereading", "cleanup"} : Goto(t, e)
              \/ Fault(t, {"unreachable"})
          BY <4>6 DEF Collect, ReadReport, ReadMarkdown
        <5> QED BY <5>1, FaultRecorded DEF Goto, Ended
      <4>7. CASE HandleReport(t)
        BY <4>7 DEF HandleReport
      <4> QED BY <1>4, <3>1, <4>1, <4>2, <4>3, <4>4, <4>5, <4>6, <4>7 DEF WorkerStep, Sweeping
    <3>2. CASE AirflowStep(t)
      <4>1. \/ \E e \in {"locate", "resume", "onkill"} : Goto(t, e)
            \/ \E f : \E x \in f : Fault(t, f)
        BY <3>2 DEF AirflowStep, StartTry, TriggerFires, TriggerGivesUp, DeferralFails,
                    ResumeWith, ClearDeferred, Kill, Crash
      <4> QED BY <4>1, FaultRecorded DEF Goto, Ended
    <3> QED BY <1>4, <3>1, <3>2
  <2> QED BY <2>2, <2>4, <2>5
<1>5. ASSUME NEW t \in Tries, HostStep(t), UNCHANGED tryVars PROVE EndsClean'
  <2>1. \A s \in Tries : Clean(s) => Clean(s)'
    BY <1>5 DEF HostStep, ForkJob, RefuseJob, RecordPid, FinishJob, JobDies, CliExits, jobVars, Clean, InFlight
  <2> QED BY <1>5, <2>1 DEF tryVars
<1>6. ASSUME NEW h \in Hosts, Reboot(h), UNCHANGED tryVars PROVE EndsClean'
  <2>1. \A s \in Tries : Clean(s) => Clean(s)'
    BY <1>6 DEF Reboot, Clean, InFlight
  <2> QED BY <1>6, <2>1 DEF tryVars
<1>7. CASE UNCHANGED vars
  BY <1>7 DEF vars, hostVars, jobVars, tryVars, Clean, InFlight
<1> QED BY <1>1, <1>2, <1>3, <1>4, <1>5, <1>6, <1>7 DEF Next

-----------------------------------------------------------------------------
(* With an orderly host as well: one analysis at a time.                   *)

\* On an orderly host, a running job that can be swept has its pid file.
LEMMA RunningIsRecordedStep ==
    ASSUME TypeOK, InOrder, JobEnded, NotSubmittedYet, RunningIsRecorded, [Next]_vars
    PROVE  RunningIsRecorded'
<1> USE DEF TypeOK, HostTypeOK, RunningIsRecorded
<1>1. ASSUME NEW t \in Tries, Sweeping(t) PROVE RunningIsRecorded'
  <2>1. Swept
    BY <1>1, SweepingSweeps
  <2> QED BY <2>1 DEF Swept, InFlight
<1>2. ASSUME NEW t \in Tries, Submit(t) PROVE RunningIsRecorded'
  BY <1>2 DEF Submit, SendSubmit, NotSubmittedYet, hostVars, jobVars
<1>3. ASSUME NEW t \in Tries, CleanupJob(t) PROVE RunningIsRecorded'
  BY <1>3 DEF CleanupJob, RemoveJobDir, JobEnded, hostVars, jobVars
<1>4. ASSUME NEW t \in Tries, WorkerStep(t) \/ AirflowStep(t),
             ~Sweeping(t), ~Submit(t), ~CleanupJob(t)
      PROVE  RunningIsRecorded'
  BY <1>4, LocalSteps DEF hostVars, jobVars
<1>5. ASSUME NEW t \in Tries, HostStep(t), UNCHANGED tryVars PROVE RunningIsRecorded'
  BY <1>5 DEF HostStep, ForkJob, RefuseJob, RecordPid, FinishJob, JobDies, CliExits, jobVars
<1>6. ASSUME NEW h \in Hosts, Reboot(h), UNCHANGED tryVars PROVE RunningIsRecorded'
  BY <1>6 DEF Reboot, InFlight
<1>7. CASE UNCHANGED vars
  BY <1>7 DEF vars, hostVars, jobVars
<1> QED BY <1>1, <1>2, <1>3, <1>4, <1>5, <1>6, <1>7 DEF Next

\* On an orderly host, a launch finds no other job running.
LEMMA LaunchedAloneStep ==
    ASSUME TypeOK, RunningIsRecorded, ScopeOwned, NotSubmittedYet, LaunchedAlone, [Next]_vars
    PROVE  LaunchedAlone'
<1> USE DEF TypeOK, HostTypeOK, LaunchedAlone, InFlight
<1>1. ASSUME NEW t \in Tries, Sweeping(t) PROVE LaunchedAlone'
  BY <1>1, SweepingSweeps DEF Swept
<1>2. ASSUME NEW t \in Tries, Submit(t) PROVE LaunchedAlone'
  <2>1. \A s \in Tries : at[s] = hook[t].scope => proc[s] # "running" /\ ~InFlight(s)
    BY <1>2 DEF Submit, ScopeOwned, RunningIsRecorded
  <2>2. proc[t] # "running"
    BY <1>2 DEF Submit, NotSubmittedYet
  <2> QED BY <1>2, <2>1, <2>2 DEF Submit, SendSubmit, hostVars, jobVars
<1>3. ASSUME NEW t \in Tries, CleanupJob(t) PROVE LaunchedAlone'
  BY <1>3 DEF CleanupJob, RemoveJobDir, hostVars, jobVars
<1>4. ASSUME NEW t \in Tries, WorkerStep(t) \/ AirflowStep(t),
             ~Sweeping(t), ~Submit(t), ~CleanupJob(t)
      PROVE  LaunchedAlone'
  BY <1>4, LocalSteps DEF hostVars, jobVars
<1>5. ASSUME NEW t \in Tries, HostStep(t), UNCHANGED tryVars PROVE LaunchedAlone'
  BY <1>5 DEF HostStep, ForkJob, RefuseJob, RecordPid, FinishJob, JobDies, CliExits, jobVars
<1>6. ASSUME NEW h \in Hosts, Reboot(h), UNCHANGED tryVars PROVE LaunchedAlone'
  BY <1>6 DEF Reboot
<1>7. CASE UNCHANGED vars
  BY <1>7 DEF vars, hostVars, jobVars
<1> QED BY <1>1, <1>2, <1>3, <1>4, <1>5, <1>6, <1>7 DEF Next

\* On an orderly host, a try that has submitted shares its scope with no other.
LEMMA ScopeOwnedStep ==
    ASSUME TypeOK, InOrder, OneActive, NotSubmittedYet, ScopeOwned, [Next]_vars
    PROVE  ScopeOwned'
<1> USE DEF TypeOK, HostTypeOK, ScopeOwned, InFlight, Waiting
<1>1. ASSUME NEW t \in Tries, Sweeping(t) PROVE ScopeOwned'
  BY <1>1, SweepingSweeps DEF Swept
<1>2. ASSUME NEW t \in Tries, Submit(t) PROVE ScopeOwned'
  <2>1. \A s \in Tries : s # t => pc[s] \notin Waiting \cup {"submit"}
    BY <1>2 DEF Submit, OneActive, Active, Live
  <2> QED BY <1>2, <2>1 DEF Submit, SendSubmit, Goto, hostVars, jobVars
<1>3. ASSUME NEW t \in Tries, CleanupJob(t) PROVE ScopeOwned'
  BY <1>3 DEF CleanupJob, RemoveJobDir, Goto, hostVars, jobVars
<1>4. ASSUME NEW t \in Tries, WorkerStep(t) \/ AirflowStep(t),
             ~Sweeping(t), ~Submit(t), ~CleanupJob(t)
      PROVE  ScopeOwned'
  <2>1. UNCHANGED jobVars
    BY <1>4, LocalSteps
  <2>2. CASE WorkerStep(t)
    BY <1>4, <2>1, <2>2
       DEF WorkerStep, Sweeping, LocateLogs, RunLocally, StartCli, EndSync, SubmitAcked, SubmitFails, PushJob, Defer,
           ExecuteComplete, CannotCollect, LeaveJob, Collect, ReadReport, ReadMarkdown, HandleReport, Goto, hostVars, jobVars
  <2>3. CASE AirflowStep(t)
    BY <2>1, <2>3
       DEF AirflowStep, StartTry, TriggerFires, TriggerGivesUp, DeferralFails, ResumeWith,
           RenderBackend, ClearDeferred, Kill, Crash, Goto, hostVars, jobVars
  <2> QED BY <1>4, <2>2, <2>3
<1>5. ASSUME NEW t \in Tries, HostStep(t), UNCHANGED tryVars PROVE ScopeOwned'
  BY <1>5 DEF HostStep, ForkJob, RefuseJob, RecordPid, FinishJob, JobDies, CliExits, jobVars, tryVars
<1>6. ASSUME NEW h \in Hosts, Reboot(h), UNCHANGED tryVars PROVE ScopeOwned'
  BY <1>6 DEF Reboot, tryVars
<1>7. CASE UNCHANGED vars
  BY <1>7 DEF vars, hostVars, jobVars, tryVars
<1> QED BY <1>1, <1>2, <1>3, <1>4, <1>5, <1>6, <1>7 DEF Next

\* Only a launch adds a running job, and it is alone on its host.
LEMMA AtMostOneStep ==
    ASSUME TypeOK, NotSubmittedYet, LaunchedAlone, AtMostOneAnalysis, [Next]_vars
    PROVE  AtMostOneAnalysis'
<1> USE DEF TypeOK, HostTypeOK, AtMostOneAnalysis
<1>1. ASSUME NEW t \in Tries, Sweeping(t) PROVE AtMostOneAnalysis'
  BY <1>1, SweepingSweeps DEF Swept
<1>2. ASSUME NEW t \in Tries, Submit(t) PROVE AtMostOneAnalysis'
  BY <1>2 DEF Submit, SendSubmit, NotSubmittedYet, hostVars, jobVars
<1>3. ASSUME NEW t \in Tries, CleanupJob(t) PROVE AtMostOneAnalysis'
  BY <1>3 DEF CleanupJob, RemoveJobDir, hostVars, jobVars
<1>4. ASSUME NEW t \in Tries, WorkerStep(t) \/ AirflowStep(t),
             ~Sweeping(t), ~Submit(t), ~CleanupJob(t)
      PROVE  AtMostOneAnalysis'
  BY <1>4, LocalSteps DEF hostVars, jobVars
<1>5. ASSUME NEW t \in Tries, HostStep(t), UNCHANGED tryVars PROVE AtMostOneAnalysis'
  BY <1>5 DEF HostStep, ForkJob, RefuseJob, RecordPid, FinishJob, JobDies, CliExits, jobVars,
              LaunchedAlone, InFlight
<1>6. ASSUME NEW h \in Hosts, Reboot(h) PROVE AtMostOneAnalysis'
  BY <1>6 DEF Reboot
<1>7. CASE UNCHANGED vars
  BY <1>7 DEF vars, hostVars, jobVars
<1> QED BY <1>1, <1>2, <1>3, <1>4, <1>5, <1>6, <1>7 DEF Next

-----------------------------------------------------------------------------
(* The theorems.                                                           *)

\* The invariants hold before the first try.
LEMMA InitInvariants ==
    ASSUME Init
    PROVE  /\ InTurn /\ NotSubmittedYet /\ JobEnded /\ WritesOnce /\ JobNamed /\ Foreground
           /\ OneActive /\ OutputKept
           /\ RunningIsRecorded /\ LaunchedAlone /\ ScopeOwned
           /\ AtMostOneAnalysis
BY DEF Init, HostInit, InTurn, NotSubmittedYet, JobEnded, WritesOnce, JobNamed, Foreground, OneActive, OutputKept,
       RunningIsRecorded, LaunchedAlone, ScopeOwned, AtMostOneAnalysis,
       Active, Live, Acked, Waiting, InFlight

\* What holds in every schedule.
BaseInv == InTurn /\ NotSubmittedYet /\ JobEnded /\ WritesOnce /\ JobNamed /\ Foreground

\* In every schedule, a try's own steps keep to their order.
LEMMA BaseInvariant == Spec => []BaseInv
<1>1. Init => BaseInv
  BY InitInvariants DEF BaseInv
<1>2. TypeOK /\ TypeOK' /\ BaseInv /\ [Next]_vars => BaseInv'
  BY InTurnStep, NotSubmittedYetStep, JobEndedStep, WritesOnceStep, JobNamedStep, ForegroundStep
     DEF BaseInv
<1> QED BY <1>1, <1>2, TypeCorrect, PTL DEF Spec

\* While one try runs at a time, the invariant on what is read holds whatever
\* the hosts do.
TryInv == OneActive /\ OutputKept

\* With one try at a time, what the tries know is invariant.
LEMMA TryInvariant == ASSUME ~Overlap PROVE Spec => []TryInv
<1>1. Init => TryInv
  BY InitInvariants DEF TryInv
<1>2. TypeOK /\ TypeOK' /\ BaseInv /\ TryInv /\ [Next]_vars => TryInv'
  BY OneActiveStep, OutputKeptStep DEF BaseInv, TryInv
<1> QED BY <1>1, <1>2, TypeCorrect, BaseInvariant, PTL DEF Spec

\* collect() never reads another job's output or a half-removed one: nothing
\* touches the job's files between the trigger's event and the read.
THEOREM OutputIsOwn == ASSUME ~Overlap PROVE Spec => []ReadsOwnOutput
<1>1. TryInv => ReadsOwnOutput
  BY DEF TryInv, OutputKept, ReadsOwnOutput
<1> QED BY <1>1, TryInvariant, PTL

\* In every schedule: no step of a try stops the job it waits for, and no
\* deferral, cleanup or read of any try does.
THEOREM OthersStop == Spec => StoppedByOthersOnly
<1> DEFINE Excepted(t) == \E s \in Tries \ {t} : pc[s] \in Sweepers /\ pc'[s] \in {"submit", "failed"}
           Kept == \A t \in Tries :
             {pc[t], pc'[t]} \subseteq Waiting /\ proc[t] = "running" /\ proc'[t] = "stopping" => Excepted(t)
<1>1. TypeOK /\ [Next]_vars => [Kept]_vars
  <2> SUFFICES ASSUME TypeOK, Next PROVE Kept
    OBVIOUS
  <2> USE DEF TypeOK, HostTypeOK
  <2>1. ASSUME NEW t \in Tries, Sweeping(t) PROVE Kept
    <3>1. pc[t] \in Sweepers /\ pc'[t] \in {"submit", "failed"}
      BY <2>1, SweepingSweeps DEF Sweepers
    <3>2. \A s \in Tries : s # t => Excepted(s)
      BY <3>1
    <3>3. pc'[t] \notin Waiting
      BY <3>1 DEF Waiting
    <3> QED BY <3>2, <3>3
  <2>2. ASSUME NEW t \in Tries, Submit(t) \/ CleanupJob(t) PROVE Kept
    BY <2>2 DEF Submit, SendSubmit, CleanupJob, RemoveJobDir, hostVars, jobVars
  <2>3. ASSUME NEW t \in Tries, WorkerStep(t) \/ AirflowStep(t),
               ~Sweeping(t), ~Submit(t), ~CleanupJob(t)
        PROVE  Kept
    BY <2>3, LocalSteps DEF jobVars
  <2>4. ASSUME NEW t \in Tries, HostStep(t) PROVE Kept
    BY <2>4 DEF HostStep, ForkJob, RefuseJob, RecordPid, FinishJob, JobDies, CliExits, jobVars
  <2>5. ASSUME NEW h \in Hosts, Reboot(h) PROVE Kept
    BY <2>5 DEF Reboot
  <2> QED BY <2>1, <2>2, <2>3, <2>4, <2>5 DEF Next
<1> QED BY <1>1, TypeCorrect, PTL DEF Spec, StoppedByOthersOnly

\* NothingLeftBehind, the ways to find a job that it rests on, and its host's
\* side of them.
EndInv == JobKnown /\ JobsFindable /\ EndsClean

\* With one try at a time, EndInv is invariant, whatever the hosts do.
LEMMA EndInvariant == ASSUME ~Overlap PROVE Spec => []EndInv
<1>1. Init => EndInv
  BY DEF Init, HostInit, EndInv, JobKnown, JobsFindable, EndsClean, Findable, Active, Live, Acked, Ended
<1>2. TypeOK /\ BaseInv /\ TryInv /\ EndInv /\ [Next]_vars => EndInv'
  <2> SUFFICES ASSUME TypeOK, BaseInv, TryInv, EndInv, [Next]_vars PROVE EndInv'
    OBVIOUS
  <2>1. ASSUME NEW t \in Tries, Sweeping(t), pc'[t] \in Ended \cup {"report"}, faults'[t] = {}
        PROVE  Clean(t)'
    <3>1. Findable(t)
      BY <2>1, SweepingSweeps DEF EndInv, JobsFindable, Active, Live
    <3>2. ResumeFails(t) \/ OnKill(t) =>
              \/ launch[t] = "unsent"
              \/ xcom = NoTry /\ hook[t].scope = at[t]
              \/ xcom # NoTry /\ at[xcom] = at[t]
      <4>1. t # NoTry
        BY TriesAssumption DEF Tries, NoTry
      <4> QED BY <4>1 DEF EndInv, JobKnown, ResumeFails, OnKill, Active, Live, Acked
    <3> QED BY <2>1, <3>1, <3>2, SweepingEndsClean DEF BaseInv
  <2> QED BY <2>1, JobKnownStep, JobsFindableStep, EndsCleanStep DEF BaseInv, TryInv, EndInv
<1> QED BY <1>1, <1>2, TypeCorrect, BaseInvariant, TryInvariant, PTL DEF Spec

\* Every try that ends without a fault it cannot see or undo has stopped its
\* job and removed its directory, whatever backend it resumed with, however it
\* was killed, and even on a host that runs commands late.
THEOREM EndsWithNothingLeft == ASSUME ~Overlap PROVE Spec => []NothingLeftBehind
<1>1. BaseInv /\ EndInv => NothingLeftBehind
  BY DEF BaseInv, Foreground, EndInv, EndsClean, Clean, NothingLeftBehind
<1> QED BY <1>1, BaseInvariant, EndInvariant, PTL

\* The strengthening of AtMostOneAnalysis that steps preserve.
HostInv == RunningIsRecorded /\ LaunchedAlone /\ ScopeOwned /\ AtMostOneAnalysis

\* With one try at a time and an orderly host, HostInv is invariant.
LEMMA HostInvariant == ASSUME ~Overlap, InOrder PROVE Spec => []HostInv
<1>1. Init => HostInv
  BY InitInvariants DEF HostInv
<1>2. TypeOK /\ BaseInv /\ TryInv /\ HostInv /\ [Next]_vars => HostInv'
  BY RunningIsRecordedStep, LaunchedAloneStep, ScopeOwnedStep, AtMostOneStep
     DEF BaseInv, TryInv, HostInv
<1> QED BY <1>1, <1>2, TypeCorrect, BaseInvariant, TryInvariant, PTL DEF Spec

\* However many tries a task instance takes, and whatever was lost, killed or
\* crashed in them, at most one job of a scope runs that has not been told to
\* stop.  Nothing is said of two scopes on one host, nor of a synchronous
\* analysis.
THEOREM OneAnalysis == ASSUME ~Overlap, InOrder PROVE Spec => []AtMostOneAnalysis
BY HostInvariant, PTL DEF HostInv

\* A try that has submitted its job shares its scope with no older one.
THEOREM ScopeIsOwn == ASSUME ~Overlap, InOrder PROVE Spec => []OnlyOwnDirectory
<1>1. HostInv => OnlyOwnDirectory
  BY DEF HostInv, ScopeOwned, OnlyOwnDirectory
<1> QED BY <1>1, HostInvariant, PTL

-----------------------------------------------------------------------------
(* With overlapping tries, in the one scope of a task on an orderly host.  *)

\* XCom names no job before its submit.
LEMMA XComSentStep ==
    ASSUME TypeOK, JobNamed, XComSent, [Next]_vars
    PROVE  XComSent'
<1> USE DEF TypeOK, HostTypeOK, XComSent
<1>1. \A t \in Tries : at[t] # NoScope => at'[t] # NoScope
  <2>1. ASSUME NEW t \in Tries, Submit(t) PROVE \A s \in Tries : at[s] # NoScope => at'[s] # NoScope
    <3>1. hook[t].scope # NoScope
      BY <2>1, ScopeIsSomewhere DEF Submit, JobNamed, Backends
    <3> QED BY <2>1, <3>1 DEF Submit, SendSubmit, hostVars, jobVars
  <2>2. ASSUME NEW t \in Tries, WorkerStep(t) \/ AirflowStep(t), ~Submit(t) PROVE at' = at
    BY <2>2, SweepingSweeps, LocalSteps DEF Swept, CleanupJob, RemoveJobDir, hostVars, jobVars
  <2>3. ASSUME NEW t \in Tries, HostStep(t) PROVE at' = at
    BY <2>3 DEF HostStep, ForkJob, RefuseJob, RecordPid, FinishJob, JobDies, CliExits, jobVars
  <2>4. ASSUME NEW h \in Hosts, Reboot(h) PROVE at' = at
    BY <2>4 DEF Reboot
  <2> QED BY <2>1, <2>2, <2>3, <2>4 DEF Next, vars, hostVars, jobVars
<1>2. ASSUME NEW t \in Tries, PushJob(t) PROVE XComSent'
  <2>1. at[t] # NoScope
    BY <1>2 DEF PushJob, JobNamed, Acked
  <2> QED BY <1>1, <1>2, <2>1 DEF PushJob
<1>3. ASSUME NEW t \in Tries, WorkerStep(t) \/ AirflowStep(t), ~PushJob(t) PROVE xcom' \in {xcom, NoTry}
  BY <1>3 DEF WorkerStep, AirflowStep, LocateLogs, RunLocally, StartCli, EndSync, PrepareScope, Submit, SubmitAcked,
              SubmitFails, Defer, AbandonQuietly, ResumeFails, ExecuteComplete, CannotCollect,
              LoseTrack, Collect, ReadReport, ReadMarkdown, CleanupJob, HandleReport, OnKill, StartTry, TriggerFires,
              TriggerGivesUp, DeferralFails, ResumeWith, ClearDeferred, Kill, Crash
<1>4. CASE UNCHANGED tryVars \/ UNCHANGED vars
  BY <1>1, <1>4 DEF vars, tryVars
<1> QED BY <1>1, <1>2, <1>3, <1>4 DEF Next

\* Every sweep goes to the only scope, so it need not know whose job it stops.
OneScopeInv == RunningIsRecorded /\ XComSent /\ EndsClean

\* A worker that outlives its try, or is killed after a new try has cleared its
\* XCom, still stops its own job while the task names one host and directory.
THEOREM EndsWithNothingLeftInOneScope ==
    ASSUME InOrder, NEW d, Scopes = {d}
    PROVE  Spec => []NothingLeftBehind
<1>1. Init => OneScopeInv
  BY InitInvariants DEF Init, OneScopeInv, XComSent, EndsClean, Ended
<1>2. TypeOK /\ BaseInv /\ OneScopeInv /\ [Next]_vars => OneScopeInv'
  <2> SUFFICES ASSUME TypeOK, BaseInv, OneScopeInv, [Next]_vars PROVE OneScopeInv'
    OBVIOUS
  <2>1. ASSUME NEW t \in Tries, Sweeping(t), pc'[t] \in Ended \cup {"report"}, faults'[t] = {}
        PROVE  Clean(t)'
    <3>1. Findable(t)
      BY DEF OneScopeInv, RunningIsRecorded, Findable
    <3>2. hook[t].scope = d
      BY <2>1, SweepingSweeps DEF BaseInv, JobNamed, Backends
    <3>3. launch[t] # "unsent" => at[t] = d
      BY DEF BaseInv, JobNamed, TypeOK, HostTypeOK
    <3>4. xcom # NoTry => at[xcom] = d
      BY DEF OneScopeInv, XComSent, TypeOK, HostTypeOK
    <3> QED BY <2>1, <3>1, <3>2, <3>3, <3>4, SweepingEndsClean DEF BaseInv
  <2> QED BY <2>1, RunningIsRecordedStep, XComSentStep, EndsCleanStep DEF BaseInv, OneScopeInv
<1>3. BaseInv /\ OneScopeInv => NothingLeftBehind
  BY DEF BaseInv, Foreground, OneScopeInv, EndsClean, Clean, NothingLeftBehind
<1> QED BY <1>1, <1>2, <1>3, TypeCorrect, BaseInvariant, PTL DEF Spec

-----------------------------------------------------------------------------
(* RemoteJob implements AnalysisLifecycle, one step at a time.             *)

\* What the mapping makes of a try.
LEMMA MapTypes ==
    ASSUME NEW t \in Tries
    PROVE  /\ TaskOf(t) \in {"idle", "working", "waiting", "succeeded", "failed"}
           /\ TaskOf(t) = "idle" <=> pc[t] = "idle"
           /\ TaskOf(t) = "succeeded" <=> pc[t] = "success"
           /\ TaskOf(t) = "failed" <=> pc[t] \in {"failed", "crashed"}
           /\ TaskOf(t) = "waiting" <=> pc[t] \in Waiting
           /\ AnalysisOf(t) \in {"none", "asked", "running", "stopping", "ended"}
           /\ AnalysisOf(t) = "none" <=> launch[t] = "unsent"
           /\ AnalysisOf(t) = "asked" <=> launch[t] = "sent"
BY DEF TaskOf, AnalysisOf, Waiting, Ended

\* A try that is neither idle nor over is at work.
LEMMA ActiveAtWork ==
    ASSUME TypeOK, NEW t \in Tries
    PROVE  pc[t] \in Active <=> TaskOf(t) \in {"working", "waiting"}
BY DEF TypeOK, TryStates, Active, Live, Ended, Waiting, TaskOf

\* The analyses of a step that may stop some: those of S, none of them waited
\* for after it.
Stops == \A s \in Tries :
    \/ AnalysisOf(s)' = AnalysisOf(s)
    \/ AnalysisOf(s) = "running" /\ AnalysisOf(s)' = "stopping" /\ TaskOf(s)' # "waiting"

\* Such a step is one of StopSome.
LEMMA StopSomeMaps == ASSUME Stops PROVE Lifecycle!StopSome
<1> DEFINE S == {s \in Tries : AnalysisOf(s)' # AnalysisOf(s)}
<1>1. S \in SUBSET {s \in Tries : AnalysisOf(s) = "running" /\ TaskOf(s)' # "waiting"}
  BY DEF Stops
<1>2. \A s \in Tries : AnalysisOf(s)' = IF s \in S THEN "stopping" ELSE AnalysisOf(s)
  BY DEF Stops
<1> HIDE DEF S
<1>3. [s \in Tries |-> AnalysisOf(s)'] = [s \in Tries |-> IF s \in S THEN "stopping" ELSE AnalysisOf(s)]
  BY <1>2
<1> QED BY <1>1, <1>3 DEF Lifecycle!StopSome

\* A worker's step that ends no try wrongly is one of Proceed or End.
LEMMA WorkMaps ==
    ASSUME TypeOK, TypeOK', EndsClean', NEW t \in Tries, pc[t] \in Active,
           NEW e \in TryStates \ {"idle"}, pc' = [pc EXCEPT ![t] = e],
           e \in Waiting => pc[t] \in Waiting,
           e = "success" => wrote[t] = "report" \/ launch[t] = "unsent",
           Stops, UNCHANGED <<at, wrote>>,
           \A s \in Tries \ {t} : faults'[s] = faults[s],
           faults[t] # {} => faults'[t] # {}
    PROVE  Lifecycle!Proceed(t) \/ Lifecycle!End(t)
<1> DEFINE Task == [s \in Tries |-> TaskOf(s)]
           Excused == {s \in Tries : faults[s] # {}}
<1>1. \A s \in Tries \ {t} : TaskOf(s)' = TaskOf(s)
  BY DEF TypeOK, TaskOf
<1>2. Task[t] \in {"working", "waiting"}
  BY ActiveAtWork
<1>3. Task' = [Task EXCEPT ![t] = TaskOf(t)']
  BY <1>1
<1>4. Lifecycle!Excuse(t)
  BY DEF Lifecycle!Excuse
<1>5. Lifecycle!StopSome
  BY StopSomeMaps
<1>6. {s \in Tries : wrote[s] = "report"}' = {s \in Tries : wrote[s] = "report"}
  OBVIOUS
<1>7. pc'[t] = e
  BY DEF TypeOK
<1>8. CASE e \in Ended
  <2>1. TaskOf(t)' = IF e = "success" THEN "succeeded" ELSE "failed"
    BY <1>7, <1>8 DEF TaskOf, Ended
  <2>2. e = "success" => t \in {s \in Tries : wrote[s] = "report"} \/ AnalysisOf(t) = "none"
    BY MapTypes
  <2>3. faults'[t] = {} => AnalysisOf(t)' \notin {"asked", "running"}
    <3>1. faults'[t] = {} => proc'[t] # "running" /\ launch'[t] # "sent"
      BY <1>7, <1>8 DEF EndsClean, Clean, InFlight
    <3> QED BY <3>1 DEF AnalysisOf
  <2>4. t \in Excused' \/ AnalysisOf(t)' \notin {"asked", "running"}
    BY <2>3
  <2> QED BY <1>2, <1>3, <1>4, <1>5, <1>6, <2>1, <2>2, <2>4
          DEF Lifecycle!End, Lifecycle!AtWork, Lifecycle!Wanted
<1>9. CASE e \notin Ended
  <2>1. e \in Active
    BY <1>9 DEF TryStates, Active
  <2>2. TaskOf(t)' \in {"working", "waiting"}
    BY <1>7, <2>1 DEF TaskOf, Active, Live, Waiting, Ended
  <2>3. TaskOf(t)' = "waiting" => Task[t] = "waiting"
    BY <1>7, <2>1 DEF TaskOf, Active, Live, Waiting, Ended
  <2>4. Task' = Task \/ Task' = [Task EXCEPT ![t] = "working"]
    <3>1. CASE TaskOf(t)' = "working"
      BY <1>3, <3>1
    <3>2. CASE TaskOf(t)' = "waiting"
      BY <1>3, <2>3, <3>2
    <3> QED BY <2>2, <3>1, <3>2
  <2> QED BY <1>2, <1>4, <1>5, <1>6, <2>4 DEF Lifecycle!Proceed, Lifecycle!AtWork
<1> QED BY <1>8, <1>9

\* Every worker's or Airflow's step but a start and a submit maps.
LEMMA TryStepMaps ==
    ASSUME TypeOK, TypeOK', NotSubmittedYet, OneActive, OutputKept, EndsClean',
           NEW t \in Tries, WorkerStep(t) \/ AirflowStep(t), ~StartTry(t), ~Submit(t)
    PROVE  Lifecycle!Proceed(t) \/ Lifecycle!End(t)
<1>1. pc[t] \in Active
  BY ActiveSteps
<1>2. ASSUME Sweeping(t) PROVE Lifecycle!Proceed(t) \/ Lifecycle!End(t)
  <2>1. PICK e \in {"failed", "submit"} : pc' = [pc EXCEPT ![t] = e]
    BY <1>2, SweepingSweeps
  <2>2. \A s \in Tries : pc'[s] \notin Waiting
    BY <1>1, <2>1 DEF TypeOK, OneActive, Waiting, Active, Live
  <2>3. Swept
    BY <1>2, SweepingSweeps
  <2>4. Stops
    <3>1. ASSUME NEW s \in Tries
          PROVE  \/ AnalysisOf(s)' = AnalysisOf(s)
                 \/ AnalysisOf(s) = "running" /\ AnalysisOf(s)' = "stopping"
      BY <2>3 DEF Swept, AnalysisOf
    <3> QED BY <2>2, <3>1 DEF Stops, TaskOf, Waiting, Ended
  <2>5. /\ \A s \in Tries \ {t} : faults'[s] = faults[s]
        /\ faults[t] # {} => faults'[t] # {}
    BY <1>2 DEF Sweeping, PrepareScope, AbandonQuietly, ResumeFails, LoseTrack, OnKill,
                StopCli, AbandonSubmitted, Abandon, SendAbandon, LeaveJob, Fault, TypeOK
  <2>6. e \in TryStates \ {"idle"} /\ e \notin Waiting /\ e # "success"
    BY DEF TryStates, Live, Ended, Waiting
  <2> QED BY <1>1, <2>1, <2>3, <2>4, <2>5, <2>6, WorkMaps DEF Swept
<1>3. ASSUME ~Sweeping(t) PROVE Lifecycle!Proceed(t) \/ Lifecycle!End(t)
  <2>1. /\ UNCHANGED <<at, launch, wrote>>
        /\ \A s \in Tries : proc'[s] = proc[s]
    BY <1>3, LocalSteps DEF CleanupJob, RemoveJobDir, hostVars, jobVars
  <2>2. Stops
    BY <2>1 DEF Stops, AnalysisOf
  <2>3. PICK e \in TryStates \ {"idle"} :
            /\ pc' = [pc EXCEPT ![t] = e]
            /\ e \in Waiting => pc[t] \in Waiting
            /\ e = "success" => pc[t] \in {"sync", "analyze"} \/ read[t] = "report"
            /\ \A s \in Tries \ {t} : faults'[s] = faults[s]
            /\ faults[t] # {} => faults'[t] # {}
    <3> USE DEF Goto, Fault, TypeOK, TryStates, Live, Ended, Waiting
    <3>1. CASE WorkerStep(t)
      BY <1>3, <3>1
         DEF WorkerStep, Sweeping, LocateLogs, RunLocally, StartCli, EndSync, SubmitAcked, SubmitFails, PushJob, Defer,
             ExecuteComplete, CannotCollect, LeaveJob, Collect, ReadReport, ReadMarkdown, CleanupJob, HandleReport
    <3>2. CASE AirflowStep(t)
      BY <3>2 DEF AirflowStep, TriggerFires, TriggerGivesUp, DeferralFails, ResumeWith,
                  ClearDeferred, Kill, Crash
    <3> QED BY <3>1, <3>2
  <2>4. e = "success" => wrote[t] = "report" \/ launch[t] = "unsent"
    BY <2>3 DEF NotSubmittedYet, OutputKept
  <2> QED BY <1>1, <2>1, <2>2, <2>3, <2>4, WorkMaps
<1> QED BY <1>2, <1>3

\* A start maps to Begin.
LEMMA StartMaps ==
    ASSUME TypeOK, InTurn, OneActive, ~Overlap, NEW t \in Tries, StartTry(t)
    PROVE  Lifecycle!Begin(t)
<1> DEFINE Task == [s \in Tries |-> TaskOf(s)]
<1>1. \A s \in Tries : pc[s] \notin Active
  BY OneActiveAfterStart
<1>2. \A s \in Tries : s >= t => pc[s] = "idle"
  BY StartsIdle, TriesAssumption DEF InTurn, StartTry, TypeOK, Tries, NoTry
<1>3. \A s \in Tries : Task[s] \notin {"working", "waiting"} /\ (s >= t => Task[s] = "idle")
  BY <1>1, <1>2, ActiveAtWork, MapTypes
<1>4. Task' = [Task EXCEPT ![t] = "working"]
  <2>1. pc'[t] = "locate" /\ \A s \in Tries \ {t} : pc'[s] = pc[s]
    BY DEF StartTry, Goto, TypeOK
  <2>2. TaskOf(t)' = "working" /\ \A s \in Tries \ {t} : TaskOf(s)' = TaskOf(s)
    BY <2>1 DEF TaskOf, Ended, Waiting
  <2> QED BY <2>2
<1>5. UNCHANGED <<at, launch, proc, wrote, faults>>
  BY DEF StartTry, hostVars, jobVars
<1> QED BY <1>3, <1>4, <1>5 DEF Lifecycle!Begin, Lifecycle!AtWork, AnalysisOf

\* A submit that reaches the host maps to Ask, one that does not to End.
LEMMA SubmitMaps ==
    ASSUME TypeOK, TypeOK', NotSubmittedYet, JobNamed, OutputKept, EndsClean', HostInv,
           NEW t \in Tries, Submit(t)
    PROVE  \/ \E d \in Scopes : Lifecycle!Ask(t, d)
           \/ Lifecycle!Proceed(t) \/ Lifecycle!End(t)
<1> DEFINE Task == [s \in Tries |-> TaskOf(s)]
           Analysis == [s \in Tries |-> AnalysisOf(s)]
<1> USE DEF TypeOK, HostTypeOK
<1>1. pc[t] = "submit" /\ launch[t] = "unsent" /\ hook[t].scope \in Scopes
  BY DEF Submit, NotSubmittedYet, JobNamed, Backends
<1>2. CASE SendSubmit(t, hook[t].scope) /\ Goto(t, "acking")
  <2>1. Task[t] = "working" /\ Analysis[t] = "none"
    BY <1>1 DEF TaskOf, AnalysisOf, Ended, Waiting
  <2>2. ASSUME NEW s \in Tries, at[s] = hook[t].scope
        PROVE  Analysis[s] \notin {"asked", "running"}
    <3>1. dir[s] = "absent" /\ ~InFlight(s)
      BY <1>1, <2>2 DEF HostInv, ScopeOwned
    <3>2. proc[s] # "running"
      BY <3>1 DEF HostInv, RunningIsRecorded
    <3> QED BY <3>1, <3>2 DEF AnalysisOf, InFlight
  <2>3. Task' = [Task EXCEPT ![t] = "waiting"]
    <3>1. TaskOf(t)' = "waiting" /\ \A s \in Tries \ {t} : TaskOf(s)' = TaskOf(s)
      BY <1>2 DEF Goto, TaskOf, Ended, Waiting
    <3> QED BY <3>1
  <2>4. Analysis' = [Analysis EXCEPT ![t] = "asked"]
    <3>1. AnalysisOf(t)' = "asked" /\ \A s \in Tries \ {t} : AnalysisOf(s)' = AnalysisOf(s)
      BY <1>2 DEF SendSubmit, AnalysisOf
    <3> QED BY <3>1
  <2>5. /\ at' = [at EXCEPT ![t] = hook[t].scope]
        /\ UNCHANGED <<wrote, faults>>
    BY <1>2 DEF Submit, SendSubmit
  <2>6. Lifecycle!Ask(t, hook[t].scope)
    BY <2>1, <2>2, <2>3, <2>4, <2>5 DEF Lifecycle!Ask, Lifecycle!Wanted
  <2> QED BY <1>1, <2>6
<1>3. CASE UNCHANGED hostVars /\ Goto(t, "failed")
  <2>1. Stops
    BY <1>3 DEF Stops, AnalysisOf, hostVars, jobVars
  <2>2. pc' = [pc EXCEPT ![t] = "failed"] /\ UNCHANGED <<at, wrote, faults>>
    BY <1>3 DEF Submit, Goto, hostVars, jobVars
  <2>3. "failed" \in TryStates \ {"idle"} /\ "failed" \notin Waiting /\ pc[t] \in Active
    BY <1>1 DEF TryStates, Ended, Waiting, Active, Live
  <2> QED BY <2>1, <2>2, <2>3, WorkMaps
<1> QED BY <1>2, <1>3 DEF Submit

\* A step that only ends analyses, or changes none, is one of Vanish.
LEMMA VanishMaps ==
    ASSUME UNCHANGED <<tryVars, at>>,
           {s \in Tries : wrote[s] = "report"}' = {s \in Tries : wrote[s] = "report"},
           \A s \in Tries :
               \/ AnalysisOf(s)' = AnalysisOf(s)
               \/ AnalysisOf(s) # "none" /\ AnalysisOf(s)' = "ended"
    PROVE  Lifecycle!Vanish
<1> DEFINE S == {s \in Tries : AnalysisOf(s)' # AnalysisOf(s)}
<1>1. S \in SUBSET {s \in Tries : AnalysisOf(s) # "none"}
  OBVIOUS
<1>2. \A s \in Tries : AnalysisOf(s)' = IF s \in S THEN "ended" ELSE AnalysisOf(s)
  OBVIOUS
<1> HIDE DEF S
<1>3. [s \in Tries |-> AnalysisOf(s)'] = [s \in Tries |-> IF s \in S THEN "ended" ELSE AnalysisOf(s)]
  BY <1>2
<1>4. UNCHANGED <<pc, faults, at>>
  BY DEF tryVars
<1>5. [s \in Tries |-> TaskOf(s)]' = [s \in Tries |-> TaskOf(s)]
  BY <1>4 DEF TaskOf
<1> QED BY <1>1, <1>3, <1>4, <1>5 DEF Lifecycle!Vanish

\* What a host does by itself maps to Launch, Report or Vanish.
LEMMA HostMaps ==
    ASSUME TypeOK, NotSubmittedYet, WritesOnce, UNCHANGED tryVars,
           NEW t \in Tries, HostStep(t)
    PROVE  Lifecycle!Launch(t) \/ Lifecycle!Report(t) \/ Lifecycle!Vanish
<1> DEFINE Analysis == [s \in Tries |-> AnalysisOf(s)]
           Reports == {s \in Tries : wrote[s] = "report"}
<1> USE DEF TypeOK, HostTypeOK, NotSubmittedYet, WritesOnce
<1>1. UNCHANGED <<pc, faults, at>> /\ \A s \in Tries : TaskOf(s)' = TaskOf(s)
  BY DEF tryVars, TaskOf, HostStep, ForkJob, RefuseJob, RecordPid, FinishJob, JobDies, CliExits, jobVars
<1>2. CASE ForkJob(t)
  <2>1. Analysis[t] = "asked" /\ AnalysisOf(t)' = "running"
    BY <1>2 DEF ForkJob, AnalysisOf
  <2>2. \A s \in Tries \ {t} : AnalysisOf(s)' = AnalysisOf(s)
    BY <1>2 DEF ForkJob, AnalysisOf
  <2>3. Analysis' = [Analysis EXCEPT ![t] = "running"] /\ wrote' = wrote
    BY <1>2, <2>1, <2>2 DEF ForkJob
  <2> QED BY <1>1, <2>1, <2>3 DEF Lifecycle!Launch
<1>3. CASE FinishJob(t) /\ wrote'[t] = "report" /\ wrote[t] # "report"
  <2>1. Analysis[t] = "running" /\ AnalysisOf(t)' = "ended"
    BY <1>3 DEF FinishJob, AnalysisOf
  <2>2. \A s \in Tries \ {t} : AnalysisOf(s)' = AnalysisOf(s) /\ wrote'[s] = wrote[s]
    BY <1>3 DEF FinishJob, AnalysisOf
  <2>3. Analysis' = [Analysis EXCEPT ![t] = "ended"] /\ Reports' = Reports \cup {t}
    BY <1>3, <2>1, <2>2
  <2> QED BY <1>1, <2>1, <2>3 DEF Lifecycle!Report
<1>4. CASE FinishJob(t) /\ ~(wrote'[t] = "report" /\ wrote[t] # "report")
  <2>1. AnalysisOf(t) = "running" /\ AnalysisOf(t)' = "ended"
    BY <1>4 DEF FinishJob, AnalysisOf
  <2>2. \A s \in Tries \ {t} : AnalysisOf(s)' = AnalysisOf(s) /\ wrote'[s] = wrote[s]
    BY <1>4 DEF FinishJob, AnalysisOf
  <2>3. wrote[t] = "nothing"
    BY <1>4 DEF FinishJob
  <2>4. Reports' = Reports
    BY <1>4, <2>2, <2>3
  <2> QED BY <1>1, <2>1, <2>2, <2>4, VanishMaps
<1>5. CASE RefuseJob(t) \/ RecordPid(t) \/ JobDies(t) \/ CliExits(t)
  <2>1. \A s \in Tries :
            \/ AnalysisOf(s)' = AnalysisOf(s)
            \/ AnalysisOf(s) # "none" /\ AnalysisOf(s)' = "ended"
    BY <1>5 DEF RefuseJob, RecordPid, JobDies, CliExits, jobVars, AnalysisOf
  <2>2. Reports' = Reports
    BY <1>5 DEF RefuseJob, RecordPid, JobDies, CliExits, jobVars
  <2> QED BY <1>1, <2>1, <2>2, VanishMaps
<1> QED BY <1>2, <1>3, <1>4, <1>5 DEF HostStep

\* A reboot maps to Vanish.
LEMMA RebootMaps ==
    ASSUME TypeOK, NotSubmittedYet, UNCHANGED tryVars, NEW h \in Hosts, Reboot(h)
    PROVE  Lifecycle!Vanish
<1>1. \A s \in Tries :
          \/ AnalysisOf(s)' = AnalysisOf(s)
          \/ AnalysisOf(s) # "none" /\ AnalysisOf(s)' = "ended"
  BY DEF TypeOK, HostTypeOK, NotSubmittedYet, Reboot, InFlight, AnalysisOf
<1>2. UNCHANGED <<at, wrote>>
  BY DEF Reboot
<1> QED BY <1>1, <1>2, VanishMaps

\* With workers, commands whose answers may be lost, sweeps, kills and crashes,
\* a task instance keeps the promises of AnalysisLifecycle, and so by its
\* theorems every one that follows from them.
THEOREM KeepsItsPromises == ASSUME ~Overlap, InOrder PROVE Spec => IsAnalysisLifecycle
<1>1. Init => Lifecycle!Init
  BY DEF Init, HostInit, Lifecycle!Init, TaskOf, AnalysisOf
<1>2. /\ TypeOK /\ TypeOK' /\ BaseInv /\ TryInv /\ HostInv /\ EndInv'
      /\ [Next]_vars
      => [Lifecycle!Next]_(Lifecycle!lifecycleVars)
  <2> SUFFICES ASSUME TypeOK, TypeOK', BaseInv, TryInv, HostInv, EndInv', [Next]_vars
               PROVE  Lifecycle!Next \/ UNCHANGED Lifecycle!lifecycleVars
    OBVIOUS
  <2> USE DEF BaseInv, TryInv, EndInv
  <2>1. ASSUME NEW t \in Tries, StartTry(t) PROVE Lifecycle!Next
    BY <2>1, StartMaps DEF Lifecycle!Next
  <2>2. ASSUME NEW t \in Tries, Submit(t) PROVE Lifecycle!Next
    BY <2>2, SubmitMaps DEF Lifecycle!Next
  <2>3. ASSUME NEW t \in Tries, WorkerStep(t) \/ AirflowStep(t), ~StartTry(t), ~Submit(t)
        PROVE  Lifecycle!Next
    BY <2>3, TryStepMaps DEF Lifecycle!Next
  <2>4. ASSUME NEW t \in Tries, HostStep(t), UNCHANGED tryVars PROVE Lifecycle!Next
    BY <2>4, HostMaps DEF Lifecycle!Next
  <2>5. ASSUME NEW h \in Hosts, Reboot(h), UNCHANGED tryVars PROVE Lifecycle!Next
    BY <2>5, RebootMaps DEF Lifecycle!Next
  <2>6. CASE UNCHANGED vars
    BY <2>6 DEF vars, hostVars, jobVars, tryVars, TaskOf, AnalysisOf, Lifecycle!lifecycleVars
  <2> QED BY <2>1, <2>2, <2>3, <2>4, <2>5, <2>6 DEF Next
<1> QED BY <1>1, <1>2, TypeCorrect, BaseInvariant, TryInvariant,
           HostInvariant, EndInvariant, PTL DEF Spec, IsAnalysisLifecycle, Lifecycle!Spec

-----------------------------------------------------------------------------
(* What follows for RemoteJob from the theorems about AnalysisLifecycle.   *)

Promised == INSTANCE AnalysisLifecycle_proofs WITH
    task <- [t \in Tries |-> TaskOf(t)],
    analysis <- [t \in Tries |-> AnalysisOf(t)],
    scope <- at,
    reports <- {t \in Tries : wrote[t] = "report"},
    excused <- {t \in Tries : faults[t] # {}}

\* A try succeeds only if its own job, and no other try's, has left a report,
\* or if it submitted no job and made the report itself.
THEOREM SucceedsByOwnReport ==
    ASSUME ~Overlap, InOrder
    PROVE  Spec => [](\A t \in Tries :
                          pc[t] = "success" => wrote[t] = "report" \/ launch[t] = "unsent")
<1>1. Lifecycle!Init => Promised!Init
  BY DEF Lifecycle!Init, Promised!Init
<1>2. [Lifecycle!Next]_(Lifecycle!lifecycleVars) => [Promised!Next]_(Promised!lifecycleVars)
  BY DEF Lifecycle!Next, Promised!Next, Lifecycle!Begin, Promised!Begin,
         Lifecycle!Proceed, Promised!Proceed, Lifecycle!End, Promised!End,
         Lifecycle!Launch, Promised!Launch, Lifecycle!Report, Promised!Report,
         Lifecycle!Ask, Promised!Ask, Lifecycle!Vanish, Promised!Vanish,
         Lifecycle!StopSome, Promised!StopSome, Lifecycle!Excuse, Promised!Excuse,
         Lifecycle!AtWork, Promised!AtWork, Lifecycle!Wanted, Promised!Wanted,
         Lifecycle!lifecycleVars, Promised!lifecycleVars
<1>3. Promised!Spec => []Promised!OwnReport
  BY Promised!Promises, PTL
<1>4. Promised!OwnReport =>
          \A t \in Tries : pc[t] = "success" => wrote[t] = "report" \/ launch[t] = "unsent"
  BY MapTypes DEF Promised!OwnReport
<1> QED BY <1>1, <1>2, <1>3, <1>4, KeepsItsPromises, PTL
        DEF IsAnalysisLifecycle, Lifecycle!Spec, Promised!Spec

=============================================================================
