---------------------------- MODULE SyncRun_proofs ----------------------------
(***************************************************************************)
(* Theorems about SyncRun: what a kill finds at each statement of          *)
(* analyze(), and what it can therefore stop.                              *)
(***************************************************************************)
EXTENDS SyncRun, TLAPS

Clearing == {"clear", "clearPid", "clearChannel", "result"}

\* What each statement has set and cleared of the three attributes: nothing
\* of the report run is left by the time the Markdown run keeps its own.
HookInv ==
    /\ {argv, pid, channel} \subseteq {n, None}
    /\ pc \in {"connect", "clear"} \cup Polling => argv = n
    /\ pc \in {"clearPid", "clearChannel", "result", "argv"} => argv = None
    /\ pc \in {"clearChannel", "result", "argv"} => pid = None
    /\ pc \in {"result", "argv"} => channel = None

\* The runs come one after another: a later one has not begun, an earlier one
\* has ended, and an exit status is that of a run which has.
RunsInv ==
    /\ \A r \in Runs : r > n => cli[r] = "none"
    /\ pc \in {"argv", "connect", "exec"} => cli[n] = "none"
    /\ n = 2 => cli[1] \notin Alive
    /\ \A r \in status : cli[r] \notin Alive \cup {"none"}
    /\ pc \in Clearing /\ ok => cli[n] \notin Alive

\* A recorded pid is one that was printed.
PidInv == pid # None => cli[pid] \notin {"none", "launched", "refused"}

\* A stop command is about the run at hand.  One that has seen the CLI at its
\* pid finds it there still, or one of the runs that ended in between; one that
\* is over leaves the CLI alive only if it found the launcher.
StopInv ==
    /\ stop # "none" => pc \in {"await", "killed", "crashed"}
    /\ pc = "await" => stop # "none"
    /\ pc = "stop" \/ stop # "none" => target = n /\ cli[n] \notin {"none", "launched", "refused"}
    /\ stop = "matched" => cli[n] = "running" \/ n \in raced
    /\ stop = "over" /\ cli[n] \in Alive => "early" \in faults
    /\ \A r \in raced : cli[r] \notin Alive \cup {"none"}

\* A CLI that a kill cannot find any more has ended, or was given up on; one
\* that a finished kill has left alive, it could not have stopped.
KillInv ==
    /\ pc \in Clearing /\ cli[n] \in Alive => "gaveUp" \in faults
    /\ pc = "onkill" /\ argv = None /\ cli[n] \in Alive => "gaveUp" \in faults
    /\ pc = "killed" /\ cli[n] \in Alive => faults # {}

Inv == HookInv /\ RunsInv /\ PidInv /\ StopInv /\ KillInv /\ StrangersUntouched

\* The steps of the host, and no step at all.
HostSteps ==
    \/ UNCHANGED vars
    \/ \E r \in Runs : PrintPid(r) \/ BecomeCli(r) \/ CliExits(r) \/ ReusePid(r)
    \/ LookAtPid \/ SignalPid

-----------------------------------------------------------------------------
(* Types.                                                                  *)

\* Every step of the worker or of a kill keeps the types.
LEMMA TypeStepWorker ==
    ASSUME TypeOK, WorkerStep \/ Timeout \/ Sigterm \/ CutShort \/ Crash
    PROVE  TypeOK'
<1> USE DEF TypeOK, Live, Polling, Killing, Ended, Runs, None, hook, stopVars, CliStates, Faults
<1>1. CASE KeepArgv \/ Connect \/ KeepChannel \/ TakePid \/ ReadExit
  BY <1>1 DEF KeepArgv, Connect, KeepChannel, TakePid, ReadExit
<1>2. CASE Exec \/ Deadline
  BY <1>2 DEF Exec, Deadline, GiveUp, Cli
<1>3. CASE ClearArgv \/ ClearPid \/ ClearChannel \/ Result
  BY <1>3 DEF ClearArgv, ClearPid, ClearChannel, Result
<1>4. CASE Timeout \/ Sigterm \/ OnKill \/ CutShort \/ Crash
  BY <1>4 DEF Timeout, Sigterm, OnKill, CutShort, Crash
<1>5. CASE SendStop \/ AwaitStop
  BY <1>5 DEF SendStop, AwaitStop
<1> QED BY <1>1, <1>2, <1>3, <1>4, <1>5 DEF WorkerStep

\* Every step of the host keeps the types.
LEMMA TypeStepHost ==
    ASSUME TypeOK, HostSteps
    PROVE  TypeOK'
<1> USE DEF TypeOK, hook, stopVars, CliStates, Faults
<1>1. ASSUME NEW r \in Runs, PrintPid(r) \/ BecomeCli(r) \/ CliExits(r) \/ ReusePid(r)
      PROVE  TypeOK'
  <2>1. PICK s \in CliStates : cli' = [cli EXCEPT ![r] = s]
    BY <1>1 DEF PrintPid, BecomeCli, CliExits, ReusePid, Cli
  <2>2. cli' \in [Runs -> CliStates]
    BY <2>1
  <2>3. raced' \subseteq Runs /\ status' \subseteq Runs
    BY <1>1 DEF PrintPid, BecomeCli, CliExits, ReusePid
  <2> QED BY <1>1, <2>2, <2>3 DEF PrintPid, BecomeCli, CliExits, ReusePid
<1>2. CASE LookAtPid
  BY <1>2 DEF LookAtPid
<1>3. CASE SignalPid
  BY <1>3 DEF SignalPid
<1>4. CASE UNCHANGED vars
  BY <1>4 DEF vars
<1> QED BY <1>1, <1>2, <1>3, <1>4 DEF HostSteps

\* Type correctness of the model.
THEOREM TypeCorrect == Spec => []TypeOK
<1>1. Init => TypeOK
  BY DEF Init, TypeOK, Live, Polling, Runs, None, CliStates
<1>2. TypeOK /\ [Next]_vars => TypeOK'
  <2> SUFFICES ASSUME TypeOK, [Next]_vars PROVE TypeOK'
    OBVIOUS
  <2> QED BY TypeStepWorker, TypeStepHost DEF Next, HostSteps
<1> QED BY <1>1, <1>2, PTL DEF Spec

-----------------------------------------------------------------------------
(* What the steps have in common.                                          *)

\* A process that has a pid does not lose it, and nothing comes back to life.
Ages ==
    \A r \in Runs :
        /\ cli'[r] \in Alive => cli[r] \in Alive
        /\ cli[r] = "none" <=> cli'[r] = "none"
        /\ cli[r] \notin {"none", "launched", "refused"} =>
               cli'[r] \notin {"none", "launched", "refused"}

\* Only exec_command starts a process.
LEMMA StepsAge ==
    ASSUME TypeOK, [Next]_vars, ~Exec
    PROVE  Ages
<1> USE DEF TypeOK, Ages
<1>1. CASE UNCHANGED cli
  BY <1>1
<1>2. CASE SignalPid
  BY <1>2 DEF SignalPid, Alive
<1>3. ASSUME NEW r \in Runs, PrintPid(r) \/ BecomeCli(r) \/ CliExits(r) \/ ReusePid(r)
      PROVE  Ages
  BY <1>3 DEF PrintPid, BecomeCli, CliExits, ReusePid, Cli, Alive
<1>4. CASE WorkerStep \/ LookAtPid \/ Timeout \/ Sigterm \/ CutShort \/ Crash
  <2>1. UNCHANGED cli
    BY <1>4 DEF WorkerStep, KeepArgv, Connect, KeepChannel, TakePid, ReadExit, Deadline,
                ClearArgv, ClearPid, ClearChannel, Result, OnKill, SendStop, AwaitStop, LookAtPid,
                Timeout, Sigterm, CutShort, Crash
  <2> QED BY <1>1, <2>1
<1> QED BY <1>1, <1>2, <1>3, <1>4 DEF Next, vars

\* The host changes nothing but processes, statuses and its own stop command; a
\* status appears with the death of its run.
LEMMA HostStepsKeep ==
    ASSUME TypeOK, HostSteps
    PROVE  /\ UNCHANGED <<markdown, pc, n, argv, pid, channel, ok, target, open>>
           /\ faults \subseteq faults'
           /\ \A r \in status' \ status : cli'[r] \notin Alive \cup {"none"}
           /\ Ages
<1>1. /\ UNCHANGED <<markdown, pc, n, argv, pid, channel, ok, target, open>>
      /\ faults \subseteq faults'
      /\ \A r \in status' \ status : cli'[r] \notin Alive \cup {"none"}
  BY DEF TypeOK, HostSteps, vars, hook, stopVars, PrintPid, BecomeCli, CliExits, ReusePid, Cli, Alive,
         LookAtPid, SignalPid
<1>2. ~Exec
  BY <1>1 DEF Exec, GiveUp
<1>3. Ages
  BY <1>2, StepsAge DEF HostSteps, Next
<1> QED BY <1>1, <1>3

-----------------------------------------------------------------------------
(* The invariants, step by step.                                           *)

\* Every statement keeps and clears the attributes of its own run.
LEMMA HookStep ==
    ASSUME TypeOK, HookInv, [Next]_vars
    PROVE  HookInv'
<1> USE DEF TypeOK, HookInv, Live, Polling, Killing, Ended, Runs, None, hook
<1>1. CASE HostSteps
  BY <1>1, HostStepsKeep
<1>2. CASE KeepArgv \/ Connect \/ KeepChannel \/ TakePid \/ ReadExit
  BY <1>2 DEF KeepArgv, Connect, KeepChannel, TakePid, ReadExit
<1>3. CASE Exec \/ Deadline
  BY <1>3 DEF Exec, Deadline, GiveUp
<1>4. CASE ClearArgv \/ ClearPid \/ ClearChannel \/ Result
  BY <1>4 DEF ClearArgv, ClearPid, ClearChannel, Result
<1>5. CASE Timeout \/ Sigterm \/ OnKill \/ SendStop \/ AwaitStop \/ CutShort \/ Crash
  BY <1>5 DEF Timeout, Sigterm, OnKill, SendStop, AwaitStop, CutShort, Crash
<1> QED BY <1>1, <1>2, <1>3, <1>4, <1>5 DEF Next, WorkerStep, HostSteps

\* The Markdown run begins only after the report run has ended with a report.
LEMMA RunsStep ==
    ASSUME TypeOK, TypeOK', HookInv, RunsInv, PidInv, [Next]_vars
    PROVE  RunsInv'
<1> USE DEF TypeOK, RunsInv, Live, Polling, Killing, Ended, Runs, None, hook, Clearing
<1>1. CASE HostSteps
  BY <1>1, HostStepsKeep DEF Ages
<1>2. CASE KeepArgv \/ Connect \/ KeepChannel \/ TakePid
  BY <1>2 DEF KeepArgv, Connect, KeepChannel, TakePid
<1>3. CASE ReadExit
  BY <1>3 DEF ReadExit
<1>4. CASE Exec
  <2>1. \A r \in Runs : r # n => cli'[r] = cli[r]
    BY <1>4 DEF Exec, Cli, GiveUp
  <2>2. n \notin status
    BY <1>4 DEF Exec, Alive
  <2> QED BY <1>4, <2>1, <2>2 DEF Exec, GiveUp
<1>5. CASE Deadline \/ ClearArgv \/ ClearPid \/ ClearChannel \/ Result
  BY <1>5 DEF Deadline, GiveUp, ClearArgv, ClearPid, ClearChannel, Result
<1>6. CASE Timeout \/ Sigterm \/ OnKill \/ SendStop \/ AwaitStop \/ CutShort \/ Crash
  BY <1>6 DEF Timeout, Sigterm, OnKill, SendStop, AwaitStop, CutShort, Crash
<1> QED BY <1>1, <1>2, <1>3, <1>4, <1>5, <1>6 DEF Next, WorkerStep, HostSteps

\* A pid that was taken stays that of a printed line.
LEMMA PidStep ==
    ASSUME TypeOK, HookInv, RunsInv, PidInv, [Next]_vars
    PROVE  PidInv'
<1> USE DEF TypeOK, PidInv, Runs, None, hook
<1>1. CASE HostSteps
  BY <1>1, HostStepsKeep DEF Ages
<1>2. CASE KeepArgv \/ Connect \/ KeepChannel \/ TakePid \/ ReadExit
  BY <1>2 DEF KeepArgv, Connect, KeepChannel, TakePid, ReadExit
<1>3. CASE Exec
  <2>1. pc = "exec" /\ pid \in {n, None} /\ UNCHANGED pid
    BY <1>3 DEF Exec, GiveUp, HookInv
  <2>2. pid = None
    BY <1>3, <2>1 DEF RunsInv
  <2> QED BY <2>1, <2>2
<1>4. CASE Deadline \/ ClearArgv \/ ClearPid \/ ClearChannel \/ Result
  BY <1>4 DEF Deadline, GiveUp, ClearArgv, ClearPid, ClearChannel, Result
<1>5. CASE Timeout \/ Sigterm \/ CutShort \/ Crash
  BY <1>5 DEF Timeout, Sigterm, CutShort, Crash
<1>6. CASE OnKill \/ SendStop \/ AwaitStop
  BY <1>6 DEF OnKill, SendStop, AwaitStop
<1> QED BY <1>1, <1>2, <1>3, <1>4, <1>5, <1>6 DEF Next, WorkerStep, HostSteps

\* A stop command stays about the run at hand, and finds what it looked at or a
\* run that ended since.
LEMMA StopStep ==
    ASSUME TypeOK, HookInv, RunsInv, PidInv, StopInv, [Next]_vars
    PROVE  StopInv'
<1> USE DEF TypeOK, StopInv, Live, Polling, Killing, Ended, Runs, None, hook, stopVars
<1>1. CASE UNCHANGED vars
  BY <1>1 DEF vars
<1>2. ASSUME NEW r \in Runs, PrintPid(r) \/ BecomeCli(r) \/ CliExits(r) \/ ReusePid(r)
      PROVE  StopInv'
  BY <1>2 DEF PrintPid, BecomeCli, CliExits, ReusePid, Cli, Alive
<1>3. CASE LookAtPid
  BY <1>3 DEF LookAtPid, Alive
<1>4. CASE SignalPid
  BY <1>4 DEF SignalPid, Alive
<1>5. CASE KeepArgv \/ Connect \/ KeepChannel \/ TakePid \/ ReadExit
  BY <1>5 DEF KeepArgv, Connect, KeepChannel, TakePid, ReadExit
<1>6. CASE Exec
  <2>1. pc = "exec" /\ pc' \in {"channel", "clear"} /\ stop' = stop /\ raced' = raced
    BY <1>6 DEF Exec, GiveUp
  <2>2. \A r \in raced : cli'[r] \notin Alive \cup {"none"}
    BY <1>6, <2>1 DEF Exec, GiveUp, Cli, RunsInv
  <2> QED BY <2>1, <2>2
<1>7. CASE Deadline \/ ClearArgv \/ ClearPid \/ ClearChannel \/ Result
  BY <1>7 DEF Deadline, GiveUp, ClearArgv, ClearPid, ClearChannel, Result
<1>8. CASE Timeout \/ Sigterm \/ CutShort \/ Crash
  BY <1>8 DEF Timeout, Sigterm, CutShort, Crash
<1>9. CASE OnKill \/ SendStop \/ AwaitStop
  BY <1>9 DEF OnKill, SendStop, AwaitStop, HookInv, PidInv
<1> QED BY <1>1, <1>2, <1>3, <1>4, <1>5, <1>6, <1>7, <1>8, <1>9 DEF Next, WorkerStep

\* A kill stops the CLI of the run at hand, or records why it could not.
LEMMA KillStep ==
    ASSUME TypeOK, HookInv, RunsInv, StopInv, KillInv, [Next]_vars
    PROVE  KillInv'
<1> USE DEF TypeOK, KillInv, Live, Polling, Killing, Ended, Runs, None, hook, Clearing
<1>1. CASE HostSteps
  BY <1>1, HostStepsKeep DEF Ages
<1>2. CASE KeepArgv \/ Connect \/ KeepChannel \/ TakePid
  BY <1>2 DEF KeepArgv, Connect, KeepChannel, TakePid, RunsInv, Alive
<1>3. CASE ReadExit
  BY <1>3 DEF ReadExit, RunsInv
<1>4. CASE Exec \/ Deadline
  BY <1>4 DEF Exec, Deadline, GiveUp
<1>5. CASE ClearArgv \/ ClearPid \/ ClearChannel \/ Result
  BY <1>5 DEF ClearArgv, ClearPid, ClearChannel, Result
<1>6. CASE Timeout \/ Sigterm
  BY <1>6 DEF Timeout, Sigterm, HookInv, RunsInv, Alive
<1>7. CASE OnKill
  BY <1>7 DEF OnKill, HookInv
<1>8. CASE SendStop \/ AwaitStop
  BY <1>8 DEF SendStop, AwaitStop, StopInv
<1>9. CASE CutShort \/ Crash
  BY <1>9 DEF CutShort, Crash
<1> QED BY <1>1, <1>2, <1>3, <1>4, <1>5, <1>6, <1>7, <1>8, <1>9 DEF Next, WorkerStep, HostSteps

\* A process that got a pid by its reuse is signalled only in the window
\* between the look and the signal.
LEMMA StrangersStep ==
    ASSUME TypeOK, StopInv, StrangersUntouched, [Next]_vars
    PROVE  StrangersUntouched'
<1> USE DEF TypeOK, StrangersUntouched, hook, stopVars
<1>1. CASE SignalPid
  BY <1>1 DEF SignalPid, StopInv, Alive
<1>2. CASE Exec
  BY <1>2 DEF Exec, GiveUp, Cli
<1>3. ASSUME NEW r \in Runs, PrintPid(r) \/ BecomeCli(r) \/ CliExits(r) \/ ReusePid(r)
      PROVE  StrangersUntouched'
  BY <1>3 DEF PrintPid, BecomeCli, CliExits, ReusePid, Cli
<1>4. CASE UNCHANGED <<cli, raced>>
  BY <1>4
<1>5. CASE LookAtPid \/ (WorkerStep /\ ~Exec) \/ Timeout \/ Sigterm \/ CutShort \/ Crash
  <2>1. UNCHANGED <<cli, raced>>
    BY <1>5 DEF WorkerStep, KeepArgv, Connect, KeepChannel, TakePid, ReadExit, Deadline,
                ClearArgv, ClearPid, ClearChannel, Result, OnKill, SendStop, AwaitStop, LookAtPid,
                Timeout, Sigterm, CutShort, Crash
  <2> QED BY <1>4, <2>1
<1> QED BY <1>1, <1>2, <1>3, <1>4, <1>5 DEF Next, vars

-----------------------------------------------------------------------------
(* The theorems.                                                           *)

\* At every statement of analyze() and of on_kill(), the invariant holds.
LEMMA Invariant == Spec => []Inv
<1>1. Init => Inv
  BY DEF Init, Inv, HookInv, RunsInv, PidInv, StopInv, KillInv, StrangersUntouched, Polling, Clearing,
         Alive, Runs, None
<1>2. TypeOK /\ TypeOK' /\ Inv /\ [Next]_vars => Inv'
  BY HookStep, RunsStep, PidStep, StopStep, KillStep, StrangersStep DEF Inv
<1> QED BY <1>1, <1>2, TypeCorrect, PTL DEF Spec

\* on_kill() never mixes the attributes of the two runs.
THEOREM OneRunAtHand == Spec => []HoldsOneRun
<1>1. Inv => HoldsOneRun
  BY DEF Inv, HookInv, HoldsOneRun
<1> QED BY <1>1, Invariant, PTL

\* The Markdown run waits for the end of the report run.
THEOREM RunsInTurn == Spec => []OneCliAtATime
<1>1. TypeOK /\ Inv => OneCliAtATime
  BY DEF TypeOK, Inv, RunsInv, OneCliAtATime, Runs
<1> QED BY <1>1, TypeCorrect, Invariant, PTL

\* A stop reaches the CLI it was meant for, or nothing, or else the process
\* that got the pid between the look and the signal.
THEOREM StrangersSafe == Spec => []StrangersUntouched
<1>1. Inv => StrangersUntouched
  BY DEF Inv
<1> QED BY <1>1, Invariant, PTL

\* A kill that finds a pid and reaches the host leaves no CLI alive.
THEOREM KillsStop == Spec => []KilledAnalysisStops
<1>1. TypeOK /\ Inv => KilledAnalysisStops
  BY DEF TypeOK, Inv, RunsInv, KillInv, KilledAnalysisStops, Runs, Alive
<1> QED BY <1>1, TypeCorrect, Invariant, PTL

=============================================================================
