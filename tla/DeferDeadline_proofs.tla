------------------------- MODULE DeferDeadline_proofs -------------------------
(***************************************************************************)
(* Theorems about DeferDeadline, for any grace of at least two seconds and *)
(* any timeouts, poll intervals and limits.                                *)
(***************************************************************************)
EXTENDS DeferDeadline, TLAPS

Types ==
    /\ timeout \in Timeouts /\ poll \in Polls /\ limit \in Limits \cup {NoLimit}
    /\ timeout \in Nat /\ timeout > 0 /\ poll \in Nat /\ poll > 0
    /\ limit = NoLimit \/ (limit \in Nat /\ limit > 0)
    /\ markdown \in BOOLEAN /\ outage \in BOOLEAN
    /\ phase \in Phases /\ job \in Jobs
    /\ now \in Nat /\ runAt \in Nat /\ endedAt \in Nat /\ submittedAt \in Nat
    /\ deferredAt \in Nat /\ until \in Nat /\ nextPoll \in Nat /\ sentAt \in Nat
    /\ commands \in 0..7 /\ (commands > 0 <=> phase \in Working)

AfterSubmit == {"submitted", "deferred", "resumed", "gaveUp"}

\* A CLI run is never past its timeout, and the job is never later than its
\* runs allow, counted from the submission that came after it started.
JobInv ==
    /\ job \in Running => runAt <= now /\ now <= runAt + timeout
    /\ job = "second" => markdown
    /\ job = "ended" => endedAt <= now
    /\ phase \in AfterSubmit =>
          /\ submittedAt <= now
          /\ job # "none"
          /\ job = "first" => runAt <= submittedAt
          /\ job = "second" => runAt <= submittedAt + timeout
          /\ job = "ended" => endedAt <= submittedAt + JobTime

\* The deferral's end lies past the job's time and the grace or, if it comes
\* first, at the task's limit.
DeadlineInv ==
    /\ phase \in {"submitting", "submitted"} /\ limit # NoLimit => now <= limit
    /\ phase \in {"deferred", "gaveUp"} =>
          /\ deferredAt <= now
          /\ until > deferredAt
          /\ \/ until >= submittedAt + JobTime + Grace
             \/ limit # NoLimit /\ until >= limit
          /\ until <= submittedAt + JobTime + Grace \/ until <= deferredAt + 1
          /\ limit # NoLimit => deferredAt <= limit /\ (until <= limit \/ until <= deferredAt + 1)
    /\ phase = "deferred" => now <= until
    /\ phase = "gaveUp" => now >= until

\* The trigger has looked at a finished job, or would within one poll_interval
\* of the end of the deferral.
PollInv ==
    phase \in {"deferred", "gaveUp"} =>
        /\ phase = "deferred" => now <= nextPoll
        /\ phase = "gaveUp" => until <= nextPoll
        /\ ~outage => nextPoll <= now + poll
        /\ ~outage /\ job = "ended" => nextPoll <= endedAt + poll \/ nextPoll <= deferredAt

\* What a worker's commands may take together, one after another.
CommandsEnd == sentAt + commands * CommandTimeout

\* The commands that are left were all sent in time: those of a collect() or an
\* abandon() from a second after the limit on, those of an on_kill() after them.
WorkInv ==
    phase \in Working =>
        /\ sentAt <= now /\ now <= sentAt + CommandTimeout
        /\ phase = "timedOut" => commands <= AbandonCommands
        /\ phase # "timedOut" => commands <= CollectCommands
        /\ limit # NoLimit =>
              CommandsEnd <= limit + 1 + CollectCommands * CommandTimeout
                             + (IF phase = "timedOut" THEN AbandonCommands * CommandTimeout ELSE 0)

ClockInv == Types /\ JobInv /\ DeadlineInv /\ PollInv
Inv == ClockInv /\ WorkInv

\* A command fewer takes a CommandTimeout less.
LEMMA FewerCommands ==
    ASSUME NEW a \in 0..7, NEW b \in 0..7, a < b
    PROVE  a * CommandTimeout + CommandTimeout <= b * CommandTimeout
BY CommandAssumption

LEMMA InitInv == Init => Inv
<1> SUFFICES ASSUME Init PROVE Inv
  OBVIOUS
<1>1. Types
  <2>1. /\ timeout \in Timeouts /\ timeout \in Nat \ {0}
        /\ poll \in Polls /\ poll \in Nat \ {0}
        /\ limit \in Limits \cup {NoLimit} /\ (limit = NoLimit \/ limit \in Nat \ {0})
    BY ConfAssumption DEF Init
  <2>2. markdown \in BOOLEAN /\ outage \in BOOLEAN
    BY Zenon DEF Init
  <2> QED
    BY <2>1, <2>2 DEF Init, Types, Phases, Jobs, Working
<1>2. JobInv
  BY DEF Init, JobInv, Running, AfterSubmit
<1>3. DeadlineInv
  BY <1>1 DEF Init, Types, DeadlineInv
<1>4. PollInv
  BY DEF Init, PollInv
<1> QED
  BY <1>1, <1>2, <1>3, <1>4 DEF Inv, ClockInv, Init, WorkInv, Working

\* The clocks of the job and of the deferral.
LEMMA ClockStep == ClockInv /\ [Next]_vars => ClockInv'
<1> SUFFICES ASSUME ClockInv, [Next]_vars PROVE ClockInv'
  OBVIOUS
<1> USE GraceAssumption, ConfAssumption
    DEF ClockInv, Types, JobInv, DeadlineInv, PollInv, Phases, Jobs, Running, AfterSubmit, Working,
        conf, jobVars, deferVars, workVars, JobTime
<1>1. CASE Pass
  BY <1>1 DEF Pass
<1>2. CASE StartJob
  BY <1>2 DEF StartJob
<1>3. CASE EndRun
  BY <1>3 DEF EndRun
<1>4. CASE HangJob
  BY <1>4 DEF HangJob
<1>5. CASE Submitted
  BY <1>5 DEF Submitted
<1>6. CASE Defer
  BY <1>6 DEF Defer, CappedTimeout, DeferTimeout, Earlier, Later
<1>7. CASE Poll
  BY <1>7 DEF Poll, Work, CollectCommands
<1>8. CASE Outage
  BY <1>8 DEF Outage
<1>9. CASE GiveUp
  BY <1>9 DEF GiveUp, Work, AbandonCommands
<1>10. CASE TimeOut
  BY <1>10 DEF TimeOut, Work, AbandonCommands
<1>11. CASE UNCHANGED vars
  BY <1>11 DEF vars
<1>12. CASE EndCommand
  BY <1>12 DEF EndCommand, Work
<1> QED
  BY <1>1, <1>2, <1>3, <1>4, <1>5, <1>6, <1>7, <1>8, <1>9, <1>10, <1>11, <1>12 DEF Next

\* The clock of a worker's commands.
LEMMA WorkStep == Inv /\ [Next]_vars => WorkInv'
<1> SUFFICES ASSUME Inv, [Next]_vars PROVE WorkInv'
  OBVIOUS
<1> USE CommandAssumption DEF Inv, ClockInv, Types, WorkInv, Working, CommandsEnd
<1>1. CASE Pass
  BY <1>1 DEF Pass, conf, workVars, CollectCommands, AbandonCommands
<1>2. CASE StartJob \/ EndRun \/ HangJob \/ Submitted \/ Defer \/ Outage \/ UNCHANGED vars
  BY <1>2 DEF StartJob, EndRun, HangJob, Submitted, Defer, Outage, vars, conf, workVars,
              CollectCommands, AbandonCommands
<1>3. CASE Poll
  <2>1. CASE job = "ended"
    <3>1. limit # NoLimit => now <= limit + 1
      BY <1>3 DEF Poll, DeadlineInv
    <3> QED BY <1>3, <2>1, <3>1 DEF Poll, Work, conf, CollectCommands
  <2>2. CASE job # "ended"
    BY <1>3, <2>2 DEF Poll, workVars
  <2> QED BY <2>1, <2>2
<1>4. CASE GiveUp
  <2>1. limit # NoLimit => now <= limit + 1
    BY <1>4 DEF GiveUp, DeadlineInv
  <2> QED BY <1>4, <2>1 DEF GiveUp, Work, conf, CollectCommands, AbandonCommands
<1>5. CASE TimeOut
  <2>1. now <= limit + 1 + CollectCommands * CommandTimeout
    <3>1. CASE phase \in {"submitting", "submitted"}
      BY <1>5, <3>1 DEF TimeOut, DeadlineInv, CollectCommands
    <3>2. CASE phase \in {"resumed", "gaveUp"}
      <4>1. 0 * CommandTimeout + CommandTimeout <= commands * CommandTimeout
        BY <3>2, FewerCommands
      <4> QED BY <1>5, <3>2, <4>1 DEF TimeOut, CollectCommands
    <3> QED BY <1>5, <3>1, <3>2 DEF TimeOut
  <2> QED BY <1>5, <2>1 DEF TimeOut, Work, conf, CollectCommands, AbandonCommands
<1>6. CASE EndCommand
  <2>1. PICK n \in 0..(commands - 1) : Work(IF n = 0 THEN "done" ELSE phase, n)
    BY <1>6 DEF EndCommand
  <2>2. n * CommandTimeout + CommandTimeout <= commands * CommandTimeout
    BY <2>1, FewerCommands
  <2>3. n * CommandTimeout \in Nat /\ commands * CommandTimeout \in Nat
    BY <2>1
  <2> QED BY <1>6, <2>1, <2>2, <2>3 DEF EndCommand, Work, conf, CollectCommands, AbandonCommands
<1> QED
  BY <1>1, <1>2, <1>3, <1>4, <1>5, <1>6 DEF Next

LEMMA StepInv == Inv /\ [Next]_vars => Inv'
BY ClockStep, WorkStep DEF Inv

LEMMA InvHolds == Spec => []Inv
BY InitInv, StepInv, PTL DEF Spec

\* Every variable keeps its type, and a deferral's timeout is positive.
THEOREM TypeCorrect == Spec => []TypeOK
<1>1. Inv => TypeOK
  BY DEF Inv, ClockInv, Types, DeadlineInv, TypeOK
<1> QED
  BY <1>1, InvHolds, PTL

\* A deferral leaves every CLI run of its job the time it may take.
THEOREM FullTime == Spec => []JobHasItsTime
<1>1. Inv => JobHasItsTime
  BY GraceAssumption DEF Inv, ClockInv, Types, JobInv, DeadlineInv, JobHasItsTime, Running, AfterSubmit, JobTime
<1> QED
  BY <1>1, InvHolds, PTL

\* A deferral that is neither cut short nor kept from its polls, which come
\* more often than the grace, gives up on no job that has finished.
THEOREM BackstopOnly == Spec => []FinishedJobIsSeen
<1>1. Inv => FinishedJobIsSeen
  BY GraceAssumption DEF Inv, ClockInv, Types, JobInv, DeadlineInv, PollInv, FinishedJobIsSeen, AfterSubmit, JobTime
<1> QED
  BY <1>1, InvHolds, PTL

\* A deferral gives up when the documentation says.
THEOREM DeadlinesKept == Spec => []GivesUpInTime
<1>1. Inv => GivesUpInTime
  BY GraceAssumption DEF Inv, ClockInv, Types, JobInv, DeadlineInv, GivesUpInTime, Later, JobTime, AfterSubmit
<1> QED
  BY <1>1, InvHolds, PTL

\* An execution_timeout ends a try that has not deferred, a deferral within a
\* second, and every later worker within its commands' timeouts.
THEOREM LimitKept == Spec => []EndsWithinLimit
<1>1. Inv => EndsWithinLimit
  <2> SUFFICES ASSUME Inv, limit # NoLimit PROVE EndsWithinLimit
    BY DEF EndsWithinLimit
  <2>1. phase \in {"submitting", "submitted"} => now <= limit
    BY DEF Inv, ClockInv, DeadlineInv
  <2>2. phase = "deferred" => now <= limit + 1
    BY DEF Inv, ClockInv, Types, DeadlineInv
  <2>3. ASSUME phase \in Working
        PROVE  now <= limit + 1 + (CollectCommands + AbandonCommands) * CommandTimeout
    <3>1. 0 * CommandTimeout + CommandTimeout <= commands * CommandTimeout
      BY <2>3, FewerCommands DEF Inv, ClockInv, Types
    <3>2. /\ limit \in Nat /\ now \in Nat /\ sentAt \in Nat /\ commands \in 0..7
          /\ now <= sentAt + CommandTimeout
          /\ sentAt + commands * CommandTimeout <= limit + 1 + CollectCommands * CommandTimeout
                             + (IF phase = "timedOut" THEN AbandonCommands * CommandTimeout ELSE 0)
      BY <2>3 DEF Inv, ClockInv, Types, WorkInv, CommandsEnd
    <3> QED BY <3>1, <3>2, CommandAssumption DEF CollectCommands, AbandonCommands
  <2> QED BY <2>1, <2>2, <2>3 DEF EndsWithinLimit
<1> QED
  BY <1>1, InvHolds, PTL

=============================================================================
