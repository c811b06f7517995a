--------------------------- MODULE RunReport_proofs ---------------------------
(***************************************************************************)
(* Theorems about RunReport, for every number of tries.                    *)
(***************************************************************************)
EXTENDS RunReport, TLAPS

-----------------------------------------------------------------------------
(* The CLI contract.                                                       *)

\* What any configuration can run is a run.
LEMMA AnyAnalysis ==
    ASSUME NEW w \in BOOLEAN, NEW d \in BOOLEAN
    PROVE  Analyses(w, d) \subseteq Analyses(TRUE, TRUE)
BY DEF Analyses

\* A run has a JSON run, and a Markdown run only after a usable JSON run.
LEMMA RunParts ==
    ASSUME NEW a \in Analyses(TRUE, TRUE)
    PROVE  /\ a.json \in JsonRuns
           /\ a.markdown # NoMarkdown => /\ a.json.exit \in UsableExits
                                         /\ a.markdown \in MarkdownRuns
BY DEF Analyses

\* The JSON run's error is a configuration error if and only if a retry cannot
\* clear it.
LEMMA JsonErrorIsFinal ==
    ASSUME NEW r \in JsonRuns
    PROVE  /\ JsonError(r) \in {"none", "error", "config"}
           /\ JsonError(r) = "config" <=> \/ r.text = "otherSchema" \/ r.exit = 2
                                          \/ r.cause = "permanent"
           /\ JsonError(r) = "none" <=> r.exit \in UsableExits /\ r.text = "report"
BY DEF JsonRuns, JsonError, CliError, ReportError, Exits, UsableExits, NotFoundExits,
       TimeoutExit, HistoryServerExits

\* So is the Markdown run's.
LEMMA MarkdownErrorIsFinal ==
    ASSUME NEW m \in MarkdownRuns
    PROVE  /\ m.exit = 2 \/ m.cause = "permanent" =>
                  CliError(m) = "config" /\ m.exit \notin UsableExits \cup {TimeoutExit, NoExit}
           /\ ~(m.exit = 2 \/ m.cause = "permanent") => CliError(m) = "error"
           /\ m # NoMarkdown
BY DEF MarkdownRuns, CliError, Exits, UsableExits, TimeoutExit, HistoryServerExits, NoExit, NoMarkdown

\* An analysis is hopeless if and only if it fails with a configuration error,
\* in the deferred as in the synchronous way.
LEMMA HopelessIsFinal ==
    ASSUME NEW a \in Analyses(TRUE, TRUE)
    PROVE  /\ AnalysisError(a) \in {"none", "error", "config"}
           /\ AnalysisError(a) = "config" <=> Hopeless(a)
<1>1. CASE a.markdown = NoMarkdown
  <2>1. Analyzed(a) = JsonError(a.json) /\ Collected(a) = JsonError(a.json)
    BY <1>1 DEF Analyzed, Collected
  <2>2. NoMarkdown.exit # 2 /\ NoMarkdown.cause # "permanent"
    BY DEF NoMarkdown, NoExit
  <2> QED BY <1>1, <2>1, <2>2, RunParts, JsonErrorIsFinal DEF AnalysisError, Hopeless
<1>2. CASE a.markdown # NoMarkdown
  <2>1. a.json \in JsonRuns /\ a.json.exit \in UsableExits /\ a.markdown \in MarkdownRuns
    BY <1>2, RunParts
  <2>2. CASE JsonError(a.json) # "none"
    <3>1. a.json.text # "report"
      BY <2>1, <2>2, JsonErrorIsFinal
    <3>2. AnalysisError(a) = JsonError(a.json)
      BY <2>2 DEF AnalysisError, Analyzed, Collected
    <3> QED BY <2>1, <3>1, <3>2, JsonErrorIsFinal DEF Hopeless
  <2>3. CASE JsonError(a.json) = "none"
    <3>1. a.json.text = "report" /\ a.json.exit # 2 /\ a.json.cause # "permanent"
      BY <2>1, <2>3, JsonErrorIsFinal
    <3>2. CASE a.markdown.exit = 2 \/ a.markdown.cause = "permanent"
      BY <1>2, <2>1, <2>3, <3>1, <3>2, MarkdownErrorIsFinal
         DEF AnalysisError, Analyzed, Collected, Hopeless
    <3>3. CASE ~(a.markdown.exit = 2 \/ a.markdown.cause = "permanent")
      BY <1>2, <2>1, <2>3, <3>1, <3>3, MarkdownErrorIsFinal
         DEF AnalysisError, Analyzed, Collected, Hopeless
    <3> QED BY <3>2, <3>3
  <2> QED BY <2>2, <2>3
<1> QED BY <1>1, <1>2

\* The two ways differ where the Markdown run exited as usual and wrote nothing,
\* and nowhere else.
LEMMA TheTwoWays ==
    ASSUME cli \in Analyses(TRUE, TRUE)
    PROVE  Collected(cli) # Analyzed(cli) <=> UnwrittenMarkdown
<1>1. CASE cli.markdown = NoMarkdown
  <2>1. cli.markdown.exit \notin UsableExits
    BY <1>1 DEF NoMarkdown, NoExit, UsableExits
  <2> QED BY <1>1, <2>1 DEF Analyzed, Collected, UnwrittenMarkdown
<1>2. CASE JsonError(cli.json) # "none"
  BY <1>2 DEF Analyzed, Collected, UnwrittenMarkdown
<1>3. CASE cli.markdown # NoMarkdown /\ JsonError(cli.json) = "none"
  <2>1. cli.markdown \in MarkdownRuns
    BY <1>3, RunParts
  <2>2. TimeoutExit \notin UsableExits /\ NoExit \notin UsableExits /\ TimeoutExit # NoExit
    BY DEF TimeoutExit, NoExit, UsableExits
  <2>3. cli.markdown.exit = NoExit => CliError(cli.markdown) = "error"
    BY DEF CliError, NoExit, HistoryServerExits
  <2>4. cli.markdown.exit \in UsableExits => Analyzed(cli) = "none"
    BY <1>3 DEF Analyzed
  <2> QED BY <1>3, <2>1, <2>2, <2>3, <2>4 DEF Analyzed, Collected, UnwrittenMarkdown, MarkdownRuns
<1> QED BY <1>1, <1>2, <1>3

-----------------------------------------------------------------------------
(* Types.                                                                  *)

\* What an analysis can leave, whatever the configuration.
LEMMA PickedRun ==
    ASSUME TypeOK, NEW a \in Analyses(conf.markdown, conf.entry = "resume")
    PROVE  a \in Analyses(TRUE, TRUE)
BY AnyAnalysis DEF TypeOK, Confs

\* A run belongs to a try.
Started == pc # "idle" => try \in Tries

\* A run is always of a try that was started.
LEMMA StartedStep ==
    ASSUME TypeOK, Started, [Next]_vars
    PROVE  Started'
<1> USE DEF TypeOK, Started
<1>1. CASE StartTry
  BY <1>1, RetryAssumption DEF StartTry, TriesLeft, Retried, NoSummary, Tries, NoTry
<1>2. CASE Locate
  BY <1>2 DEF Locate, Hold, Then
<1>3. CASE LocateBaseline
  BY <1>3 DEF LocateBaseline, Hold, Then, Raise
<1>4. CASE Analyze
  BY <1>4 DEF Analyze, Then, Raise
<1>5. CASE PersistJson
  BY <1>5 DEF PersistJson, Then, Raise
<1>6. CASE PersistMarkdown
  BY <1>6 DEF PersistMarkdown, Then, Raise
<1>7. CASE PushSummary
  BY <1>7 DEF PushSummary, Then, Raise
<1>8. CASE Notify
  BY <1>8 DEF Notify, Then
<1>9. CASE Decide
  BY <1>9 DEF Decide, Then, Raise
<1>10. CASE CleanupBaseline
  BY <1>10 DEF CleanupBaseline, Cleanup
<1>11. CASE CleanupLog
  BY <1>11 DEF CleanupLog, Cleanup
<1>12. CASE Return
  BY <1>12 DEF Return, ReturnFromOperator, ReturnFromCallback, Outcome
<1>13. CASE Kill
  BY <1>13 DEF Kill, Body
<1>14. CASE Crash
  BY <1>14 DEF Crash
<1>15. CASE UNCHANGED vars
  BY <1>15 DEF vars
<1> QED BY <1>1, <1>2, <1>3, <1>4, <1>5, <1>6, <1>7, <1>8, <1>9, <1>10, <1>11, <1>12, <1>13, <1>14, <1>15 DEF Next

\* Every step keeps the types.
LEMMA TypeStep ==
    ASSUME TypeOK, Started, [Next]_vars
    PROVE  TypeOK'
<1> USE DEF TypeOK, Started, Steps, Exceptions, Outcomes
<1>1. CASE StartTry
  <2>1. try' \in Tries
    BY <1>1, RetryAssumption DEF StartTry, TriesLeft, Tries, NoTry
  <2>2. pc' \in Steps /\ located' \subseteq Logs
    BY <1>1 DEF StartTry, Body, Logs
  <2>3. exc' \in Exceptions /\ cli' \in AnyRun /\ recorded' \in BOOLEAN
    BY <1>1 DEF StartTry, AnyRun
  <2>4. summary' \in [try : Tries \cup {NoTry}, violated : BOOLEAN] /\ retval' \in Tries \cup {NoTry}
    BY <1>1 DEF StartTry, NoSummary
  <2>5. UNCHANGED <<conf, json, md, staged, stuck, sent, final, ended>>
    BY <1>1 DEF StartTry
  <2> QED BY <2>1, <2>2, <2>3, <2>4, <2>5
<1>2. CASE Locate
  <2>1. pc' \in Steps /\ exc' \in Exceptions
    BY <1>2 DEF Locate, Then, Body
  <2>2. located' \subseteq Logs
    BY <1>2 DEF Locate, Hold, Logs
  <2>3. staged' \in [Tries -> SUBSET Logs]
    BY <1>2 DEF Locate, Hold, Logs
  <2>4. UNCHANGED <<conf, try, cli, json, md, summary, retval, recorded, stuck, sent, final, ended>>
    BY <1>2 DEF Locate
  <2> QED BY <2>1, <2>2, <2>3, <2>4
<1>3. CASE LocateBaseline
  <2>1. pc' \in Steps /\ exc' \in Exceptions
    BY <1>3 DEF LocateBaseline, Then, Raise, Body
  <2>2. located' \subseteq Logs
    BY <1>3 DEF LocateBaseline, Hold, Logs
  <2>3. staged' \in [Tries -> SUBSET Logs]
    BY <1>3 DEF LocateBaseline, Hold, Logs
  <2>4. UNCHANGED <<conf, try, cli, json, md, summary, retval, recorded, stuck, sent, final, ended>>
    BY <1>3 DEF LocateBaseline
  <2> QED BY <2>1, <2>2, <2>3, <2>4
<1>4. CASE Analyze
  <2>1. CASE Raise("error") /\ UNCHANGED <<cli, final>>
    BY <1>4, <2>1 DEF Analyze, Raise
  <2>2. CASE \E a \in Analyses(conf.markdown, conf.entry = "resume") :
                cli' = a /\ (IF AnalysisError(a) = "none" THEN Then("json") ELSE Raise(AnalysisError(a)))
                /\ final' = [final EXCEPT ![try] = IF Hopeless(a) THEN "config" ELSE @]
    <3>1. PICK a \in Analyses(conf.markdown, conf.entry = "resume") :
                cli' = a /\ (IF AnalysisError(a) = "none" THEN Then("json") ELSE Raise(AnalysisError(a)))
                /\ final' = [final EXCEPT ![try] = IF Hopeless(a) THEN "config" ELSE @]
      BY <2>2
    <3>2. a \in Analyses(TRUE, TRUE)
      BY PickedRun
    <3>3. pc' \in Steps /\ exc' \in Exceptions /\ cli' \in AnyRun
      BY <3>1, <3>2, HopelessIsFinal DEF Then, Raise, Body, AnyRun
    <3>4. final' \in [Tries -> {"none", "config", "breach"}]
      BY <3>1
    <3>5. UNCHANGED <<conf, try, located, json, md, summary, retval, recorded, staged, stuck, sent, ended>>
      BY <1>4 DEF Analyze
    <3> QED BY <3>3, <3>4, <3>5
  <2> QED BY <1>4, <2>1, <2>2 DEF Analyze
<1>5. CASE PersistJson
  BY <1>5 DEF PersistJson, Then, Raise, Body
<1>6. CASE PersistMarkdown
  BY <1>6 DEF PersistMarkdown, Then, Raise, Body
<1>7. CASE PushSummary
  <2>1. try \in Tries
    BY <1>7 DEF PushSummary
  <2>2. Summary \in [try : Tries \cup {NoTry}, violated : BOOLEAN]
    BY <2>1 DEF Summary, Violated
  <2> QED BY <1>7, <2>2 DEF PushSummary, Then, Raise, Body
<1>8. CASE Notify
  BY <1>8 DEF Notify, Then, Body
<1>9. CASE Decide
  BY <1>9 DEF Decide, Then, Raise, Body
<1>10. CASE CleanupBaseline
  BY <1>10 DEF CleanupBaseline, Cleanup
<1>11. CASE CleanupLog
  BY <1>11 DEF CleanupLog, Cleanup
<1>12. CASE Return
  <2>1. try \in Tries
    BY <1>12 DEF Return
  <2>2. exc' \in Exceptions /\ recorded' \in BOOLEAN /\ retval' \in Tries \cup {NoTry}
    BY <1>12, <2>1 DEF Return, ReturnFromOperator, ReturnFromCallback
  <2>3. ended' \in [Tries -> Outcomes]
    BY <1>12, <2>1 DEF Return, ReturnFromOperator, ReturnFromCallback, Outcome
  <2>4. pc' \in Steps /\ UNCHANGED <<conf, try, cli, located, json, md, summary, staged, stuck, sent, final>>
    BY <1>12 DEF Return
  <2> QED BY <2>2, <2>3, <2>4
<1>13. CASE Kill
  BY <1>13 DEF Kill, Body
<1>14. CASE Crash
  BY <1>14 DEF Crash
<1>15. CASE UNCHANGED vars
  BY <1>15 DEF vars
<1> QED BY <1>1, <1>2, <1>3, <1>4, <1>5, <1>6, <1>7, <1>8, <1>9, <1>10, <1>11, <1>12, <1>13, <1>14, <1>15 DEF Next

\* Types hold at first.
LEMMA TypesInit == Init => TypeOK /\ Started
<1> SUFFICES ASSUME Init PROVE TypeOK /\ Started
  OBVIOUS
<1> USE DEF Init
<1>1. [n \in Tries |-> {}] \in [Tries -> SUBSET Logs]
  OBVIOUS
<1>2. [n \in Tries |-> "none"] \in [Tries -> {"none", "config", "breach"}]
  OBVIOUS
<1>3. [n \in Tries |-> "none"] \in [Tries -> Outcomes]
  BY DEF Outcomes
<1>4. summary \in [try : Tries \cup {NoTry}, violated : BOOLEAN]
  BY DEF NoSummary
<1>5. pc \in Steps /\ exc \in Exceptions /\ cli \in AnyRun
  BY DEF Steps, Exceptions, AnyRun
<1> QED BY <1>1, <1>2, <1>3, <1>4, <1>5 DEF TypeOK, Started

\* Types are kept from the start on.
LEMMA Types == Spec => [](TypeOK /\ Started)
BY TypesInit, TypeStep, StartedStep, PTL DEF Spec

\* Type correctness of the model.
THEOREM TypeCorrect == Spec => []TypeOK
BY Types, PTL

\* The deferred analysis ends as the synchronous one, but for a Markdown run that
\* exited as usual and wrote nothing; for that one the two ways always differ.
THEOREM DeferredLikeSynchronous == Spec => []SameAsSynchronous
<1>1. TypeOK => SameAsSynchronous
  BY TheTwoWays DEF TypeOK, AnyRun, SameAsSynchronous
<1> QED BY <1>1, TypeCorrect, PTL

-----------------------------------------------------------------------------
(* Tries one after another.                                                *)

\* What happened to the other tries stays as it is.
OthersKept ==
    \A n \in Tries \ {try} :
        /\ ended'[n] = ended[n] /\ final'[n] = final[n]
        /\ staged'[n] = staged[n] /\ stuck'[n] = stuck[n]
        /\ n \in sent' <=> n \in sent

\* Nothing has happened to a try that was not started, the one at work has not
\* ended, and the one before it has.
InTurn ==
    /\ \A n \in Tries : n > try => /\ ended[n] = "none" /\ final[n] = "none" /\ n \notin sent
                                   /\ staged[n] = {} /\ stuck[n] = {}
    /\ pc # "idle" => ended[try] = "none"
    /\ pc = "idle" /\ try # NoTry => ended[try] # "none"

\* A step works at this try.
LEMMA OnlyThisTry ==
    ASSUME TypeOK, Next, ~StartTry
    PROVE  try' = try /\ conf' = conf /\ OthersKept
<1>0. /\ staged \in [Tries -> SUBSET Logs] /\ stuck \in [Tries -> SUBSET Logs]
      /\ final \in [Tries -> {"none", "config", "breach"}] /\ ended \in [Tries -> Outcomes]
  BY DEF TypeOK
<1> USE DEF OthersKept
<1>2. CASE Locate
  BY <1>2, <1>0 DEF Locate, Hold, Then
<1>3. CASE LocateBaseline
  BY <1>3, <1>0 DEF LocateBaseline, Hold, Then, Raise
<1>4. CASE Analyze
  BY <1>4, <1>0 DEF Analyze, Then, Raise
<1>5. CASE PersistJson
  BY <1>5, <1>0 DEF PersistJson, Then, Raise
<1>6. CASE PersistMarkdown
  BY <1>6, <1>0 DEF PersistMarkdown, Then, Raise
<1>7. CASE PushSummary
  BY <1>7, <1>0 DEF PushSummary, Then, Raise
<1>8. CASE Notify
  BY <1>8, <1>0 DEF Notify, Then
<1>9. CASE Decide
  BY <1>9, <1>0 DEF Decide, Then, Raise
<1>10. CASE CleanupBaseline
  BY <1>10, <1>0 DEF CleanupBaseline, Cleanup
<1>11. CASE CleanupLog
  BY <1>11, <1>0 DEF CleanupLog, Cleanup
<1>12. CASE Return
  BY <1>12, <1>0 DEF Return, ReturnFromOperator, ReturnFromCallback, Outcome
<1>13. CASE Kill
  BY <1>13, <1>0 DEF Kill, Body
<1>14. CASE Crash
  BY <1>14, <1>0 DEF Crash
<1> QED BY <1>2, <1>3, <1>4, <1>5, <1>6, <1>7, <1>8, <1>9, <1>10, <1>11, <1>12, <1>13, <1>14 DEF Next


\* Only a try that was started steps on.
LEMMA AtWork ==
    ASSUME TypeOK, Started, Next, ~StartTry
    PROVE  pc # "idle" /\ try \in Tries
BY DEF Started, Next, Locate, LocateBaseline, Analyze, PersistJson, PersistMarkdown,
       PushSummary, Notify, Decide, CleanupBaseline, CleanupLog, Return, Kill, Crash

\* Only its return and a crash end it.
LEMMA StaysAtWork ==
    ASSUME Next, ~StartTry, ~Return, ~Crash
    PROVE  pc' # "idle" /\ ended' = ended
BY DEF Next, Locate, LocateBaseline, Analyze, PersistJson, PersistMarkdown, PushSummary,
       Notify, Decide, CleanupBaseline, CleanupLog, Cleanup, Kill, Then, Raise

\* Every step keeps the tries in turn.
LEMMA InTurnStep ==
    ASSUME TypeOK, Started, InTurn, [Next]_vars
    PROVE  InTurn'
<1>1. CASE StartTry
  <2>1. try' = try + 1 /\ try' \in Tries /\ try \in Nat
    BY <1>1, RetryAssumption DEF StartTry, TriesLeft, TypeOK, Tries, NoTry
  <2>2. pc' # "idle" /\ UNCHANGED <<ended, final, sent, staged, stuck>>
    BY <1>1 DEF StartTry
  <2>3. \A n \in Tries : n > try' => n > try
    BY <2>1 DEF Tries
  <2>4. try' > try
    BY <2>1
  <2> QED BY <2>1, <2>2, <2>3, <2>4 DEF InTurn
<1>2. CASE Next /\ ~StartTry
  <2>1. try' = try /\ OthersKept
    BY <1>2, OnlyThisTry
  <2>2. pc # "idle" /\ try \in Tries
    BY <1>2, AtWork
  <2>3. \A n \in Tries : n > try => n \in Tries \ {try}
    BY <2>2 DEF Tries
  <2>4. ended \in [Tries -> Outcomes]
    BY DEF TypeOK
  <2>5. CASE Return \/ Crash
    <3>1. pc' = "idle" /\ ended'[try] # "none"
      BY <2>2, <2>4, <2>5 DEF Return, ReturnFromOperator, ReturnFromCallback, Outcome, Crash
    <3> QED BY <2>1, <2>3, <3>1 DEF InTurn, OthersKept
  <2>6. CASE ~(Return \/ Crash)
    <3>1. pc' # "idle" /\ ended' = ended
      BY <1>2, <2>6, StaysAtWork
    <3> QED BY <2>1, <2>2, <2>3, <3>1 DEF InTurn, OthersKept
  <2> QED BY <2>5, <2>6
<1>3. CASE UNCHANGED vars
  BY <1>3 DEF vars, InTurn
<1> QED BY <1>1, <1>2, <1>3

-----------------------------------------------------------------------------
(* Staged logs.                                                            *)

\* While a run is at work, what it staged it holds, nothing is staged before
\* locate() has returned, and each cleanup() leaves only what it did not finish.
Cleaned ==
    pc # "idle" =>
        /\ staged[try] \subseteq located
        /\ pc = "locate" => staged[try] = {}
        /\ pc = "cleanLog" => staged[try] \cap {"base"} \subseteq stuck[try]
        /\ pc = "result" => staged[try] \subseteq stuck[try]

\* Every step keeps what is staged within reach of its cleanup().
LEMMA CleanedStep ==
    ASSUME TypeOK, Started, InTurn, Cleaned, [Next]_vars
    PROVE  Cleaned'
<1>0. /\ staged \in [Tries -> SUBSET Logs] /\ stuck \in [Tries -> SUBSET Logs]
      /\ located \subseteq Logs /\ Logs = {"log", "base"}
      /\ pc # "idle" => try \in Tries
  BY DEF TypeOK, Started, Logs
<1> USE DEF Cleaned
<1>1. CASE StartTry
  <2>1. try' \in Tries /\ try' > try
    BY <1>1, RetryAssumption DEF StartTry, TriesLeft, TypeOK, Tries, NoTry
  <2>2. staged[try'] = {}
    BY <2>1 DEF InTurn
  <2> QED BY <1>1, <2>2 DEF StartTry
<1>2. CASE Locate
  BY <1>2, <1>0 DEF Locate, Hold, Then
<1>3. CASE LocateBaseline
  BY <1>3, <1>0 DEF LocateBaseline, Hold, Then, Raise
<1>4. CASE Analyze
  BY <1>4, <1>0 DEF Analyze, Then, Raise
<1>5. CASE PersistJson
  BY <1>5, <1>0 DEF PersistJson, Then, Raise
<1>6. CASE PersistMarkdown
  BY <1>6, <1>0 DEF PersistMarkdown, Then, Raise
<1>7. CASE PushSummary
  BY <1>7, <1>0 DEF PushSummary, Then, Raise
<1>8. CASE Notify
  BY <1>8, <1>0 DEF Notify, Then
<1>9. CASE Decide
  BY <1>9, <1>0 DEF Decide, Then, Raise
<1>10. CASE CleanupBaseline
  BY <1>10, <1>0 DEF CleanupBaseline, Cleanup
<1>11. CASE CleanupLog
  BY <1>11, <1>0 DEF CleanupLog, Cleanup
<1>12. CASE Return
  BY <1>12, <1>0 DEF Return, ReturnFromOperator, ReturnFromCallback, Outcome
<1>13. CASE Kill
  <2>0. try \in Tries /\ try' = try /\ staged' = staged /\ located' = located
    BY <1>13, <1>0 DEF Kill
  <2>1. CASE pc \in Body
    BY <1>13, <1>0, <2>0, <2>1 DEF Kill, Body
  <2>2. CASE pc = "cleanBase"
    <3>1. pc' = "cleanLog" /\ {"base"} \cap staged[try] \subseteq stuck'[try]
      BY <1>13, <1>0, <2>0, <2>2 DEF Kill, Body
    <3> QED BY <1>0, <2>0, <2>2, <3>1
  <2>3. CASE pc = "cleanLog"
    <3>1. pc' = "result" /\ stuck'[try] = stuck[try] \cup ({"log"} \cap staged[try])
      BY <1>13, <1>0, <2>0, <2>3 DEF Kill, Body
    <3>2. staged[try] \in SUBSET {"log", "base"} /\ staged[try] \cap {"base"} \subseteq stuck[try]
      BY <1>0, <2>0, <2>3
    <3>3. staged[try] \subseteq stuck'[try]
      BY <3>1, <3>2
    <3> QED BY <1>0, <2>0, <2>3, <3>1, <3>3
  <2>4. CASE pc \notin Body \cup {"cleanBase", "cleanLog"}
    <3>1. pc' = "result" /\ stuck'[try] = stuck[try] /\ pc \in {"locate", "result"}
      BY <1>13, <1>0, <2>0, <2>4 DEF Kill, Body, TypeOK, Steps
    <3> QED BY <1>13, <1>0, <2>0, <3>1
  <2> QED BY <2>1, <2>2, <2>3, <2>4
<1>14. CASE Crash
  BY <1>14, <1>0 DEF Crash
<1>15. CASE UNCHANGED vars
  BY <1>15 DEF vars
<1> QED BY <1>1, <1>2, <1>3, <1>4, <1>5, <1>6, <1>7, <1>8, <1>9, <1>10, <1>11, <1>12, <1>13, <1>14, <1>15 DEF Next

\* Once a try has ended, so have its cleanups.
LEMMA LogsRemovedStep ==
    ASSUME TypeOK, Started, InTurn, Cleaned, StagedLogsRemoved, [Next]_vars
    PROVE  StagedLogsRemoved'
<1>1. CASE StartTry \/ UNCHANGED vars
  BY <1>1 DEF StartTry, vars, StagedLogsRemoved
<1>2. CASE Next /\ ~StartTry
  <2>1. OthersKept
    BY <1>2, OnlyThisTry
  <2>2. pc # "idle" /\ try \in Tries
    BY <1>2, AtWork
  <2>3. ended'[try] \notin {"none", "crash"} => staged'[try] \subseteq stuck'[try]
    <3>1. CASE Return
      BY <3>1 DEF Return, Cleaned
    <3>2. CASE Crash
      BY <2>2, <3>2 DEF Crash, TypeOK
    <3>3. CASE ~(Return \/ Crash)
      <4>1. ended' = ended
        BY <1>2, <3>3, StaysAtWork
      <4> QED BY <2>2, <4>1 DEF InTurn
    <3> QED BY <3>1, <3>2, <3>3
  <2> QED BY <2>1, <2>3 DEF OthersKept, StagedLogsRemoved
<1> QED BY <1>1, <1>2


-----------------------------------------------------------------------------
(* What becomes of the report.                                             *)

Unwinding == {"cleanBase", "cleanLog", "result"}

\* How this try has ended, or ends if nothing else goes wrong.
Heading ==
    IF pc = "idle" THEN (IF try = NoTry THEN "none" ELSE ended[try])
    ELSE IF pc \in Unwinding THEN Outcome(exc) ELSE "none"

\* An exception is in flight only on the way out; the notification comes last.
Underway ==
    /\ pc \in {"locate"} \cup Body => exc = "none"
    /\ pc \in {"locate"} \cup (Body \ {"decide"}) => try \notin sent

\* Who asks for the report finds it from here on.
Told == pc \in {"notify", "decide"} \/ Heading \in {"success", "breach"} \/ try \in sent

\* The report is published before anybody is told.
Published ==
    /\ pc = "markdown" => json = try
    /\ pc = "summary" \/ Told => json = try /\ (conf.markdown => md = try)
    /\ Told => summary = Summary

\* A breach is what the CLI reported, and no breach is passed over.
Judged ==
    /\ Heading = "breach" => Violated /\ conf.onBreach = "fail"
    /\ Heading = "success" /\ conf.onBreach = "fail" => ~Violated

\* The report of a run that ended with a verdict is recorded.
Linked ==
    pc = "idle" /\ Heading \in {"success", "breach"} =>
        IF conf.entry = "callback" THEN retval = try ELSE recorded

\* An analysis ends in a report or in an exception, and in a configuration error
\* if and only if it is hopeless.
LEMMA AnalyzeOutcome ==
    ASSUME TypeOK, Started, Analyze
    PROVE  \/ pc' = "json" /\ exc' = exc /\ final' = final
           \/ pc' = "cleanBase" /\ exc' = "error" /\ final' = final
           \/ pc' = "cleanBase" /\ exc' = "config" /\ final' = [final EXCEPT ![try] = "config"]
<1>1. CASE Raise("error") /\ UNCHANGED <<cli, final>>
  BY <1>1 DEF Raise
<1>2. CASE \E a \in Analyses(conf.markdown, conf.entry = "resume") :
             cli' = a /\ (IF AnalysisError(a) = "none" THEN Then("json") ELSE Raise(AnalysisError(a)))
             /\ final' = [final EXCEPT ![try] = IF Hopeless(a) THEN "config" ELSE @]
  <2>1. PICK a \in Analyses(conf.markdown, conf.entry = "resume") :
             cli' = a /\ (IF AnalysisError(a) = "none" THEN Then("json") ELSE Raise(AnalysisError(a)))
             /\ final' = [final EXCEPT ![try] = IF Hopeless(a) THEN "config" ELSE @]
    BY <1>2
  <2>2. /\ AnalysisError(a) \in {"none", "error", "config"}
        /\ AnalysisError(a) = "config" <=> Hopeless(a)
    BY PickedRun, HopelessIsFinal
  <2>3. final \in [Tries -> {"none", "config", "breach"}]
    BY DEF TypeOK
  <2>4. ~Hopeless(a) => final' = final
    BY <2>1, <2>3
  <2> QED BY <2>1, <2>2, <2>4 DEF Then, Raise
<1> QED BY <1>1, <1>2 DEF Analyze

\* Every step keeps exceptions and notifications in their place.
LEMMA UnderwayStep ==
    ASSUME TypeOK, Started, InTurn, Underway, [Next]_vars
    PROVE  Underway'
<1>0. sent \subseteq Tries
  BY DEF TypeOK
<1> USE DEF Underway, Body
<1>1. CASE StartTry
  <2>1. try' \in Tries /\ try' > try
    BY <1>1, RetryAssumption DEF StartTry, TriesLeft, TypeOK, Tries, NoTry
  <2> QED BY <1>1, <2>1 DEF StartTry, InTurn
<1>2. CASE Locate
  BY <1>2, <1>0 DEF Locate, Hold, Then
<1>3. CASE LocateBaseline
  BY <1>3, <1>0 DEF LocateBaseline, Hold, Then, Raise
<1>4. CASE Analyze
  BY <1>4, <1>0 DEF Analyze, Then, Raise
<1>5. CASE PersistJson
  BY <1>5, <1>0 DEF PersistJson, Then, Raise
<1>6. CASE PersistMarkdown
  BY <1>6, <1>0 DEF PersistMarkdown, Then, Raise
<1>7. CASE PushSummary
  BY <1>7, <1>0 DEF PushSummary, Then, Raise
<1>8. CASE Notify
  BY <1>8, <1>0 DEF Notify, Then
<1>9. CASE Decide
  BY <1>9, <1>0 DEF Decide, Then, Raise
<1>10. CASE CleanupBaseline
  BY <1>10, <1>0 DEF CleanupBaseline, Cleanup
<1>11. CASE CleanupLog
  BY <1>11, <1>0 DEF CleanupLog, Cleanup
<1>12. CASE Return
  BY <1>12, <1>0 DEF Return, ReturnFromOperator, ReturnFromCallback, Outcome
<1>13. CASE Kill
  BY <1>13, <1>0 DEF Kill, Body
<1>14. CASE Crash
  BY <1>14, <1>0 DEF Crash
<1>15. CASE UNCHANGED vars
  BY <1>15 DEF vars
<1> QED BY <1>1, <1>2, <1>3, <1>4, <1>5, <1>6, <1>7, <1>8, <1>9, <1>10, <1>11, <1>12, <1>13, <1>14, <1>15 DEF Next

\* Every step keeps the report where it was published.
LEMMA PublishedStep ==
    ASSUME TypeOK, Started, InTurn, Underway, Published, [Next]_vars
    PROVE  Published'
<1>0. /\ pc # "idle" => try \in Tries
      /\ ended \in [Tries -> Outcomes] /\ NoTry \notin Tries /\ pc \in Steps
  BY DEF TypeOK, Started, NoTry, Tries
<1> USE DEF Published, Told, Heading, Unwinding, Summary, Violated, Underway, Body, Steps, Outcome
<1>1. CASE StartTry
  <2>1. try' \in Tries /\ try' > try
    BY <1>1, RetryAssumption DEF StartTry, TriesLeft, TypeOK, Tries, NoTry
  <2>2. try' \notin sent' /\ pc' \in {"analyze", "locate"}
    BY <1>1, <2>1 DEF StartTry, InTurn
  <2> QED BY <2>2
<1>2. CASE Locate
  BY <1>2, <1>0 DEF Locate, Hold, Then
<1>3. CASE LocateBaseline
  BY <1>3, <1>0 DEF LocateBaseline, Hold, Then, Raise
<1>4. CASE Analyze
  <2>1. ~Told'
    BY <1>4, <1>0, AnalyzeOutcome DEF Analyze
  <2> QED BY <2>1, <1>4, AnalyzeOutcome
<1>5. CASE PersistJson
  BY <1>5, <1>0 DEF PersistJson, Then, Raise
<1>6. CASE PersistMarkdown
  BY <1>6, <1>0 DEF PersistMarkdown, Then, Raise
<1>7. CASE PushSummary
  BY <1>7, <1>0 DEF PushSummary, Then, Raise
<1>8. CASE Notify
  BY <1>8, <1>0 DEF Notify, Then
<1>9. CASE Decide
  BY <1>9, <1>0 DEF Decide, Then, Raise
<1>10. CASE CleanupBaseline
  BY <1>10, <1>0 DEF CleanupBaseline, Cleanup
<1>11. CASE CleanupLog
  BY <1>11, <1>0 DEF CleanupLog, Cleanup
<1>12. CASE Return
  BY <1>12, <1>0 DEF Return, ReturnFromOperator, ReturnFromCallback, Outcome
<1>13. CASE Kill
  BY <1>13, <1>0 DEF Kill, Body
<1>14. CASE Crash
  BY <1>14, <1>0 DEF Crash
<1>15. CASE UNCHANGED vars
  BY <1>15 DEF vars
<1> QED BY <1>1, <1>2, <1>3, <1>4, <1>5, <1>6, <1>7, <1>8, <1>9, <1>10, <1>11, <1>12, <1>13, <1>14, <1>15 DEF Next

\* Every step keeps the verdict.
LEMMA JudgedStep ==
    ASSUME TypeOK, Started, InTurn, Underway, Judged, [Next]_vars
    PROVE  Judged'
<1>0. /\ pc # "idle" => try \in Tries
      /\ ended \in [Tries -> Outcomes] /\ NoTry \notin Tries /\ pc \in Steps
  BY DEF TypeOK, Started, NoTry, Tries
<1> USE DEF Judged, Heading, Unwinding, Violated, Underway, Body, Steps, Outcome
<1>1. CASE StartTry
  BY <1>1, <1>0 DEF StartTry, TriesLeft, Retried, NoSummary
<1>2. CASE Locate
  BY <1>2, <1>0 DEF Locate, Hold, Then
<1>3. CASE LocateBaseline
  BY <1>3, <1>0 DEF LocateBaseline, Hold, Then, Raise
<1>4. CASE Analyze
  BY <1>4, <1>0, AnalyzeOutcome DEF Analyze
<1>5. CASE PersistJson
  BY <1>5, <1>0 DEF PersistJson, Then, Raise
<1>6. CASE PersistMarkdown
  BY <1>6, <1>0 DEF PersistMarkdown, Then, Raise
<1>7. CASE PushSummary
  BY <1>7, <1>0 DEF PushSummary, Then, Raise
<1>8. CASE Notify
  BY <1>8, <1>0 DEF Notify, Then
<1>9. CASE Decide
  BY <1>9, <1>0 DEF Decide, Then, Raise
<1>10. CASE CleanupBaseline
  BY <1>10, <1>0 DEF CleanupBaseline, Cleanup
<1>11. CASE CleanupLog
  BY <1>11, <1>0 DEF CleanupLog, Cleanup
<1>12. CASE Return
  BY <1>12, <1>0 DEF Return, ReturnFromOperator, ReturnFromCallback, Outcome
<1>13. CASE Kill
  BY <1>13, <1>0 DEF Kill, Body
<1>14. CASE Crash
  BY <1>14, <1>0 DEF Crash
<1>15. CASE UNCHANGED vars
  BY <1>15 DEF vars
<1> QED BY <1>1, <1>2, <1>3, <1>4, <1>5, <1>6, <1>7, <1>8, <1>9, <1>10, <1>11, <1>12, <1>13, <1>14, <1>15 DEF Next

\* Every step keeps the links.
LEMMA LinkedStep ==
    ASSUME TypeOK, Started, InTurn, Linked, [Next]_vars
    PROVE  Linked'
<1>0. /\ pc # "idle" => try \in Tries
      /\ ended \in [Tries -> Outcomes] /\ NoTry \notin Tries
  BY DEF TypeOK, Started, NoTry, Tries
<1> USE DEF Linked, Heading, Unwinding, Outcome
<1>1. CASE StartTry
  BY <1>1, <1>0 DEF StartTry, TriesLeft, Retried, NoSummary
<1>2. CASE Locate
  BY <1>2, <1>0 DEF Locate, Hold, Then
<1>3. CASE LocateBaseline
  BY <1>3, <1>0 DEF LocateBaseline, Hold, Then, Raise
<1>4. CASE Analyze
  BY <1>4, <1>0 DEF Analyze, Then, Raise
<1>5. CASE PersistJson
  BY <1>5, <1>0 DEF PersistJson, Then, Raise
<1>6. CASE PersistMarkdown
  BY <1>6, <1>0 DEF PersistMarkdown, Then, Raise
<1>7. CASE PushSummary
  BY <1>7, <1>0 DEF PushSummary, Then, Raise
<1>8. CASE Notify
  BY <1>8, <1>0 DEF Notify, Then
<1>9. CASE Decide
  BY <1>9, <1>0 DEF Decide, Then, Raise
<1>10. CASE CleanupBaseline
  BY <1>10, <1>0 DEF CleanupBaseline, Cleanup
<1>11. CASE CleanupLog
  BY <1>11, <1>0 DEF CleanupLog, Cleanup
<1>12. CASE Return
  <2>1. pc' = "idle" /\ try' = try /\ try \in Tries /\ conf' = conf /\ pc = "result"
    BY <1>12, <1>0 DEF Return
  <2>2. Heading' = ended'[try]
    BY <1>0, <2>1
  <2>3. CASE ReturnFromOperator
    <3>1. ended'[try] = Outcome(exc) /\ conf.entry # "callback"
      BY <1>0, <2>1, <2>3 DEF ReturnFromOperator
    <3>2. ended'[try] \in {"success", "breach"} => recorded'
      BY <2>3, <3>1 DEF ReturnFromOperator, TypeOK, Exceptions
    <3> QED BY <2>1, <2>2, <3>1, <3>2
  <2>4. CASE ReturnFromCallback
    <3>1. ended'[try] = Outcome(exc') /\ conf.entry = "callback"
      BY <1>0, <2>1, <2>4 DEF ReturnFromCallback
    <3>2. ended'[try] \in {"success", "breach"} => retval' = try
      BY <2>4, <3>1 DEF ReturnFromCallback, TypeOK, Exceptions
    <3> QED BY <2>1, <2>2, <3>1, <3>2
  <2> QED BY <1>12, <2>3, <2>4 DEF Return
<1>13. CASE Kill
  BY <1>13, <1>0 DEF Kill, Body
<1>14. CASE Crash
  BY <1>14, <1>0 DEF Crash
<1>15. CASE UNCHANGED vars
  BY <1>15 DEF vars
<1> QED BY <1>1, <1>2, <1>3, <1>4, <1>5, <1>6, <1>7, <1>8, <1>9, <1>10, <1>11, <1>12, <1>13, <1>14, <1>15 DEF Next

-----------------------------------------------------------------------------
(* Final failures.                                                         *)

\* A callback has one try.
OneCallback == conf.entry = "callback" => try <= 1

\* A final failure is what the try is heading for, or something else came on
\* its way out; and nothing else is called final.
HeadsForFinal ==
    /\ pc \in {"locate"} \cup Body => final[try] = "none"
    /\ try # NoTry /\ final[try] # "none" =>
          \/ Heading \in {"killed", "crash", final[try]}
          \/ stuck[try] # {}
          \/ pc = "idle" /\ conf.entry = "callback"
    /\ Heading \in {"config", "breach"} => final[try] = Heading

\* Every step keeps a final failure final, but for what comes on its way out.
LEMMA HeadsForFinalStep ==
    ASSUME TypeOK, Started, InTurn, Underway, HeadsForFinal, [Next]_vars
    PROVE  HeadsForFinal'
<1>0. /\ pc # "idle" => try \in Tries
      /\ ended \in [Tries -> Outcomes] /\ NoTry \notin Tries /\ pc \in Steps
      /\ stuck \in [Tries -> SUBSET Logs] /\ final \in [Tries -> {"none", "config", "breach"}]
      /\ exc \in Exceptions
  BY DEF TypeOK, Started, NoTry, Tries
<1> USE DEF HeadsForFinal, Heading, Unwinding, Outcome, Steps, Body, Exceptions, Underway
<1>1. CASE StartTry
  <2>1. try' \in Tries /\ try' > try
    BY <1>1, RetryAssumption DEF StartTry, TriesLeft, TypeOK, Tries, NoTry
  <2>2. final'[try'] = "none" /\ pc' \in {"analyze", "locate"}
    BY <1>1, <2>1 DEF StartTry, InTurn
  <2> QED BY <2>2
<1>2. CASE Locate
  BY <1>2, <1>0 DEF Locate, Hold, Then
<1>3. CASE LocateBaseline
  BY <1>3, <1>0 DEF LocateBaseline, Hold, Then, Raise
<1>4. CASE Analyze
  BY <1>4, <1>0, AnalyzeOutcome DEF Analyze
<1>5. CASE PersistJson
  BY <1>5, <1>0 DEF PersistJson, Then, Raise
<1>6. CASE PersistMarkdown
  BY <1>6, <1>0 DEF PersistMarkdown, Then, Raise
<1>7. CASE PushSummary
  BY <1>7, <1>0 DEF PushSummary, Then, Raise
<1>8. CASE Notify
  BY <1>8, <1>0 DEF Notify, Then
<1>9. CASE Decide
  BY <1>9, <1>0 DEF Decide, Then, Raise
<1>10. CASE CleanupBaseline
  BY <1>10, <1>0 DEF CleanupBaseline, Cleanup
<1>11. CASE CleanupLog
  BY <1>11, <1>0 DEF CleanupLog, Cleanup
<1>12. CASE Return
  BY <1>12, <1>0 DEF Return, ReturnFromOperator, ReturnFromCallback, Outcome
<1>13. CASE Kill
  BY <1>13, <1>0 DEF Kill, Body
<1>14. CASE Crash
  BY <1>14, <1>0 DEF Crash
<1>15. CASE UNCHANGED vars
  BY <1>15 DEF vars
<1> QED BY <1>1, <1>2, <1>3, <1>4, <1>5, <1>6, <1>7, <1>8, <1>9, <1>10, <1>11, <1>12, <1>13, <1>14, <1>15 DEF Next

\* Only a callback's try is its last.
LEMMA OneCallbackStep ==
    ASSUME TypeOK, OneCallback, [Next]_vars
    PROVE  OneCallback'
<1>1. CASE StartTry
  BY <1>1 DEF StartTry, OneCallback, NoTry
<1>2. CASE Next /\ ~StartTry
  BY <1>2, OnlyThisTry DEF OneCallback
<1>3. CASE UNCHANGED vars
  BY <1>3 DEF vars, OneCallback
<1> QED BY <1>1, <1>2, <1>3

\* Every step keeps the earlier tries' failures as final as they were.
LEMMA FinalStep ==
    ASSUME TypeOK, Started, InTurn, Underway, OneCallback, HeadsForFinal, HeadsForFinal',
           FinalFailuresAreFinal, [Next]_vars
    PROVE  FinalFailuresAreFinal'
<1>1. CASE StartTry
  <2>1. try' = try + 1 /\ try \in Nat /\ UNCHANGED <<ended, final, stuck>> /\ pc = "idle"
    BY <1>1 DEF StartTry, TypeOK, Tries, NoTry
  <2>2. ASSUME NEW n \in Tries, final[n] # "none", n < try'
        PROVE  ended[n] \in {"killed", "crash"} \/ stuck[n] # {}
    <3>1. n <= try
      BY <2>1, <2>2 DEF Tries
    <3>2. CASE n < try
      BY <2>2, <3>2 DEF FinalFailuresAreFinal
    <3>3. CASE n = try
      <4>1. try # NoTry
        BY <3>3 DEF Tries, NoTry
      <4>2. ended[try] \in Retried /\ conf.entry # "callback"
        BY <1>1, <4>1 DEF StartTry
      <4>3. final[try] \in {"config", "breach"}
        BY <2>2, <3>3 DEF TypeOK
      <4> QED BY <2>1, <2>2, <3>3, <4>1, <4>2, <4>3 DEF HeadsForFinal, Heading, Retried
    <3> QED BY <2>1, <3>1, <3>2, <3>3 DEF Tries
  <2> QED BY <2>1, <2>2 DEF FinalFailuresAreFinal
<1>2. CASE Next /\ ~StartTry
  <2>1. OthersKept /\ try' = try
    BY <1>2, OnlyThisTry
  <2>2. pc # "idle" /\ try \in Tries
    BY <1>2, AtWork
  <2>3. ended'[try] \in {"config", "breach"} => final'[try] = ended'[try]
    <3>1. CASE Return \/ Crash
      <4>1. pc' = "idle"
        BY <3>1 DEF Return, Crash
      <4> QED BY <2>1, <2>2, <4>1 DEF HeadsForFinal, Heading, NoTry, Tries
    <3>2. CASE ~(Return \/ Crash)
      <4>1. ended' = ended
        BY <1>2, <3>2, StaysAtWork
      <4> QED BY <2>2, <4>1 DEF InTurn
    <3> QED BY <3>1, <3>2
  <2>4. \A n \in Tries : n < try' => n \in Tries \ {try}
    BY <2>1 DEF Tries
  <2> QED BY <2>1, <2>3, <2>4 DEF OthersKept, FinalFailuresAreFinal
<1>3. CASE UNCHANGED vars
  BY <1>3 DEF vars, FinalFailuresAreFinal
<1> QED BY <1>1, <1>2, <1>3


-----------------------------------------------------------------------------
(* The inductive invariant, and what follows from it.                      *)

\* The bookkeeping of tries, and what each part of a run relies on.
Inv ==
    /\ TypeOK /\ Started /\ InTurn
    /\ Cleaned /\ StagedLogsRemoved
    /\ Underway /\ Published /\ Judged /\ Linked
    /\ OneCallback /\ HeadsForFinal /\ FinalFailuresAreFinal

LEMMA InvInit == Init => Inv
<1> SUFFICES ASSUME Init PROVE Inv
  OBVIOUS
<1>1. /\ pc = "idle" /\ try = NoTry /\ conf \in Confs /\ exc = "none" /\ sent = {}
      /\ \A n \in Tries : /\ ended[n] = "none" /\ final[n] = "none"
                          /\ staged[n] = {} /\ stuck[n] = {}
  BY DEF Init
<1>2. Heading = "none" /\ try \notin Tries
  BY <1>1 DEF Heading, NoTry, Tries
<1>3. TypeOK /\ Started
  BY TypesInit
<1>4. InTurn /\ Cleaned /\ StagedLogsRemoved
  BY <1>1 DEF InTurn, Cleaned, StagedLogsRemoved
<1>5. Underway /\ Published /\ Judged /\ Linked
  BY <1>1, <1>2 DEF Underway, Published, Told, Judged, Linked, Body
<1>6. OneCallback /\ HeadsForFinal /\ FinalFailuresAreFinal
  BY <1>1, <1>2 DEF OneCallback, HeadsForFinal, FinalFailuresAreFinal, Body, NoTry
<1> QED BY <1>3, <1>4, <1>5, <1>6 DEF Inv

LEMMA InvNext == Inv /\ [Next]_vars => Inv'
<1> SUFFICES ASSUME Inv, [Next]_vars PROVE Inv'
  OBVIOUS
<1> USE DEF Inv
<1>1. TypeOK' /\ Started' /\ InTurn'
  BY TypeStep, StartedStep, InTurnStep
<1>2. Cleaned' /\ StagedLogsRemoved'
  BY CleanedStep, LogsRemovedStep
<1>3. Underway' /\ Published' /\ Judged' /\ Linked'
  BY UnderwayStep, PublishedStep, JudgedStep, LinkedStep
<1>4. OneCallback' /\ HeadsForFinal'
  BY OneCallbackStep, HeadsForFinalStep
<1>5. FinalFailuresAreFinal'
  BY <1>4, FinalStep
<1> QED BY <1>1, <1>2, <1>3, <1>4, <1>5

LEMMA Invariant == Spec => []Inv
BY InvInit, InvNext, PTL DEF Spec

\* What a try has ended with, if it has.
LEMMA EndedHeading ==
    ASSUME Inv, try # NoTry
    PROVE  /\ pc # "idle" => ended[try] = "none"
           /\ pc = "idle" => ended[try] = Heading
BY DEF Inv, InTurn, Heading

\* handle_report() fails a task that is to fail on a violation, and only that.
THEOREM ViolationsFail == Spec => []ViolationFailsTheTask
<1>1. Inv => ViolationFailsTheTask
  <2> SUFFICES ASSUME Inv, try # NoTry
               PROVE  /\ ended[try] = "success" /\ conf.onBreach = "fail" => ~ReportsViolation
                      /\ ended[try] = "breach" => ReportsViolation /\ conf.onBreach = "fail"
    BY DEF ViolationFailsTheTask
  <2> QED BY EndedHeading DEF Inv, Judged, Violated, ReportsViolation
<1> QED BY <1>1, Invariant, PTL

\* handle_report() publishes before it tells.
THEOREM PublishedFirst == Spec => []ReportIsPublished
<1>1. Inv => ReportIsPublished
  <2> SUFFICES ASSUME Inv, try # NoTry, try \in sent \/ ended[try] \in {"success", "breach"}
               PROVE  /\ json = try
                      /\ conf.markdown => md = try
                      /\ summary = [try |-> try, violated |-> ReportsViolation]
    BY DEF ReportIsPublished
  <2>1. Told
    BY EndedHeading DEF Told
  <2>2. Violated = ReportsViolation
    BY DEF Violated, ReportsViolation
  <2> QED BY <2>1, <2>2 DEF Inv, Published, Summary
<1> QED BY <1>1, Invariant, PTL

\* A run that ends with a verdict, a breach included, records where its report is.
THEOREM VerdictsAreLinked == Spec => []VerdictHasALink
<1>1. Inv => VerdictHasALink
  <2> SUFFICES ASSUME Inv, try # NoTry, ended[try] \in {"success", "breach"}
               PROVE  IF conf.entry = "callback" THEN retval = try ELSE Link2 = try /\ Link3 = try
    BY DEF VerdictHasALink
  <2>1. pc = "idle" /\ Heading \in {"success", "breach"}
    BY EndedHeading
  <2>2. json = try /\ summary = Summary
    BY <2>1 DEF Inv, Published, Told
  <2>3. summary.try = try
    BY <2>2 DEF Summary
  <2> QED BY <2>1, <2>2, <2>3 DEF Inv, Linked, Link2, Link3
<1> QED BY <1>1, Invariant, PTL

\* The nested finally clauses remove what the run staged.
THEOREM LogsRemoved == Spec => []StagedLogsRemoved
<1>1. Inv => StagedLogsRemoved
  BY DEF Inv
<1> QED BY <1>1, Invariant, PTL

\* No try repeats a failure that is final, unless something came on its way out.
THEOREM FinalIsFinal == Spec => []FinalFailuresAreFinal
<1>1. Inv => FinalFailuresAreFinal
  BY DEF Inv
<1> QED BY <1>1, Invariant, PTL


=============================================================================
