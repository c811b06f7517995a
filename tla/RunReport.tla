------------------------------ MODULE RunReport ------------------------------
(***************************************************************************)
(* One run of the pipeline that SparkForensicsOperator.execute(), the      *)
(* resumed execute_complete() and the spark_forensics_callback() share     *)
(* (run_spark_forensics and handle_report in operator.py), step by step    *)
(* with the failure each step can have, over the tries Airflow gives it.   *)
(*                                                                         *)
(* A report persisted by try n is written n.  How an analysis ends is the  *)
(* choice of what its CLI runs leave (CliOutcome), or an error of the      *)
(* backend, whose life on an SSH host is RemoteJob's subject.              *)
(***************************************************************************)
EXTENDS CliOutcome

CONSTANT MaxTries   \* bound: the task's first try and its retries

ASSUME RetryAssumption == MaxTries \in Nat \ {0}

Tries == 1..MaxTries
NoTry == 0

VARIABLES
    conf,       \* how the DAG file configures the run
    try,        \* Airflow's try number
    pc,         \* the step the run is at
    exc,        \* the exception in flight
    cli,        \* the CLI runs of the analysis
    located,    \* the logs whose references the run holds
    json, md,   \* whose report is at report_dest and at markdown_dest
    summary,    \* the summary XCom
    retval,     \* the return_value XCom
    recorded,   \* operator.persisted_report_dest is set
    staged,     \* history: the copies of logs each try left on its worker
    stuck,      \* history: the copies whose cleanup() did not finish
    sent,       \* history: the tries whose notification was delivered
    final,      \* history: what every further try would fail on, too
    ended       \* history: how each try ended

vars == <<conf, try, pc, exc, cli, located, json, md, summary, retval, recorded,
          staged, stuck, sent, final, ended>>

Confs == [entry : {"execute", "resume", "callback"},
          baseline : BOOLEAN,
          markdown : BOOLEAN,
          onBreach : {"fail", "warn", "ignore"},
          notifier : BOOLEAN]

Logs == {"log", "base"}

NoRun == [json |-> [exit |-> NoExit, text |-> "nothing", cause |-> "none", printed |-> {}],
          markdown |-> NoMarkdown]

AnyRun == Analyses(TRUE, TRUE) \cup {NoRun}

NoSummary == [try |-> NoTry, violated |-> FALSE]

Body == {"baseline", "analyze", "json", "markdown", "summary", "notify", "decide"}
Steps == Body \cup {"locate", "cleanBase", "cleanLog", "result", "idle"}

\* error: any retryable exception.  config: an AirflowFailException of the CLI.
Exceptions == {"none", "error", "config", "breach", "killed"}
Outcomes == {"none", "success", "error", "config", "breach", "killed", "crash"}

TypeOK ==
    /\ conf \in Confs
    /\ try \in Tries \cup {NoTry}
    /\ pc \in Steps
    /\ exc \in Exceptions
    /\ cli \in AnyRun
    /\ located \subseteq Logs
    /\ json \in Tries \cup {NoTry}
    /\ md \in Tries \cup {NoTry}
    /\ retval \in Tries \cup {NoTry}
    /\ summary \in [try : Tries \cup {NoTry}, violated : BOOLEAN]
    /\ recorded \in BOOLEAN
    /\ staged \in [Tries -> SUBSET Logs]
    /\ stuck \in [Tries -> SUBSET Logs]
    /\ sent \subseteq Tries
    /\ final \in [Tries -> {"none", "config", "breach"}]
    /\ ended \in [Tries -> Outcomes]

Init ==
    /\ conf \in Confs
    /\ try = NoTry /\ pc = "idle" /\ exc = "none"
    /\ cli = NoRun /\ located = {}
    /\ json = NoTry /\ md = NoTry /\ summary = NoSummary /\ retval = NoTry
    /\ recorded = FALSE
    /\ staged = [n \in Tries |-> {}] /\ stuck = [n \in Tries |-> {}]
    /\ sent = {}
    /\ final = [n \in Tries |-> "none"]
    /\ ended = [n \in Tries |-> "none"]

\* The next step of the body, or an exception that leaves it for the finally.
Then(s) == pc' = s /\ exc' = exc
Raise(e) == pc' = "cleanBase" /\ exc' = e

-----------------------------------------------------------------------------
(* Airflow starts a try.                                                   *)

\* Of the ways a try can end: an AirflowFailException is not retried.
Retried == {"error", "killed", "crash"}

\* Mutant of TriesLeft: one retry more than configured.
TriesLeftOffByOne == try <= MaxTries

TriesLeft == try < MaxTries

\* A new try has a new operator and no XComs.  A callback runs once.  A resumed
\* run holds references to logs on the host, so it has nothing staged.
StartTry ==
    /\ pc = "idle"
    /\ TriesLeft
    /\ try # NoTry => ended[try] \in Retried /\ conf.entry # "callback"
    /\ try' = try + 1
    /\ exc' = "none" /\ cli' = NoRun
    /\ summary' = NoSummary /\ retval' = NoTry /\ recorded' = FALSE
    /\ IF conf.entry = "resume"
       THEN pc' = "analyze" /\ located' = {"log"} \cup (IF conf.baseline THEN {"base"} ELSE {})
       ELSE pc' = "locate" /\ located' = {}
    /\ UNCHANGED <<conf, json, md, staged, stuck, sent, final, ended>>

-----------------------------------------------------------------------------
(* run_spark_forensics().                                                  *)

Hold(l) ==
    /\ located' = located \cup {l}
    /\ staged' = [staged EXCEPT ![try] = @ \cup {l}]

\* locate() is called before the try statement: if it raises, so does the run.
Locate ==
    /\ pc = "locate"
    /\ \/ Hold("log") /\ Then(IF conf.baseline THEN "baseline" ELSE "analyze")
       \/ pc' = "result" /\ exc' = "error" /\ UNCHANGED <<located, staged>>
    /\ UNCHANGED <<conf, try, cli, json, md, summary, retval, recorded, stuck, sent, final, ended>>

\* Mutant of LocateBaseline: it is called before the try statement, too.
LocateBaselineOutside ==
    /\ pc = "baseline"
    /\ \/ Hold("base") /\ Then("analyze")
       \/ pc' = "result" /\ exc' = "error" /\ UNCHANGED <<located, staged>>
    /\ UNCHANGED <<conf, try, cli, json, md, summary, retval, recorded, stuck, sent, final, ended>>

\* The baseline's locate(), then _check_baseline_is_another_log().
LocateBaseline ==
    /\ pc = "baseline"
    /\ \/ Hold("base") /\ (Then("analyze") \/ Raise("error"))
       \/ Raise("error") /\ UNCHANGED <<located, staged>>
    /\ UNCHANGED <<conf, try, cli, json, md, summary, retval, recorded, stuck, sent, final, ended>>

\* Every try would repeat it: "a retry can clear HistoryServerFetchError, not
\* CliConfigurationError (nor a usage error)", nor another report schema.  An
\* analysis fails on the first of its runs that does.
Hopeless(a) ==
    \/ a.json.text = "otherSchema"
    \/ \E r \in {a.json} \cup {m \in {a.markdown} : a.json.text = "report"} :
          r.exit = 2 \/ r.cause = "permanent"

\* collect() in a resumed run, else analyze().
AnalysisError(a) == IF conf.entry = "resume" THEN Collected(a) ELSE Analyzed(a)

\* The CLI runs and is understood or not, or the backend itself fails.
Analyze ==
    /\ pc = "analyze"
    /\ \/ \E a \in Analyses(conf.markdown, conf.entry = "resume") :
             /\ cli' = a
             /\ IF AnalysisError(a) = "none" THEN Then("json") ELSE Raise(AnalysisError(a))
             /\ final' = [final EXCEPT ![try] = IF Hopeless(a) THEN "config" ELSE @]
       \/ Raise("error") /\ UNCHANGED <<cli, final>>
    /\ UNCHANGED <<conf, try, located, json, md, summary, retval, recorded, staged, stuck, sent, ended>>

-----------------------------------------------------------------------------
(* handle_report().                                                        *)

PersistJson ==
    /\ pc = "json"
    /\ \/ json' = try /\ Then(IF conf.markdown THEN "markdown" ELSE "summary")
       \/ json' \in {json, try} /\ Raise("error")
    /\ UNCHANGED <<conf, try, cli, located, md, summary, retval, recorded,
                   staged, stuck, sent, final, ended>>

\* Mutant of PersistMarkdown: a missing Markdown report is passed over.
PersistMarkdownIfAny ==
    /\ pc = "markdown"
    /\ \/ md' = (IF cli.markdown # NoMarkdown THEN try ELSE md) /\ Then("summary")
       \/ md' = md /\ Raise("error")
    /\ UNCHANGED <<conf, try, cli, located, json, summary, retval, recorded,
                   staged, stuck, sent, final, ended>>

PersistMarkdown ==
    /\ pc = "markdown"
    /\ \/ cli.markdown # NoMarkdown /\ md' = try /\ Then("summary")
       \/ cli.markdown # NoMarkdown /\ md' = try /\ Raise("error")
       \/ md' = md /\ Raise("error")
    /\ UNCHANGED <<conf, try, cli, located, json, summary, retval, recorded,
                   staged, stuck, sent, final, ended>>

\* Mutant of Violated: only what stderr says counts.
PrintedViolation == "violation" \in cli.json.printed

\* A parsed violation, or exit code 1 whatever stderr says.
Violated == "violation" \in cli.json.printed \/ cli.json.exit = 1

\* build_summary(): the report's destination and verdict.
Summary == [try |-> try, violated |-> Violated]

PushSummary ==
    /\ pc = "summary"
    /\ \/ summary' = Summary /\ Then("notify")
       \/ summary' = summary /\ Raise("error")
    /\ UNCHANGED <<conf, try, cli, located, json, md, retval, recorded,
                   staged, stuck, sent, final, ended>>

\* Notifier.notify() logs what _send() raises.
Notify ==
    /\ pc = "notify"
    /\ \/ sent' = sent
       \/ conf.notifier /\ sent' = sent \cup {try}
    /\ Then("decide")
    /\ UNCHANGED <<conf, try, cli, located, json, md, summary, retval, recorded,
                   staged, stuck, final, ended>>

\* execute_complete() records the breach's destination in its except clause,
\* before its finally; execute() does so after run_spark_forensics's.
Decide ==
    /\ pc = "decide"
    /\ IF Violated /\ conf.onBreach = "fail"
       THEN /\ Raise("breach")
            /\ final' = [final EXCEPT ![try] = "breach"]
            /\ recorded' = (conf.entry = "resume")
       ELSE Then("cleanBase") /\ UNCHANGED <<final, recorded>>
    /\ UNCHANGED <<conf, try, cli, located, json, md, summary, retval,
                   staged, stuck, sent, ended>>

-----------------------------------------------------------------------------
(* The finally clauses, and what the caller does with the outcome.         *)

\* cleanup() of one log: an exception of its own replaces the one in flight.
\* Only a log source that staged a copy has something to fail at.
Cleanup(l, next) ==
    /\ pc' = next
    /\ \/ /\ exc' = exc
          /\ staged' = [staged EXCEPT ![try] = IF l \in located THEN @ \ {l} ELSE @]
          /\ UNCHANGED stuck
       \/ /\ l \in staged[try]
          /\ exc' = "error"
          /\ stuck' = [stuck EXCEPT ![try] = @ \cup {l}]
          /\ UNCHANGED staged
    /\ UNCHANGED <<conf, try, cli, located, json, md, summary, retval, recorded,
                   sent, final, ended>>

\* Mutant of CleanupBaseline: no inner finally, so an exception skips the log.
CleanupBaselineFlat ==
    /\ pc = "cleanBase"
    /\ \/ Cleanup("base", "cleanLog") /\ stuck' = stuck
       \/ Cleanup("base", "result") /\ stuck' # stuck

CleanupBaseline == pc = "cleanBase" /\ Cleanup("base", "cleanLog")
CleanupLog == pc = "cleanLog" /\ Cleanup("log", "result")

Outcome(e) == IF e = "none" THEN "success" ELSE e

\* Mutant of ReturnFromOperator: a breach's destination is not recorded.
ReturnOnSuccessOnly ==
    /\ conf.entry # "callback"
    /\ recorded' = (exc = "none")
    /\ retval' = IF exc = "none" THEN try ELSE retval
    /\ ended' = [ended EXCEPT ![try] = Outcome(exc)]
    /\ exc' = exc

\* execute() and execute_complete(): record the destination; Airflow pushes
\* what they return.
ReturnFromOperator ==
    /\ conf.entry # "callback"
    /\ recorded' = (recorded \/ exc \in {"none", "breach"})
    /\ retval' = IF exc = "none" THEN try ELSE retval
    /\ ended' = [ended EXCEPT ![try] = Outcome(exc)]
    /\ exc' = exc

\* Mutant of ReturnFromCallback: return_value is not pushed on a breach.
CallbackOnSuccessOnly ==
    /\ conf.entry = "callback"
    /\ retval' = IF exc = "none" THEN try ELSE retval
    /\ exc' = exc
    /\ ended' = [ended EXCEPT ![try] = Outcome(exc)]
    /\ UNCHANGED recorded

\* The callback pushes return_value itself, also when a threshold was breached.
ReturnFromCallback ==
    /\ conf.entry = "callback"
    /\ \/ /\ retval' = IF exc \in {"none", "breach"} THEN try ELSE retval
          /\ exc' = exc
       \/ exc \in {"none", "breach"} /\ exc' = "error" /\ retval' = retval
    /\ ended' = [ended EXCEPT ![try] = Outcome(exc')]
    /\ UNCHANGED recorded

Return ==
    /\ pc = "result"
    /\ pc' = "idle"
    /\ ReturnFromOperator \/ ReturnFromCallback
    /\ UNCHANGED <<conf, try, cli, located, json, md, summary, staged, stuck, sent, final>>

-----------------------------------------------------------------------------
(* Kills and crashes.                                                      *)

\* An AirflowTaskTimeout or a kill unwinds the run from wherever it is; it cuts
\* a cleanup() short, and the outer finally still runs.
Kill ==
    /\ pc # "idle"
    /\ exc' = "killed"
    /\ pc' = CASE pc \in Body -> "cleanBase"
               [] pc = "cleanBase" -> "cleanLog"
               [] OTHER -> "result"
    /\ stuck' = [stuck EXCEPT ![try] = @ \cup
                    (CASE pc = "cleanBase" -> {"base"} \cap staged[try]
                       [] pc = "cleanLog" -> {"log"} \cap staged[try]
                       [] OTHER -> {})]
    /\ UNCHANGED <<conf, try, cli, located, json, md, summary, retval, recorded,
                   staged, sent, final, ended>>

\* The worker dies.
Crash ==
    /\ pc # "idle"
    /\ pc' = "idle"
    /\ ended' = [ended EXCEPT ![try] = "crash"]
    /\ UNCHANGED <<conf, try, exc, cli, located, json, md, summary, retval, recorded,
                   staged, stuck, sent, final>>

-----------------------------------------------------------------------------

Next ==
    \/ StartTry \/ Locate \/ LocateBaseline \/ Analyze
    \/ PersistJson \/ PersistMarkdown \/ PushSummary \/ Notify \/ Decide
    \/ CleanupBaseline \/ CleanupLog \/ Return
    \/ Kill \/ Crash

Spec == Init /\ [][Next]_vars

-----------------------------------------------------------------------------
(* Properties.                                                             *)

\* The CLI says that a threshold is violated: by its exit code, by a line of
\* its stderr, or by both.
ReportsViolation == cli.json.exit = 1 \/ "violation" \in cli.json.printed

\* A violation the CLI reported, whether or not its exit code and its stderr
\* agree and its stderr could be parsed, never passes a task that is to fail on
\* it, and nothing else raises ThresholdBreached.
ViolationFailsTheTask ==
    /\ try # NoTry /\ ended[try] = "success" /\ conf.onBreach = "fail" => ~ReportsViolation
    /\ try # NoTry /\ ended[try] = "breach" => ReportsViolation /\ conf.onBreach = "fail"

\* Whoever hears of this try's report, by a notification or by the way the run
\* ended, finds it: the JSON (and the Markdown) at its destination is this
\* try's, and the summary XCom carries its verdict.
ReportIsPublished ==
    try # NoTry /\ (try \in sent \/ ended[try] \in {"success", "breach"}) =>
        /\ json = try
        /\ conf.markdown => md = try
        /\ summary = [try |-> try, violated |-> ReportsViolation]

\* ReportLink on Airflow 2 and on Airflow 3.
Link2 == IF summary.try # NoTry THEN summary.try ELSE retval
Link3 == IF recorded THEN json ELSE NoTry

\* A run that ended with a verdict can be opened: from the task's link on
\* either Airflow, or from the return_value a callback pushes.
VerdictHasALink ==
    try # NoTry /\ ended[try] \in {"success", "breach"} =>
        IF conf.entry = "callback" THEN retval = try ELSE Link2 = try /\ Link3 = try

\* However a run ends, short of a crash, it leaves on the worker only those
\* staged logs whose own cleanup() did not finish; a failure to remove the
\* baseline does not keep the log.  (What a locate() leaves that never returned
\* is LogStaging's subject.)
StagedLogsRemoved ==
    \A n \in Tries : ended[n] \notin {"none", "crash"} => staged[n] \subseteq stuck[n]

\* A failure that every try would repeat is not retried: a try after a breach
\* or a hopeless analysis is there only because that one was killed, crashed or
\* could not remove its staged logs on its way out.  And no failure that a retry
\* could clear ends the task at once.
FinalFailuresAreFinal ==
    \A n \in Tries :
        /\ final[n] # "none" /\ n < try => ended[n] \in {"killed", "crash"} \/ stuck[n] # {}
        /\ ended[n] \in {"config", "breach"} => final[n] = ended[n]

\* "A deferred run [...] raises the same errors for the same outcome"
\* (docs/configuration.md:114-118) is true but for one outcome: a Markdown run
\* that exited as usual and wrote nothing, which collect() refuses and a
\* synchronous run takes for an empty report.  The two ways differ for that
\* outcome and for no other.
UnwrittenMarkdown ==
    /\ JsonError(cli.json) = "none"
    /\ cli.markdown.exit \in UsableExits /\ cli.markdown.text = "nothing"

SameAsSynchronous ==
    conf.entry = "resume" /\ cli # NoRun =>
        (Collected(cli) # Analyzed(cli) <=> UnwrittenMarkdown)

\* "a breach is a deterministic verdict [...] and should not consume the
\* task's configured retries" (exceptions.py:8-12): only a kill or a crash on
\* its way out has a breach retried.
BreachIsNeverRetried ==
    \A n \in Tries : final[n] = "breach" /\ n < try => ended[n] \in {"killed", "crash"}

=============================================================================
