------------------------------ MODULE CliOutcome ------------------------------
(***************************************************************************)
(* The contract of the sparkforensics-analyze CLI (hooks/analyze/_cli.py,  *)
(* report.py) and the two ways its outcome reaches the operator: analyze() *)
(* reads the output of the process it runs, collect() the exit code of a   *)
(* trigger and the files a detached job left.  An analysis is one run that *)
(* writes JSON and, where Markdown is wanted, a second one.                *)
(***************************************************************************)
EXTENDS Naturals

UsableExits == {0, 1, 3}
HistoryServerExits == {4, 5}
NotFoundExits == {126, 127}
TimeoutExit == 124
NoExit == 256       \* a detached Markdown run that left no exit code

\* One per class: the usable ones, a usage error, the log or the baseline, an
\* internal error or any other failure, coreutils' timeout, and the shell's.
Exits == UsableExits \cup {2, 4, 6, TimeoutExit, 127}

\* text: what the run wrote.  cause: the History Server failure that stderr
\* names, by whether a retry can clear it.  printed: the statuses of the
\* threshold lines that the operator can parse from stderr; nothing makes them
\* agree with the exit code.
JsonRuns ==
    {r \in [exit : Exits, text : {"report", "otherSchema", "garbage", "nothing"},
            cause : {"none", "transient", "permanent"},
            printed : SUBSET {"violation", "inconclusive"}] :
        /\ r.exit \notin UsableExits => r.text = "nothing"
        /\ r.cause # "none" => r.exit \in HistoryServerExits
        /\ r.text # "report" => r.printed = {}}

\* It is passed no budget, so it has an exit code of its own, whatever the
\* JSON run's was.
MarkdownRuns ==
    {m \in [exit : Exits \cup {NoExit}, text : {"report", "nothing"},
            cause : {"none", "transient", "permanent"}] :
        /\ m.exit \notin UsableExits => m.text = "nothing"
        /\ m.cause # "none" => m.exit \in HistoryServerExits}

\* None is wanted, or the backend writes none.
NoMarkdown == [exit |-> NoExit, text |-> "none", cause |-> "none"]

\* The Markdown run follows a run with a usable exit code only.
Analyses(wanted, detached) ==
    {[json |-> r, markdown |-> NoMarkdown] : r \in JsonRuns} \cup
    UNION {{[json |-> r, markdown |-> m] :
                m \in {n \in MarkdownRuns : wanted /\ (n.exit = NoExit => detached)}} :
           r \in {j \in JsonRuns : j.exit \in UsableExits}}

-----------------------------------------------------------------------------
(* Errors.  "config" is CliConfigurationError, which Airflow does not      *)
(* retry; "error" is any exception that it does.                           *)

\* Mutant of CliError: only the CLI's own usage error is a configuration error.
UsageErrorOnly(r) == IF r.exit = 2 THEN "config" ELSE "error"

\* cli_error_for_exit_code()
CliError(r) == IF r.exit = 2 \/ (r.exit \in HistoryServerExits /\ r.cause = "permanent")
               THEN "config" ELSE "error"

\* build_report()
ReportError(text) ==
    CASE text = "report" -> "none"
      [] text = "otherSchema" -> "config"
      [] OTHER -> "error"

\* _report_from_run(), and SubprocessAnalyzeHook's own checks
JsonError(r) ==
    IF r.exit \in NotFoundExits \cup {TimeoutExit} THEN "error"
    ELSE IF r.exit \notin UsableExits THEN CliError(r)
    ELSE ReportError(r.text)

-----------------------------------------------------------------------------
(* The two ways.                                                           *)

\* analyze(): the output of a run that wrote nothing is the empty string,
\* which is no JSON, but passes for Markdown.
Analyzed(a) ==
    IF JsonError(a.json) # "none" THEN JsonError(a.json)
    ELSE IF a.markdown = NoMarkdown \/ a.markdown.exit \in UsableExits THEN "none"
    ELSE IF a.markdown.exit = TimeoutExit THEN "error"
    ELSE CliError(a.markdown)

\* Mutant of Collected: the Markdown run's errors are passed over.
CollectedJson(a) == JsonError(a.json)

\* collect(): a missing report file is read as the empty string, a missing
\* Markdown file or exit code is an error.
Collected(a) ==
    IF JsonError(a.json) # "none" THEN JsonError(a.json)
    ELSE IF a.markdown = NoMarkdown THEN "none"
    ELSE IF a.markdown.exit \in {TimeoutExit, NoExit} THEN "error"
    ELSE IF a.markdown.exit \notin UsableExits THEN CliError(a.markdown)
    ELSE IF a.markdown.text = "nothing" THEN "error" ELSE "none"

=============================================================================
