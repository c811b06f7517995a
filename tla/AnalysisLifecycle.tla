--------------------------- MODULE AnalysisLifecycle ---------------------------
(***************************************************************************)
(* What a deferrable task instance promises about its remote analyses,     *)
(* without the workers, commands and directories that keep the promise:    *)
(* a try asks for one analysis, in a scope (a directory on a host) where   *)
(* none of the task instance is still wanted; no analysis is stopped while *)
(* its try waits for it; a try succeeds by its own report; and a try that  *)
(* ends has no analysis left, unless something happened to it that it      *)
(* could not see or undo.                                                  *)
(***************************************************************************)
EXTENDS Naturals

CONSTANTS
    Tries,      \* the tries of the task instance, by their numbers
    Scopes,     \* where an analysis may run
    NoScope     \* "nowhere yet"

VARIABLES
    task,       \* what each try does, or how it ended
    analysis,   \* what has become of the analysis of each try
    scope,      \* where each try asked for it
    reports,    \* the tries whose analysis has left a report
    excused     \* the tries to which something happened

lifecycleVars == <<task, analysis, scope, reports, excused>>

AtWork == {"working", "waiting"}
Over == {"succeeded", "failed"}
TaskStates == {"idle"} \cup AtWork \cup Over

\* stopping: told to stop, it may take its time.
Wanted == {"asked", "running"}
AnalysisStates == {"none", "stopping", "ended"} \cup Wanted

LifecycleOK ==
    /\ task \in [Tries -> TaskStates]
    /\ analysis \in [Tries -> AnalysisStates]
    /\ scope \in [Tries -> Scopes \cup {NoScope}]
    /\ reports \subseteq Tries /\ excused \subseteq Tries

Init ==
    /\ task = [t \in Tries |-> "idle"]
    /\ analysis = [t \in Tries |-> "none"]
    /\ scope = [t \in Tries |-> NoScope]
    /\ reports = {} /\ excused = {}

-----------------------------------------------------------------------------
(* The task.                                                               *)

Begin(t) ==
    /\ \A s \in Tries : task[s] \notin AtWork /\ (s >= t => task[s] = "idle")
    /\ task' = [task EXCEPT ![t] = "working"]
    /\ UNCHANGED <<analysis, scope, reports, excused>>

Ask(t, d) ==
    /\ task[t] = "working" /\ analysis[t] = "none"
    /\ \A s \in Tries : scope[s] = d => analysis[s] \notin Wanted
    /\ task' = [task EXCEPT ![t] = "waiting"]
    /\ analysis' = [analysis EXCEPT ![t] = "asked"]
    /\ scope' = [scope EXCEPT ![t] = d]
    /\ UNCHANGED <<reports, excused>>

\* Whatever a try does, it may stop analyses: its own or an older try's, but
\* none that is still waited for afterwards.
StopSome ==
    \E S \in SUBSET {s \in Tries : analysis[s] = "running" /\ task'[s] # "waiting"} :
        analysis' = [s \in Tries |-> IF s \in S THEN "stopping" ELSE analysis[s]]

Excuse(t) == excused' \in {excused, excused \cup {t}}

\* A try goes on, and may stop waiting.
Proceed(t) ==
    /\ task[t] \in AtWork
    /\ task' \in {task, [task EXCEPT ![t] = "working"]}
    /\ StopSome /\ Excuse(t)
    /\ UNCHANGED <<scope, reports>>

\* A try ends: well only with a report of its own, or if it asked for no
\* analysis and made the report itself.
End(t) ==
    /\ task[t] \in AtWork
    /\ \/ task' = [task EXCEPT ![t] = "failed"]
       \/ /\ t \in reports \/ analysis[t] = "none"
          /\ task' = [task EXCEPT ![t] = "succeeded"]
    /\ StopSome /\ Excuse(t)
    /\ t \in excused' \/ analysis'[t] \notin Wanted
    /\ UNCHANGED <<scope, reports>>

-----------------------------------------------------------------------------
(* The hosts.                                                              *)

Launch(t) ==
    /\ analysis[t] = "asked"
    /\ analysis' = [analysis EXCEPT ![t] = "running"]
    /\ UNCHANGED <<task, scope, reports, excused>>

Report(t) ==
    /\ analysis[t] = "running"
    /\ analysis' = [analysis EXCEPT ![t] = "ended"]
    /\ reports' = reports \cup {t}
    /\ UNCHANGED <<task, scope, excused>>

\* Analyses end without a report, or never begin; several do at a reboot.
Vanish ==
    /\ \E S \in SUBSET {s \in Tries : analysis[s] # "none"} :
           analysis' = [s \in Tries |-> IF s \in S THEN "ended" ELSE analysis[s]]
    /\ UNCHANGED <<task, scope, reports, excused>>

Next ==
    \/ \E t \in Tries : Begin(t) \/ Proceed(t) \/ End(t) \/ Launch(t) \/ Report(t)
    \/ \E t \in Tries, d \in Scopes : Ask(t, d)
    \/ Vanish

Spec == Init /\ [][Next]_lifecycleVars

-----------------------------------------------------------------------------
(* What follows from it.                                                   *)

\* In one scope, at most one analysis of the task instance is wanted.
OneWanted ==
    \A s, t \in Tries :
        scope[s] = scope[t] /\ {analysis[s], analysis[t]} \subseteq Wanted => s = t

\* A try that ended unexcused has no analysis left, and none to come.
NoneLeft ==
    \A t \in Tries : task[t] \in Over /\ t \notin excused => analysis[t] \notin Wanted

\* A try that succeeded has a report of its own, from its analysis or made
\* without one.
OwnReport == \A t \in Tries : task[t] = "succeeded" => t \in reports \/ analysis[t] = "none"

=============================================================================
