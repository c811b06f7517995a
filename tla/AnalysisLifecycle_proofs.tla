----------------------- MODULE AnalysisLifecycle_proofs -----------------------
(***************************************************************************)
(* What a user may conclude from AnalysisLifecycle alone, for any tries    *)
(* and scopes.                                                             *)
(***************************************************************************)
EXTENDS AnalysisLifecycle, TLAPS

\* An analysis was asked for somewhere.
Somewhere == \A t \in Tries : analysis[t] # "none" => scope[t] \in Scopes

\* OneWanted holds because Ask() looks at its scope, NoneLeft because no analysis
\* is asked for by a try that has ended.
Inv == LifecycleOK /\ Somewhere /\ OneWanted /\ NoneLeft /\ OwnReport

\* It holds before the first try.
LEMMA InitInv == Init => Inv
BY DEF Init, Inv, LifecycleOK, Somewhere, OneWanted, NoneLeft, OwnReport, TaskStates, AnalysisStates,
       Wanted, Over

\* Stopping some analyses makes none wanted, and none begin or vanish.
LEMMA StopsOnly ==
    ASSUME LifecycleOK, StopSome
    PROVE  /\ analysis' \in [Tries -> AnalysisStates]
           /\ \A s \in Tries : /\ analysis'[s] \in Wanted => analysis[s] \in Wanted
                               /\ analysis'[s] = "none" <=> analysis[s] = "none"
BY DEF LifecycleOK, StopSome, AnalysisStates, Wanted

\* Every step keeps it.
LEMMA StepInv == Inv /\ [Next]_lifecycleVars => Inv'
<1> SUFFICES ASSUME Inv, [Next]_lifecycleVars PROVE Inv'
  OBVIOUS
<1> USE DEF Inv, LifecycleOK, Somewhere, OneWanted, NoneLeft, OwnReport, TaskStates, AnalysisStates,
            Wanted, Over, AtWork
<1>1. ASSUME NEW t \in Tries, Begin(t) PROVE Inv'
  BY <1>1 DEF Begin
<1>2. ASSUME NEW t \in Tries, NEW d \in Scopes, Ask(t, d) PROVE Inv'
  BY <1>2 DEF Ask
<1>3. ASSUME NEW t \in Tries, Proceed(t) PROVE Inv'
  BY <1>3, StopsOnly DEF Proceed, Excuse
<1>4. ASSUME NEW t \in Tries, End(t) PROVE Inv'
  BY <1>4, StopsOnly DEF End, Excuse
<1>5. ASSUME NEW t \in Tries, Launch(t) \/ Report(t) PROVE Inv'
  BY <1>5 DEF Launch, Report
<1>6. CASE Vanish
  BY <1>6 DEF Vanish
<1>7. CASE UNCHANGED lifecycleVars
  BY <1>7 DEF lifecycleVars
<1> QED BY <1>1, <1>2, <1>3, <1>4, <1>5, <1>6, <1>7 DEF Next

\* So it always holds.
LEMMA Invariant == Spec => []Inv
BY InitInv, StepInv, PTL DEF Spec

\* Of the promise alone it follows that a scope never holds two analyses of a
\* task instance that are both still wanted, that an analysis outlives its try
\* only with an excuse, and that no try succeeds by the report of another one.
THEOREM Promises == Spec => [](OneWanted /\ NoneLeft /\ OwnReport)
<1>1. Inv => OneWanted /\ NoneLeft /\ OwnReport
  BY DEF Inv
<1> QED BY <1>1, Invariant, PTL

=============================================================================
