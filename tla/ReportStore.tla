----------------------------- MODULE ReportStore -----------------------------
(***************************************************************************)
(* What callers of persist() (sinks.py) and readers of a destination rely  *)
(* on: a destination changes in one step from one whole report to another, *)
(* a persist() that returns has made that step, and one that raises or     *)
(* dies has made it once or not at all.                                    *)
(***************************************************************************)

CONSTANTS
    Calls,      \* the calls of persist() on one destination
    NoReport    \* nothing is there yet

VARIABLES
    content,    \* the call whose report the destination holds
    status      \* how far each call is

storeVars == <<content, status>>

Init ==
    /\ content = NoReport
    /\ status = [c \in Calls |-> "pending"]

Become(c, from, to) == status[c] \in from /\ status' = [status EXCEPT ![c] = to]

Store(c) == Become(c, {"pending"}, "stored") /\ content' = c
Return(c) == Become(c, {"stored"}, "returned") /\ UNCHANGED content
Abort(c) == Become(c, {"pending", "stored"}, "aborted") /\ UNCHANGED content

Next == \E c \in Calls : Store(c) \/ Return(c) \/ Abort(c)

Spec == Init /\ [][Next]_storeVars

=============================================================================
