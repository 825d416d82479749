------------------------- MODULE MCStreamSuccessors -------------------------
(***************************************************************************)
(* What the documentation and the comments say of waiting successors,      *)
(* stated over StreamRuntime with one history variable: the runs that were *)
(* waiting when the API accepted a stop.                                   *)
(***************************************************************************)
EXTENDS MCStreamRuntime

VARIABLE withdrawn

historyVars == <<vars, withdrawn>>

AcceptsStop ==
    \/ SignalMatches("stopped")
    \/ SignalSet /\ api.want = "stopped"

HistoryInit == Init /\ withdrawn = {}

HistoryNext ==
    \/ AcceptsStop /\ withdrawn' = withdrawn \cup Waiting(status)
    \/ Next /\ ~AcceptsStop /\ UNCHANGED withdrawn

HistorySpec == HistoryInit /\ [][HistoryNext]_historyVars

\* Stopping the pipeline while a successor waits cancels the successor: every
\* run that waited when signalContinuous accepted a stop is canceled.
StopCancelsSuccessor == \A r \in withdrawn : status[r] = "canceled"
=============================================================================
