---------------------------- MODULE MCBoundedRun ----------------------------
(* BoundedRun with the plans of a run and the events of a history, for TLC. *)
EXTENDS BoundedRun

FullReads == [mode : {"full"}, afterCommit : {TRUE}, jobsExpire : {FALSE}]
Increments == [mode : {"incremental"}, afterCommit : {TRUE}, jobsExpire : {FALSE}]
Checkpointed ==
  {[mode |-> "incremental", afterCommit |-> FALSE, jobsExpire |-> FALSE],
   [mode |-> "cdc", afterCommit |-> TRUE, jobsExpire |-> TRUE]}

Once(events) ==
  [x \in {"submit", "pause", "resume", "cancel", "beat", "fault"} |-> IF x \in events THEN 1 ELSE 0]

OneCancel == {Once({"cancel"})}
OneResume == {Once({"resume"})}
CancelOrFault == {Once({"cancel", "fault"}), Once({"submit", "fault"}), Once({"cancel", "beat"})}
PauseOrFault == {Once({"pause", "resume"}), Once({"resume", "fault"})}

=============================================================================
