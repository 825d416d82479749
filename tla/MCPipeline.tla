----------------------------- MODULE MCPipeline -----------------------------
(***************************************************************************)
(* Small pipelines for TLC.                                                *)
(***************************************************************************)
EXTENDS Pipeline

One == {CHOOSE p \in Parts : TRUE}

\* Two rows, which fill a chunk, for one part and one row for the others.
Base ==
  [kind |-> "keyset", strict |-> FALSE, planned |-> {}, workers |-> 1, cancels |-> TRUE, flushes |-> FALSE,
   rows |-> [p \in Parts |-> IF p \in One THEN 2 ELSE 1]]

\* A keyset read through a transform of one resource, in a run that may be canceled.
Transformed == {[Base EXCEPT !.planned = One]}

\* Reads with cursors of keys have one writer, as the runner gives them.
Keyset == Transformed \cup
  {Base, [Base EXCEPT !.planned = Parts], [Base EXCEPT !.cancels = FALSE, !.flushes = TRUE]}

Coarse ==
  {[Base EXCEPT !.kind = "coarse", !.planned = One, !.workers = 2, !.cancels = FALSE],
   [Base EXCEPT !.kind = "coarse", !.planned = Parts]}

\* A strict stream carries no transform, as the runner builds it.
Streams ==
  {[Base EXCEPT !.kind = "stream", !.strict = TRUE, !.cancels = FALSE],
   [Base EXCEPT !.kind = "stream", !.planned = One, !.rows = [p \in Parts |-> 1]]}

Pipelines == Keyset \cup Coarse \cup Streams
=============================================================================
