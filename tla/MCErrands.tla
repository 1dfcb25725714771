---------------------------- MODULE MCErrands ----------------------------
EXTENDS Errands, TLC

CONSTANTS c1, c2, w1, w2

\* One download, one wait for a new one, and a worker that may rest in between.
OneWait ==
  {"files" :> 1 @@ "waits" :> 1 @@ "rests" :> 1
     @@ [e \in {"lists", "contexts", "kids", "steps", "reads", "timeouts"} |-> 0]}
=============================================================================
