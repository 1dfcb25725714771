----------------------------- MODULE MCSnapshot -----------------------------
EXTENDS Snapshot

CONSTANTS e1

\* Three sub-frames of one element each: two snapshots, frames that reload or go
\* three times, and one screenshot with labels.
Events == {"snapshots", "finds", "acts", "overlays", "clears", "changes", "loads"}
TwoSnapshots ==
  {[e \in Events |-> CASE e = "snapshots" -> 2
                       [] e = "loads" -> 3
                       [] e = "overlays" -> 1
                       [] OTHER -> 0]}
=============================================================================
