---------------------------- MODULE RequestReply ----------------------------
(***************************************************************************)
(* What Peer.Call promises its callers, with no word on how: every request *)
(* ends once, with the far side's answer to that very request or with an   *)
(* error; "closed" is only said of a connection that is going down; and    *)
(* when it goes down nobody is left waiting.                               *)
(***************************************************************************)
CONSTANT Calls

VARIABLES
  outcome,    \* per call: "none", "waiting", "result", "closed", "failed"
  answered,   \* the calls the far side has answered
  down        \* the connection has started to go down

promise == <<outcome, answered, down>>

Init ==
  /\ outcome = [c \in Calls |-> "none"]
  /\ answered = {}
  /\ down = FALSE

Ask(c) ==
  /\ outcome[c] = "none"
  /\ outcome' = [outcome EXCEPT ![c] = "waiting"]
  /\ UNCHANGED <<answered, down>>

\* The far side may answer late: after the caller gave up.
Answer(c) ==
  /\ outcome[c] # "none"
  /\ c \notin answered
  /\ answered' = answered \cup {c}
  /\ UNCHANGED <<outcome, down>>

GoDown ==
  /\ ~down
  /\ down' = TRUE
  /\ UNCHANGED <<outcome, answered>>

\* An answered call may still end in an error: the timer or the connection's end
\* may win against the answer.
End(c, how) ==
  /\ outcome[c] = "waiting"
  /\ how = "result" => c \in answered
  /\ how = "closed" => down
  /\ outcome' = [outcome EXCEPT ![c] = how]
  /\ UNCHANGED <<answered, down>>

Ends(c) == \E how \in {"result", "closed", "failed"} : End(c, how)

Next ==
  \/ GoDown
  \/ \E c \in Calls : Ask(c) \/ Answer(c) \/ Ends(c)

Spec ==
  /\ Init /\ [][Next]_promise
  /\ \A c \in Calls : WF_promise(down /\ Ends(c))
=============================================================================
