------------------------------ MODULE MCDaemon ------------------------------
EXTENDS Daemon

CONSTANTS a1, a2, m1, t1, t2

FreePort == {NoOne}
AnyPort == {NoOne, Foreign}
Plain == [token |-> [p \in Processes |-> ""], strict |-> {}, keyed |-> {}]
NoConfig == {Plain}
\* Everybody has the same token; or also, but the daemon started by hand requires a
\* profile, which the agent has not, and the stop command has another token; or only
\* the daemon started by hand has a token, and the agent's own one requires a profile.
Same == [Plain EXCEPT !.token = [p \in Processes |-> "secret"]]
SomeConfigs ==
  {Same,
   [Same EXCEPT !.strict = Manual,
                !.token = [p \in Processes |-> IF p \in Stops THEN "other" ELSE "secret"]],
   [Same EXCEPT !.strict = Agents,
                !.token = [p \in Processes |-> IF p \in Manual THEN "secret" ELSE ""]]}
=============================================================================
