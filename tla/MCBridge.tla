------------------------------ MODULE MCBridge ------------------------------
EXTENDS Bridge

CONSTANTS c1, c2, c3, a1, a2, s1, r1

TwoConns == {c1, c2}
Everyone == Conns \cup Agents \cup Sessions
OnePartition == {[x \in Everyone |-> "default"]}
\* Everybody together, or the second provider in a partition of its own.
TogetherOrApart ==
  {[x \in Everyone |-> IF x = c2 THEN p ELSE "default"] : p \in {"default", "other"}}
SameSite == [c \in Conns |-> [base |-> "site", tab |-> "", providerId |-> "", url |-> ""]]
\* Two connections of one page, the second after a reload.
SamePage ==
  [c \in Conns |-> [base |-> "site", tab |-> "7", providerId |-> "p", url |-> "u"]]
ToolsOnly == <<"tools">>
ResourcesOnly == <<"resources">>
PromptsAndTools == <<"prompts", "tools">>
ResourcesAndTools == <<"resources", "tools">>
NoKinds == <<>>
AllKinds == [c \in Conns |-> {"tools", "prompts", "resources"}]
OnlyTools == [c \in Conns |-> {"tools"}]
OneName == {{"x"}}
TwoNames == {{"x"}, {"x", "y"}}
OnePage == [n \in {"x", "y"} |-> 1]
YSecond == [n \in {"x", "y"} |-> IF n = "x" THEN 1 ELSE 2]
=============================================================================
