---------------------------- MODULE MCExtension ----------------------------
EXTENDS Extension, TLC

CONSTANTS t1, o1, a1, a2, p1, p2, d1, u1, j1, j2, e1, e2, e3, n1, da, db,
          b1, b2, b3, k1, k2, c1, c2, w1, w2

TwoOrigins == a1 :> "x" @@ a2 :> "y"
OneTitle == p1 :> "T" @@ p2 :> "T"
TwoSelectors == [e \in Elems |-> IF e = e3 THEN "b" ELSE "a"]

Events ==
  {"breaks", "alarms", "unloads", "navs", "asks", "requests", "removals", "bounces", "restarts",
   "agentAsks", "pageTimeouts", "takeovers", "pageGoes", "reroutes", "approvals", "agentRestarts",
   "calls", "cancels", "toggles", "disables", "looks",
   "snapshots", "finds", "acts", "overlays", "clears", "changes", "loads",
   "registers", "activates", "labels", "closes",
   "pins", "switches", "wakes", "recycles", "drops", "tools", "ends",
   "files", "waits", "lists", "rests", "contexts", "kids", "steps", "reads", "timeouts",
   "toolCalls", "renders", "documents", "popups", "autoCalls", "controls", "wraps"}
Scenario(component, n) ==
  "component" :> component @@ [e \in Events |-> IF e \in DOMAIN n THEN n[e] ELSE 0]

TabScenarios ==
  {Scenario("TabWorker", [requests |-> 1, breaks |-> 1, unloads |-> 1, navs |-> 1]),
   Scenario("TabWorker", [requests |-> 1, unloads |-> 1, navs |-> 2]),
   Scenario("TabWorker", [requests |-> 2, restarts |-> 1]),
   Scenario("TabWorker", [requests |-> 2, removals |-> 1]),
   Scenario("TabWorker", [requests |-> 1, bounces |-> 1, alarms |-> 1, unloads |-> 1])}
WebScenarios ==
  {Scenario("WebAgent", [agentAsks |-> 2, reroutes |-> 2, approvals |-> 1]),
   Scenario("WebAgent", [agentAsks |-> 2, reroutes |-> 1, approvals |-> 1, pageGoes |-> 1,
                         pageTimeouts |-> 1]),
   Scenario("WebAgent", [agentAsks |-> 2, reroutes |-> 1, approvals |-> 2, takeovers |-> 1]),
   Scenario("WebAgent", [agentAsks |-> 1, reroutes |-> 1, approvals |-> 2, agentRestarts |-> 1])}
DebuggerScenarios ==
  {Scenario("Debugger", [calls |-> 2, cancels |-> 1]),
   Scenario("Debugger", [calls |-> 1, cancels |-> 1, looks |-> 1, toggles |-> 1]),
   Scenario("Debugger", [calls |-> 1, toggles |-> 1, disables |-> 1])}
SnapshotScenarios ==
  {Scenario("Snapshot", [snapshots |-> 2, loads |-> 1, overlays |-> 1]),
   Scenario("Snapshot", [snapshots |-> 1, changes |-> 1, finds |-> 1, acts |-> 1, clears |-> 1])}
PageScenarios ==
  {Scenario("Page", [registers |-> 1, activates |-> 1, labels |-> 1]),
   Scenario("Page", [registers |-> 1, activates |-> 3]),
   Scenario("Page", [registers |-> 2, activates |-> 1]),
   Scenario("Page", [registers |-> 1, activates |-> 1, closes |-> 1])}
ControlScenarios ==
  {Scenario("BrowserControl", [pins |-> 3, recycles |-> 1]),
   Scenario("BrowserControl", [switches |-> 3, drops |-> 1, wakes |-> 1, recycles |-> 1]),
   Scenario("BrowserControl", [pins |-> 2, ends |-> 1, recycles |-> 1]),
   Scenario("BrowserControl", [tools |-> 3, ends |-> 1])}
ErrandScenarios ==
  {Scenario("Errands", [files |-> 2, waits |-> 1]),
   Scenario("Errands", [files |-> 2, lists |-> 1]),
   Scenario("Errands", [files |-> 1, waits |-> 1, rests |-> 1, timeouts |-> 1]),
   Scenario("Errands", [contexts |-> 3, kids |-> 2]),
   Scenario("Errands", [contexts |-> 1, kids |-> 1, steps |-> 1, timeouts |-> 1]),
   Scenario("Errands", [steps |-> 2]),
   Scenario("Errands", [reads |-> 2, timeouts |-> 1, rests |-> 1])}
DesignScenarios ==
  {Scenario("Design", [toolCalls |-> 3, renders |-> 1]),
   Scenario("Design", [popups |-> 1, toolCalls |-> 1, renders |-> 1]),
   Scenario("Design", [popups |-> 2, toolCalls |-> 1]),
   Scenario("Design", [popups |-> 3, documents |-> 1])}
AutomationScenarios ==
  {Scenario("Automation", [autoCalls |-> 2, controls |-> 2]),
   Scenario("Automation", [autoCalls |-> 1, controls |-> 2, wraps |-> 1])}

Scenarios ==
  TabScenarios \cup WebScenarios \cup DebuggerScenarios \cup SnapshotScenarios
    \cup PageScenarios \cup ControlScenarios \cup ErrandScenarios \cup DesignScenarios
    \cup AutomationScenarios
=============================================================================
