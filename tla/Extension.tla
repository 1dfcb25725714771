----------------------------- MODULE Extension -----------------------------
(***************************************************************************)
(* The extension (packages/extension/src): the components of the service   *)
(* worker and of the page side by side.                                    *)
(*                                                                         *)
(* They share no state but a scenario, left: which component it is about,  *)
(* and how often each event of the outside may happen.  The others stay as *)
(* they are.  What a component needs of another one is in its own module,  *)
(* as an action that may happen at any time.                               *)
(***************************************************************************)
EXTENDS Naturals, Sequences, FiniteSets

CONSTANTS
  Tabs, MaxPorts, MaxProviders, Ops, Requests,
  Agents, OriginOf, Pages, TitleOf, Clamped, MaxClients, MaxOrigins, Nobody, Browser,
  CdpTabs, UserTab, Jobs, MaxSessions,
  LastFrame, Elements, MaxSeq,
  Names, Defs, Nothing, MaxServers, MaxTunnels,
  Bridges, Fallback, PinTabs, AgentCalls, MaxProfiles, MaxDials,
  Errs, MaxFiles, MaxRecords, Kids, MaxOpened,
  Elems, SelectorOf, MaxPicks, MaxPatches,
  MaxEntries, MaxFetches,
  Budgets

VARIABLES
  enabled, saved, booted, mode, current, holds, page, tab, transport, up, down, owner, entry,
  client, nav, handlers, op,
  approvals, kept, ready, route, on, open, peer, pending, ask, names, change,
  settings, cdpSessions, session, bar, ended, active, job, sweep,
  dom, present, agents, registry, frameIds, call, shown,
  context, changeQueued, activated, toolset, embedded, generation, server, notice, tunnel,
  mirror, closing, listed, far,
  mem, stored, started, made, asked, pinned, applying, provider, dial, openTabs, agentTabs,
  agentCall, tidying, strayed,
  files, records, news, requery, opened, opening, told, lastPlace, errand, rpcSeq, reads, surf,
  alive, canvas, picker, injected, baseline, request,
  window, originals, xhrMeta, capturing, dialogMode, netEntries, netSeq, underway, xhr, spoiled,
  switches, held, astray, left

Tab == INSTANCE TabWorker
Web == INSTANCE WebAgent
Dbg == INSTANCE Debugger
Snap == INSTANCE Snapshot
Pg == INSTANCE Page
Control == INSTANCE BrowserControl WITH ready <- started
Err == INSTANCE Errands
Des == INSTANCE Design
Cap == INSTANCE Automation

ASSUME Bounds ==
  /\ Tab!BoundsAreNumbers /\ Web!ClientBound /\ Dbg!SessionBound
  /\ Snap!FrameBound /\ Pg!PageBounds /\ Control!ControlBounds /\ Err!ErrandBounds
  /\ Des!DesignBounds /\ Cap!AutomationBounds

tabPart == <<enabled, saved, booted, mode, current, holds, page, tab, transport, up, down, owner,
             entry, client, nav, handlers, op>>
webPart == <<approvals, kept, ready, route, on, open, peer, pending, ask, names, change>>
dbgPart == <<settings, cdpSessions, session, bar, ended, active, job, sweep>>
snapPart == <<dom, present, agents, registry, frameIds, call, shown>>
pgPart == <<context, changeQueued, activated, toolset, embedded, generation, server, notice,
            tunnel, mirror, closing, listed, far>>
controlPart == <<mem, stored, started, made, asked, pinned, applying, provider, dial, openTabs,
                 agentTabs, agentCall, tidying, strayed>>
errPart == <<files, records, news, requery, opened, opening, told, lastPlace, errand, rpcSeq,
             reads, surf>>
desPart == <<alive, canvas, picker, injected, baseline, request>>
autoPart == <<window, originals, xhrMeta, capturing, dialogMode, netEntries, netSeq, underway,
              xhr, spoiled, switches, held, astray>>

extensionVars ==
  <<tabPart, webPart, dbgPart, snapPart, pgPart, controlPart, errPart, desPart,
    autoPart, left>>

About(component) == left["component"] = component

\* A component the scenario is not about starts in one of its initial states.
Init ==
  /\ Tab!Init /\ Web!Init /\ Dbg!Init /\ Snap!Init /\ Pg!Init /\ Control!Init /\ Err!Init
  /\ Des!Init /\ Cap!Init
  /\ About("Debugger") \/ settings = [s \in DOMAIN settings |-> FALSE]
  /\ About("Snapshot") \/ \A f \in DOMAIN dom : Len(dom[f]) = 1
  /\ About("BrowserControl") \/ \A t \in PinTabs : openTabs[t] = "user"
  /\ About("Design") \/ alive = {}

Next ==
  \/ /\ About("TabWorker") /\ Tab!Next
     /\ UNCHANGED <<webPart, dbgPart, snapPart, pgPart, controlPart, errPart, desPart, autoPart>>
  \/ /\ About("WebAgent") /\ Web!Next
     /\ UNCHANGED <<tabPart, dbgPart, snapPart, pgPart, controlPart, errPart, desPart, autoPart>>
  \/ /\ About("Debugger") /\ Dbg!Next
     /\ UNCHANGED <<tabPart, webPart, snapPart, pgPart, controlPart, errPart, desPart, autoPart>>
  \/ /\ About("Snapshot") /\ Snap!Next
     /\ UNCHANGED <<tabPart, webPart, dbgPart, pgPart, controlPart, errPart, desPart, autoPart>>
  \/ /\ About("Page") /\ Pg!Next
     /\ UNCHANGED <<tabPart, webPart, dbgPart, snapPart, controlPart, errPart, desPart, autoPart>>
  \/ /\ About("BrowserControl") /\ Control!Next
     /\ UNCHANGED <<tabPart, webPart, dbgPart, snapPart, pgPart, errPart, desPart, autoPart>>
  \/ /\ About("Errands") /\ Err!Next
     /\ UNCHANGED <<tabPart, webPart, dbgPart, snapPart, pgPart, controlPart, desPart, autoPart>>
  \/ /\ About("Design") /\ Des!Next
     /\ UNCHANGED <<tabPart, webPart, dbgPart, snapPart, pgPart, controlPart, errPart, autoPart>>
  \/ /\ About("Automation") /\ Cap!Next
     /\ UNCHANGED <<tabPart, webPart, dbgPart, snapPart, pgPart, controlPart, errPart, desPart>>

\* The fairness of the two components that have some, where they are what happens.
TabFairness ==
  /\ WF_<<tabPart, left>>(About("TabWorker") /\ Tab!Booted)
  /\ \A p \in Tab!Providers : WF_<<tabPart, left>>(About("TabWorker") /\ Tab!SocketDue(p))
  /\ \A s \in Tab!Ports : WF_<<tabPart, left>>(About("TabWorker") /\ Tab!PageDue(s))
  /\ \A o \in Ops : WF_<<tabPart, left>>(About("TabWorker") /\ Tab!OpStep(o))

WebFairness ==
  /\ WF_<<webPart, left>>(About("WebAgent") /\ Web!Booted)
  /\ WF_<<webPart, left>>(About("WebAgent") /\ Web!ChangeStep)
  /\ \A a \in Agents : WF_<<webPart, left>>(About("WebAgent") /\ Web!AgentStep(a))
  /\ \A c \in Web!Clients : WF_<<webPart, left>>(About("WebAgent") /\ Web!PeerDue(c))

Spec ==
  /\ Init /\ [][Next]_extensionVars
  /\ TabFairness /\ WebFairness

-----------------------------------------------------------------------------
(***************************************************************************)
(* The properties of the components.                                       *)
(***************************************************************************)
\* The types of every component; the hold counter of a tab counts its navigations,
\* and every request a web agent has pending has somebody who waits for it.
TypeOK ==
  /\ Tab!TypeOK /\ Web!TypeOK /\ Dbg!TypeOK /\ Snap!TypeOK /\ Pg!TypeOK /\ Control!TypeOK
  /\ Err!TypeOK /\ Des!TypeOK /\ Cap!TypeOK

\* background.ts, connectSocket: the bridge sees at most one connection per provider,
\* and the entry that is listed, held or about to close knows it; browser-provider.ts:
\* the only socket alive is the current one of a provider that is wanted, and such a
\* provider has one or is about to dial.
OneSocketPerProvider == Tab!OneSocketPerProvider /\ Control!OneBrowserConnection

\* background.ts, setTabRoute: a tab that serves a web agent reaches for no socket,
\* whatever dials, timers, alarms and restarts come in between.
AgentTabsDialNobody == Tab!AgentTabsDialNobody

\* background.ts, holdNavigationReply: while a navigation owes its reply on the socket
\* of the page that left, the page that loads does not dial.
HeldSocketComesFirst == Tab!HeldSocketComesFirst

\* background.ts: every page on an enabled tab gets its consumer in the end.
EnabledTabsAreServed == Tab!EnabledTabsAreServed

\* background.ts, web agents: a call on its way to a page is of the agent the tab was
\* set to serve, and its site is connected.
ServedAsChosen == Web!ServedAsChosen

\* background.ts, PageProviderClient: every request of a web agent comes to an end.
AsksSettle == Web!AsksSettle

\* background.ts, ensureCdpAttached: a session the map calls attached is attached.
SessionsAreReal == Dbg!SessionsAreReal

\* dom-core.ts, UidRegistry, over frames: a uid means the element it was shown for.
UidsMeanWhatWasShown == Snap!UidsMeanWhatWasShown

\* tool-mirror.ts and inject.ts: once things have settled, whoever is connected has
\* listed every tool the page has registered, as it is now.
RegisteredToolsArrive == Pg!RegisteredToolsArrive

\* bridge-profiles.ts and browser-tools.ts: the bridge the user pinned a tab to stays
\* the tab's, and close_agent_tabs leaves the user's tabs alone.
UserTabsAreKept == Control!PinnedBridgeStays /\ Control!SparesTheUser

\* observe.ts and navigation.ts: the agent is told once of a tab an action opened, and
\* a navigation is reported as arrived or as nothing only if it did.
ReportsAreTrue == Err!OpenedToldOnce /\ Err!NavigationReportsAreTrue

\* builtins.ts: the default element, the markers and the style nodes are of what is
\* picked and listed.
PicksAndPatchesAgree == Des!PicksAndPatchesAgree

\* automation-tools.ts and inject.ts: what the page finds as fetch or alert works, an
\* inactive page has no hook in it, and a request listed as ended has ended, one listed
\* as under way is under way, but for an XMLHttpRequest whose send threw or that was
\* used again before it had ended.
HooksComeOff == Cap!HooksComeOff /\ Cap!RecordsAreWhole
=============================================================================
