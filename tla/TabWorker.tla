----------------------------- MODULE TabWorker -----------------------------
(***************************************************************************)
(* The service worker's tabs (packages/extension/src/background.ts): Ports *)
(* of content scripts, the sockets of page providers with their reconnect  *)
(* timers, navigation holds, the set of enabled tabs and the tab modes in  *)
(* session storage, and what the popup asks for. The page's side is what   *)
(* content.ts, inject.ts and tunnel.ts do with control messages.           *)
(*                                                                         *)
(* One action is the code between two awaits, or one event. A Port is the  *)
(* life of one TabState; a provider id is never used twice. Sockets are    *)
(* seen from the worker; the bridge is always there, but connections break.*)
(***************************************************************************)
EXTENDS Naturals, Sequences, SequencesExt, FiniteSets

CONSTANTS
  Tabs, MaxPorts, MaxProviders,
  Ops,        \* threads of popup requests
  Requests,   \* what the popup may ask: subset of the kinds of StartRequest
  Budgets     \* the scenarios: how often each event may happen

Ports == 1..MaxPorts
Providers == 1..MaxProviders
Modes == {"daemon", "agent"}

BoundsAreNumbers == MaxPorts \in Nat /\ MaxProviders \in Nat

VARIABLES
  enabled, saved,   \* storage.session: enabledTabs, tabModes
  booted, mode,     \* booted has settled; the map tabModes
  current, holds,   \* tabs: the Port of a tab's state, 0 if none; navigationHolds
  page,             \* per Port, its far end: "none", "live", "left", "closed"
  tab,              \* per Port, its tab
  transport,        \* per Port, the provider the page runs, 0 if none
  up, down,         \* per Port, messages on the way
  owner,            \* per provider, its Port, 0 if not yet used
  entry,            \* per provider, its SocketEntry
  client,           \* per provider, whether it has a PageProviderClient
  nav,              \* per provider, its navigation: "none", "running", "waiting", "settled"
  handlers,         \* calls of handleUp that wait in isEnabled
  op,               \* per thread, a popup request
  left              \* what remains of the budget

storage == <<enabled, saved>>
pages == <<page, tab, transport>>
vars == <<storage, booted, mode, current, holds, pages, up, down, owner, entry,
          client, nav, handlers, op, left>>

Unused ==
  [listed |-> FALSE, wanted |-> FALSE, held |-> FALSE, ws |-> "none", live |-> 0,
   dials |-> 0, timer |-> FALSE, queued |-> FALSE]

Idle == [pc |-> "idle", kind |-> "none", tab |-> CHOOSE t \in Tabs : TRUE,
         mode |-> "daemon", set |-> {}, port |-> 0]

Spend(what) == left[what] > 0 /\ left' = [left EXCEPT ![what] = @ - 1]

Of(s) == {p \in Providers : owner[p] = s /\ s # 0}
Tell(s, msgs) == down' = [down EXCEPT ![s] = @ \o msgs]

-----------------------------------------------------------------------------
(***************************************************************************)
(* Sockets.                                                                *)
(***************************************************************************)
\* mutant: holds are not looked at
DialAnyway(e, held) == IF e.listed /\ e.wanted /\ e.ws = "none" /\ e.dials < 2
                       THEN [e EXCEPT !.dials = @ + 1] ELSE e

\* connectSocket, up to its await. Two dials of one entry may be on the way.
ConnectSocket(e, held) ==
  IF e.listed /\ e.wanted /\ e.ws = "none" /\ held = 0 /\ e.dials < 2
  THEN [e EXCEPT !.dials = @ + 1] ELSE e

\* closeSocket: a held socket is parked.
CloseSocket(e) ==
  IF e.listed
  THEN [e EXCEPT !.listed = FALSE, !.wanted = FALSE, !.timer = FALSE,
                 !.ws = IF e.held \/ @ = "none" THEN @ ELSE "closing"]
  ELSE e

KeepSockets(s) == UNCHANGED entry   \* mutant: nothing is torn down

CloseAllSockets(s) ==
  entry' = [p \in Providers |-> IF p \in Of(s) THEN CloseSocket(entry[p])
                                ELSE entry[p]]
CloseAllPageClients(s) ==
  client' = [p \in Providers |-> client[p] /\ p \notin Of(s)]

\* What closing the sockets of s tells the page.
Closings(s) ==
  LET told == SetToSeq({p \in Of(s) : entry[p].listed /\ ~entry[p].held}) IN
  [i \in DOMAIN told |-> [kind |-> "close", p |-> told[i]]]

DialUnchecked(e) == TRUE   \* mutant: the slot is not looked at again

\* A listed entry that should be open and is not.
Redial(e) == e.listed /\ e.wanted /\ e.ws = "none"

\* The rest of connectSocket: the slot is looked at again.
Dial(p) ==
  /\ entry[p].dials > 0
  /\ LET e == [entry[p] EXCEPT !.dials = @ - 1] IN
     entry' = [entry EXCEPT ![p] =
       IF Redial(e)
       THEN [e EXCEPT !.ws = "connecting", !.live = @ + 1]
       ELSE e]
  /\ UNCHANGED <<storage, booted, mode, current, holds, pages, up, down, owner,
                 client, nav, handlers, op, left>>

\* The open event sends what was queued meanwhile.
SocketOpens(p) ==
  /\ entry[p].ws = "connecting"
  /\ entry' = [entry EXCEPT ![p].ws = "open", ![p].queued = FALSE]
  /\ UNCHANGED <<storage, booted, mode, current, holds, pages, up, down, owner,
                 client, nav, handlers, op, left>>

\* The close event, after close() or because the connection broke.
SocketCloses(p) ==
  LET e == entry[p] IN
  /\ \/ e.ws = "closing" /\ UNCHANGED left
     \/ e.ws \in {"connecting", "open"} /\ Spend("breaks")
  /\ entry' = [entry EXCEPT ![p].ws = "none", ![p].live = @ - 1, ![p].queued = FALSE,
                            ![p].timer = @ \/ (e.wanted /\ e.listed)]
  /\ nav' = [nav EXCEPT ![p] = IF @ = "waiting" THEN "settled" ELSE @]
  /\ UNCHANGED <<storage, booted, mode, current, holds, pages, up, down, owner,
                 client, handlers, op>>

\* The timer of scheduleReconnect.
Reconnect(p) ==
  /\ entry[p].timer
  /\ entry' = [entry EXCEPT ![p] =
                 ConnectSocket([@ EXCEPT !.timer = FALSE], holds[tab[owner[p]]])]
  /\ UNCHANGED <<storage, booted, mode, current, holds, pages, up, down, owner,
                 client, nav, handlers, op, left>>

\* The keepalive alarm redials what should be open, on tabs of the daemon.
KeepAlive ==
  /\ booted /\ Spend("alarms")
  /\ entry' = [p \in Providers |->
       LET t == tab[owner[p]] IN
       IF /\ owner[p] # 0 /\ current[t] = owner[p] /\ mode[t] # "agent"
          /\ Redial(entry[p])
       THEN ConnectSocket([entry[p] EXCEPT !.timer = FALSE], holds[t])
       ELSE entry[p]]
  /\ UNCHANGED <<storage, booted, mode, current, holds, pages, up, down, owner,
                 client, nav, handlers, op>>

-----------------------------------------------------------------------------
(***************************************************************************)
(* Ports.                                                                  *)
(***************************************************************************)
\* connect of a content script, which says hello.
ContentConnects(s, t) ==
  /\ page' = [page EXCEPT ![s] = "live"]
  /\ tab' = [tab EXCEPT ![s] = t]
  /\ up' = [up EXCEPT ![s] = <<[kind |-> "hello", p |-> 0]>>]

\* The Ports in gone are lost to their content scripts, for good or, if the page is
\* still there, until it connects again; the page is deactivated.
ContentDisconnects(gone) ==
  /\ page' = [s \in Ports |-> IF s \in gone /\ page[s] = "live" THEN "left" ELSE page[s]]
  /\ transport' = [s \in Ports |-> IF s \in gone THEN 0 ELSE transport[s]]
  /\ down' = [s \in Ports |-> IF s \in gone THEN <<>> ELSE down[s]]

\* A content script connects: a stale state of the tab is replaced. Left out: a
\* page that turns up in the moment in which ensureEnabledTab takes an enable back.
\* It stays activated on a tab that is not enabled (README, "Not modelled").
Connect(t) ==
  LET s == Cardinality({q \in Ports : page[q] # "none"}) + 1
      old == current[t] IN
  /\ s \in Ports
  /\ \A q \in Ports : tab[q] = t => page[q] \notin {"live", "closed"}
  /\ \A o \in Ops : op[o].kind # "enable" \/ op[o].tab # t
                    \/ op[o].pc \notin {"unread", "unwrite", "drop"}
  /\ ContentConnects(s, t)
  /\ current' = [current EXCEPT ![t] = s]
  /\ CloseAllSockets(old) /\ CloseAllPageClients(old)
  /\ UNCHANGED <<storage, booted, mode, holds, transport, down, owner, nav,
                 handlers, op, left>>

\* The document goes away, or is frozen into the back/forward cache.
Unload(s) ==
  /\ page[s] = "live" /\ Spend("unloads")
  /\ ContentDisconnects({s})
  /\ UNCHANGED <<storage, booted, mode, current, holds, tab, up, owner, entry,
                 client, nav, handlers, op>>

\* onDisconnect comes after everything the page has sent.
OnDisconnect(s) ==
  /\ page[s] = "left" /\ up[s] = <<>> /\ current[tab[s]] = s
  /\ current' = [current EXCEPT ![tab[s]] = 0]
  /\ CloseAllSockets(s) /\ CloseAllPageClients(s)
  /\ UNCHANGED <<storage, booted, mode, holds, pages, up, down, owner, nav,
                 handlers, op, left>>

\* The page works off a control message, a closing or a request of the bridge.
\* Activation starts a transport if none runs, deactivation closes it.
PageHandles(s) ==
  /\ page[s] = "live" /\ down[s] # <<>>
  /\ LET msg == Head(down[s])
         p == transport[s]
         new == Cardinality({q \in Providers : owner[q] # 0}) + 1
         Post(kind, q) == up' = [up EXCEPT ![s] = Append(@, [kind |-> kind, p |-> q])]
         Runs(q) == transport' = [transport EXCEPT ![s] = q]
     IN \/ /\ msg.kind = "activate" /\ p = 0 /\ new \in Providers
           /\ Post("open", new) /\ Runs(new)
           /\ owner' = [owner EXCEPT ![new] = s]
        \/ /\ msg.kind = "deactivate" /\ p # 0
           /\ Post("close", p) /\ Runs(0) /\ UNCHANGED owner
        \/ /\ msg.kind = "close" /\ p = msg.p
           /\ Runs(0) /\ UNCHANGED <<up, owner>>
        \/ /\ msg.kind \in {"ask", "goto"} /\ p = msg.p
           /\ Post(IF msg.kind = "ask" THEN "rpc" ELSE "navigate", p)
           /\ UNCHANGED <<transport, owner>>
        \/ /\ \/ msg.kind = "activate" /\ (p # 0 \/ new \notin Providers)
              \/ msg.kind = "deactivate" /\ p = 0
              \/ msg.kind \in {"close", "ask", "goto"} /\ p # msg.p
           /\ UNCHANGED <<up, transport, owner>>
  /\ down' = [down EXCEPT ![s] = Tail(@)]
  /\ UNCHANGED <<storage, booted, mode, current, holds, page, tab, entry, client,
                 nav, handlers, op, left>>

\* A navigation of p is under way or asked for.
AskedToNavigate(p) ==
  \/ nav[p] # "none" \/ \E h \in handlers : h.kind = "navigate" /\ h.p = p
  \/ \E s \in Ports : \E msg \in ToSet(down[s]) \cup ToSet(up[s]) :
        msg.kind \in {"goto", "navigate"} /\ msg.p = p

\* The bridge sends a request: a call of a tool, or of a tool that navigates, of
\* which a page has one at a time (a bound).
BridgeAsks(p, kind) ==
  /\ entry[p].ws = "open" /\ entry[p].listed
  /\ kind = "goto" => ~AskedToNavigate(p)
  /\ Spend(IF kind = "goto" THEN "navs" ELSE "asks")
  /\ Tell(owner[p], <<[kind |-> kind, p |-> p]>>)
  /\ UNCHANGED <<storage, booted, mode, current, holds, pages, up, owner, entry,
                 client, nav, handlers, op>>

-----------------------------------------------------------------------------
(***************************************************************************)
(* handleUp.                                                               *)
(***************************************************************************)
\* Replies go to the socket, or wait in outbuf until it opens.
SendToSocket(e) == [e EXCEPT !.queued = @ \/ (e.listed /\ e.ws # "open")]

\* hello, open and ext wait for storage; close and rpc do not.
HandleUp(s) ==
  /\ booted /\ up[s] # <<>>
  /\ up' = [up EXCEPT ![s] = Tail(@)]
  /\ LET msg == Head(up[s])
         p == msg.p
     IN \/ /\ msg.kind \in {"hello", "open", "navigate"}
           /\ handlers' = handlers \cup
                {[port |-> s, kind |-> msg.kind, p |-> p]}
           /\ UNCHANGED <<entry, client, down>>
        \/ /\ msg.kind = "rpc"
           /\ entry' = IF client[p] THEN entry
                       ELSE [entry EXCEPT ![p] = SendToSocket(@)]
           /\ UNCHANGED <<client, handlers, down>>
        \/ /\ msg.kind = "close" /\ client[p]
           /\ client' = [client EXCEPT ![p] = FALSE]
           /\ UNCHANGED <<entry, handlers, down>>
        \/ /\ msg.kind = "close" /\ ~client[p]
           /\ entry' = [entry EXCEPT ![p] = CloseSocket(@)]
           /\ IF entry[p].listed /\ ~entry[p].held
              THEN Tell(s, <<[kind |-> "close", p |-> p]>>)
              ELSE UNCHANGED down
           /\ UNCHANGED <<client, handlers>>
  /\ UNCHANGED <<storage, booted, mode, current, holds, pages, owner, nav, op, left>>

\* isEnabled answers and the handler goes on at once. Storage answers in order, so
\* no write can come between the two; but what the page sent later may be done.
IsEnabled(h) == tab[h.port] \in enabled

NotEnabled(h) ==
  /\ ~IsEnabled(h)
  /\ handlers' = handlers \ {h}
  /\ UNCHANGED <<storage, booted, mode, current, holds, pages, up, down, owner,
                 entry, client, nav, op, left>>

Greeted(h) ==
  /\ h.kind = "hello" /\ IsEnabled(h)
  /\ handlers' = handlers \ {h}
  /\ Tell(h.port, <<[kind |-> "activate", p |-> 0]>>)
  /\ UNCHANGED <<storage, booted, mode, current, holds, pages, up, owner, entry,
                 client, nav, op, left>>

\* openSocket or openPageClient: the mode decides, as it is now.
Opened(h) ==
  /\ h.kind = "open" /\ IsEnabled(h)
  /\ handlers' = handlers \ {h}
  /\ LET t == tab[h.port] IN
     IF mode[t] = "agent"
     THEN client' = [client EXCEPT ![h.p] = TRUE] /\ UNCHANGED entry
     ELSE /\ entry' = [entry EXCEPT ![h.p] =
                ConnectSocket([@ EXCEPT !.listed = TRUE, !.wanted = TRUE], holds[t])]
          /\ UNCHANGED client
  /\ UNCHANGED <<storage, booted, mode, current, holds, pages, up, down, owner, nav,
                 op, left>>

\* holdNavigationReply: only an open socket that is still listed can be held.
Hold(h) ==
  /\ h.kind = "navigate" /\ IsEnabled(h)
  /\ handlers' = handlers \ {h}
  /\ IF entry[h.p].listed /\ entry[h.p].ws = "open"
     THEN /\ entry' = [entry EXCEPT ![h.p].held = TRUE]
          /\ holds' = [holds EXCEPT ![tab[h.port]] = @ + 1]
          /\ nav' = [nav EXCEPT ![h.p] = "running"]
     ELSE UNCHANGED <<entry, holds, nav>>
  /\ UNCHANGED <<storage, booted, mode, current, pages, up, down, owner, client, op,
                 left>>

\* mutant: what was announced meanwhile is forgotten
LetGoOnly(p, entries) ==
  /\ holds' = [holds EXCEPT ![tab[owner[p]]] = @ - 1]
  /\ nav' = [nav EXCEPT ![p] = "none"]
  /\ entry' = entries

\* finish: the last hold of a tab connects what was announced meanwhile.
LetGo(p, entries) ==
  LET t == tab[owner[p]] IN
  /\ holds' = [holds EXCEPT ![t] = @ - 1]
  /\ nav' = [nav EXCEPT ![p] = "none"]
  /\ entry' = [q \in Providers |->
       IF holds[t] = 1 /\ q \in Of(current[t]) THEN ConnectSocket(entries[q], 0)
       ELSE entries[q]]

\* mutant: the hold goes before the socket is closed
ReleaseAtOnce(p) ==
  /\ nav[p] = "running"
  /\ nav' = [nav EXCEPT ![p] = "waiting"]
  /\ holds' = [holds EXCEPT ![tab[owner[p]]] = @ - 1]
  /\ entry' = [entry EXCEPT ![p].held = FALSE]
  /\ UNCHANGED <<storage, booted, mode, current, pages, up, down, owner, client,
                 handlers, op, left>>

\* release, once the navigation has an outcome and the reply is out: a page that
\* is still there carries on, else its socket is closed first.
Release(p) ==
  /\ nav[p] = "running"
  /\ IF entry[p].listed
     THEN LetGo(p, [entry EXCEPT ![p].held = FALSE])
     ELSE /\ nav' = [nav EXCEPT ![p] = "waiting"]
          /\ entry' = [entry EXCEPT ![p].held = FALSE,
                         ![p].ws = IF @ = "none" THEN @ ELSE "closing"]
          /\ UNCHANGED holds
  /\ UNCHANGED <<storage, booted, mode, current, pages, up, down, owner, client,
                 handlers, op, left>>

\* The close event has not come within a second.
SettleTimeout(p) ==
  /\ nav[p] = "waiting"
  /\ nav' = [nav EXCEPT ![p] = "settled"]
  /\ UNCHANGED <<storage, booted, mode, current, holds, pages, up, down, owner,
                 entry, client, handlers, op, left>>

Finish(p) ==
  /\ nav[p] = "settled"
  /\ LetGo(p, entry)
  /\ UNCHANGED <<storage, booted, mode, current, pages, up, down, owner, client,
                 handlers, op, left>>

-----------------------------------------------------------------------------
(***************************************************************************)
(* Requests of the popup, and a tab that is closed.                        *)
(***************************************************************************)
Goes(o, pc) == op' = [op EXCEPT ![o].pc = pc]
Control(kind) == [kind |-> kind, p |-> 0]

\* setEnabled and setTabMode write the route first, if it is another.
StartRequest(o, kind, t, m) ==
  /\ op[o].pc = "idle" /\ booted /\ Spend("requests")
  /\ kind \in {"enable", "route"}
  /\ LET new == mode[t] # m IN
     /\ mode' = [mode EXCEPT ![t] = m]
     /\ saved' = [saved EXCEPT ![t] = m]
     /\ op' = [op EXCEPT ![o] =
          [pc |-> IF new THEN "teardown" ELSE IF kind = "enable" THEN "read" ELSE "idle",
           kind |-> kind, tab |-> t, mode |-> m, set |-> {}, port |-> 0]]
  /\ UNCHANGED <<enabled, booted, current, holds, pages, up, down, owner, entry,
                 client, nav, handlers>>

StartDisable(o, t) ==
  /\ op[o].pc = "idle" /\ booted /\ Spend("requests")
  /\ op' = [op EXCEPT ![o] = [pc |-> "read", kind |-> "disable", tab |-> t,
                              mode |-> "daemon", set |-> {}, port |-> 0]]
  /\ UNCHANGED <<storage, booted, mode, current, holds, pages, up, down, owner,
                 entry, client, nav, handlers>>

\* setTabRoute takes the old path down, of the Port it finds ...
Teardown(o) ==
  LET s == current[op[o].tab] IN
  /\ op[o].pc = "teardown"
  /\ op' = [op EXCEPT ![o].pc = "reactivate", ![o].port = s]
  /\ CloseAllSockets(s) /\ CloseAllPageClients(s)
  /\ IF s = 0 THEN UNCHANGED down ELSE Tell(s, Closings(s))
  /\ UNCHANGED <<storage, booted, mode, current, holds, pages, up, owner, nav,
                 handlers, left>>

\* ... and has that page announce itself again, if the tab is enabled by then. A
\* message to a Port that is closed meanwhile is nothing (safePost).
Reactivate(o) ==
  LET s == op[o].port IN
  /\ op[o].pc = "reactivate"
  /\ op' = [op EXCEPT ![o].pc = IF op[o].kind = "enable" THEN "read" ELSE "idle",
                      ![o].port = 0]
  /\ IF s # 0 /\ op[o].tab \in enabled
     THEN Tell(s, <<Control("deactivate"), Control("activate")>>)
     ELSE UNCHANGED down
  /\ UNCHANGED <<storage, booted, mode, current, holds, pages, up, owner, entry,
                 client, nav, handlers, left>>

\* setEnabled reads the set ...
ReadEnabled(o) ==
  /\ op[o].pc \in {"read", "unread"}
  /\ op' = [op EXCEPT ![o].set = enabled,
                      ![o].pc = IF @ = "read" THEN "write" ELSE "unwrite"]
  /\ UNCHANGED <<storage, booted, mode, current, holds, pages, up, down, owner,
                 entry, client, nav, handlers, left>>

\* ... and writes what it makes of it.
WriteEnabled(o) ==
  LET t == op[o].tab
      on == op[o].pc = "write" /\ op[o].kind = "enable" IN
  /\ op[o].pc \in {"write", "unwrite"}
  /\ enabled' = IF on THEN op[o].set \cup {t} ELSE op[o].set \ {t}
  /\ Goes(o, IF on THEN "find"
             ELSE IF op[o].kind = "disable" THEN "deactivate" ELSE "drop")
  /\ UNCHANGED <<saved, booted, mode, current, holds, pages, up, down, owner, entry,
                 client, nav, handlers, left>>

\* ensureEnabledTab finds the tab's state, or gives up and takes all back.
FindTab(o) ==
  LET s == current[op[o].tab] IN
  /\ op[o].pc = "find" /\ s # 0
  /\ Tell(s, <<Control("activate")>>)
  /\ Goes(o, "idle")
  /\ UNCHANGED <<storage, booted, mode, current, holds, pages, up, owner, entry,
                 client, nav, handlers, left>>

FindNoTab(o) ==
  /\ op[o].pc = "find" /\ current[op[o].tab] = 0
  /\ Goes(o, "unread")
  /\ UNCHANGED <<storage, booted, mode, current, holds, pages, up, down, owner,
                 entry, client, nav, handlers, left>>

\* setEnabled(false): the page is told and its connections are closed.
Deactivate(o) ==
  LET s == current[op[o].tab] IN
  /\ op[o].pc = "deactivate"
  /\ Goes(o, "drop")
  /\ CloseAllSockets(s) /\ CloseAllPageClients(s)
  /\ IF s = 0 THEN UNCHANGED down
     ELSE Tell(s, <<Control("deactivate")>> \o Closings(s))
  /\ UNCHANGED <<storage, booted, mode, current, holds, pages, up, owner, nav,
                 handlers, left>>

\* The route of a tab that is not enabled is dropped.
DropRoute(o) ==
  /\ op[o].pc = "drop" /\ booted
  /\ mode' = [mode EXCEPT ![op[o].tab] = "daemon"]
  /\ saved' = mode'
  /\ Goes(o, "idle")
  /\ UNCHANGED <<enabled, booted, current, holds, pages, up, down, owner, entry,
                 client, nav, handlers, left>>

\* chrome.tabs.onRemoved; the id of the tab is not used again.
TabRemoved(o, t) ==
  LET s == current[t] IN
  /\ op[o].pc = "idle" /\ s # 0 /\ Spend("removals")
  /\ page' = [page EXCEPT ![s] = "closed"]
  /\ up' = [up EXCEPT ![s] = <<>>]
  /\ down' = [down EXCEPT ![s] = <<>>]
  /\ transport' = [transport EXCEPT ![s] = 0]
  /\ current' = [current EXCEPT ![t] = 0]
  /\ CloseAllSockets(s) /\ CloseAllPageClients(s)
  /\ op' = [op EXCEPT ![o] = [Idle EXCEPT !.pc = "unread", !.kind = "removed", !.tab = t]]
  /\ UNCHANGED <<storage, booted, mode, holds, tab, owner, nav, handlers>>

\* setTabBridge to another bridge: the sockets are closed under their entries.
BounceTabSockets(t) ==
  /\ booted /\ current[t] # 0 /\ Spend("bounces")
  /\ entry' = [p \in Providers |->
       IF p \in Of(current[t]) /\ entry[p].listed /\ entry[p].ws # "none"
       THEN [entry[p] EXCEPT !.ws = "closing"] ELSE entry[p]]
  /\ UNCHANGED <<storage, booted, mode, current, holds, pages, up, down, owner,
                 client, nav, handlers, op>>

-----------------------------------------------------------------------------
(***************************************************************************)
(* The browser recycles the worker: storage is what is left, and every     *)
(* content script deactivates its page and will connect again.             *)
(***************************************************************************)
Recycled ==
  /\ Spend("restarts")
  /\ booted' = FALSE
  /\ mode' = [t \in Tabs |-> "daemon"]
  /\ current' = [t \in Tabs |-> 0]
  /\ holds' = [t \in Tabs |-> 0]
  /\ ContentDisconnects(Ports)
  /\ up' = [s \in Ports |-> <<>>]
  /\ entry' = [p \in Providers |-> Unused]
  /\ client' = [p \in Providers |-> FALSE]
  /\ nav' = [p \in Providers |-> "none"]
  /\ handlers' = {}
  /\ op' = [o \in Ops |-> Idle]
  /\ UNCHANGED <<storage, tab, owner>>

\* booted settles: the modes are read back.
Booted ==
  /\ ~booted
  /\ booted' = TRUE
  /\ mode' = saved
  /\ UNCHANGED <<storage, current, holds, pages, up, down, owner, entry, client,
                 nav, handlers, op, left>>

-----------------------------------------------------------------------------
Init ==
  /\ enabled = {} /\ saved = [t \in Tabs |-> "daemon"]
  /\ booted = FALSE /\ mode = [t \in Tabs |-> "daemon"]
  /\ current = [t \in Tabs |-> 0] /\ holds = [t \in Tabs |-> 0]
  /\ page = [s \in Ports |-> "none"]
  /\ tab = [s \in Ports |-> CHOOSE t \in Tabs : TRUE]
  /\ transport = [s \in Ports |-> 0]
  /\ up = [s \in Ports |-> <<>>] /\ down = [s \in Ports |-> <<>>]
  /\ owner = [p \in Providers |-> 0]
  /\ entry = [p \in Providers |-> Unused]
  /\ client = [p \in Providers |-> FALSE]
  /\ nav = [p \in Providers |-> "none"]
  /\ handlers = {}
  /\ op = [o \in Ops |-> Idle]
  /\ left \in Budgets

SocketStep(p) == Dial(p) \/ SocketOpens(p) \/ SocketCloses(p) \/ Reconnect(p)
NavStep(p) == Release(p) \/ SettleTimeout(p) \/ Finish(p)
PortStep(s) == OnDisconnect(s) \/ PageHandles(s) \/ HandleUp(s)
HandlerStep(h) == NotEnabled(h) \/ Greeted(h) \/ Opened(h) \/ Hold(h)
OpStep(o) ==
  \/ Teardown(o) \/ Reactivate(o) \/ ReadEnabled(o) \/ WriteEnabled(o)
  \/ FindTab(o) \/ FindNoTab(o) \/ Deactivate(o) \/ DropRoute(o)

Next ==
  \/ \E p \in Providers : SocketStep(p) \/ NavStep(p)
  \/ \E p \in Providers, kind \in {"ask", "goto"} : BridgeAsks(p, kind)
  \/ \E s \in Ports : PortStep(s) \/ Unload(s)
  \/ \E h \in handlers : HandlerStep(h)
  \/ \E o \in Ops : OpStep(o)
  \/ \E o \in Ops, t \in Tabs : StartDisable(o, t) \/ TabRemoved(o, t)
  \/ \E o \in Ops, kind \in Requests, t \in Tabs, m \in Modes : StartRequest(o, kind, t, m)
  \/ \E t \in Tabs : Connect(t) \/ BounceTabSockets(t)
  \/ KeepAlive \/ Recycled \/ Booted

Spec == Init /\ [][Next]_vars

\* What comes by itself to a socket, and to a page: awaits end, events and messages
\* are delivered, timers fire, a dial reaches the bridge.
SocketDue(p) ==
  \/ Dial(p) \/ SocketOpens(p) \/ Reconnect(p) \/ NavStep(p)
  \/ entry[p].ws = "closing" /\ SocketCloses(p)
PageDue(s) ==
  \/ PageHandles(s) \/ HandleUp(s) \/ OnDisconnect(s)
  \/ \E h \in handlers : h.port = s /\ HandlerStep(h)

\* Nothing else has to happen to a page, a connection or the worker, and nobody has
\* to use the popup.
Fairness ==
  /\ WF_vars(Booted)
  /\ \A p \in Providers : WF_vars(SocketDue(p))
  /\ \A s \in Ports : WF_vars(PageDue(s))
  /\ \A o \in Ops : WF_vars(OpStep(o))

FairSpec == Spec /\ Fairness

-----------------------------------------------------------------------------
(***************************************************************************)
(* Properties.                                                             *)
(***************************************************************************)
\* Types; the hold counter of a tab counts its navigations.
TypeOK ==
  /\ enabled \subseteq Tabs /\ saved \in [Tabs -> Modes]
  /\ booted \in BOOLEAN /\ mode \in [Tabs -> Modes]
  /\ current \in [Tabs -> {0} \cup Ports]
  /\ page \in [Ports -> {"none", "live", "left", "closed"}] /\ tab \in [Ports -> Tabs]
  /\ transport \in [Ports -> {0} \cup Providers]
  /\ owner \in [Providers -> {0} \cup Ports]
  /\ client \in [Providers -> BOOLEAN]
  /\ nav \in [Providers -> {"none", "running", "waiting", "settled"}]
  /\ holds = [t \in Tabs |-> Cardinality({p \in Providers :
                nav[p] # "none" /\ tab[owner[p]] = t})]

\* The slot of an entry is never clobbered, although a dial waits between looking
\* at it and taking it: the bridge sees at most one connection per provider, and
\* the entry that is listed, held by a navigation or about to close knows it.
OneSocketPerProvider ==
  \A p \in Providers : LET e == entry[p] IN
    /\ e.live = (IF e.ws = "none" THEN 0 ELSE 1)
    /\ e.ws \in {"connecting", "open"} => e.listed \/ e.held

\* A tab that serves a web agent reaches for no socket, once its route is settled:
\* whatever dials, timers, alarms and restarts come in between.
AgentTabsDialNobody ==
  \A t \in Tabs, p \in Providers :
    ( /\ booted /\ mode[t] = "agent" /\ \A o \in Ops : op[o].pc # "teardown"
      /\ current[t] # 0 /\ owner[p] = current[t] )
    => ~entry[p].listed

\* While a navigation owes its reply on the socket of the page that left, the page
\* that loads does not dial, so it does not register beside the old one.
HeldSocketComesFirst ==
  [][\A p, q \in Providers :
       ( /\ entry[p].ws = "none" /\ entry'[p].ws = "connecting"
         /\ owner[q] \in 1..(owner[p] - 1) /\ tab[owner[q]] = tab[owner[p]] )
       => nav[q] = "none"]_vars

\* Every page on an enabled tab gets its consumer in the end: a socket or, for a
\* web agent, a client; through lost connections, navigations, switches of the
\* route, and a worker that is recycled.
Served(s) ==
  \E p \in Of(s) : transport[s] = p /\ (entry[p].ws = "open" \/ client[p])

EnabledTabsAreServed ==
  \A s \in Ports :
    (page[s] = "live" /\ tab[s] \in enabled)
    ~> (Served(s) \/ page[s] # "live" \/ tab[s] \notin enabled)

=============================================================================
