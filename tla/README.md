# mcp-page-bridge in TLA+

mcp-page-bridge lets MCP agents (Claude Code, Cursor, ...) use tools that live in
browser pages. A browser extension turns each enabled tab into an MCP server; a
Go daemon, the bridge, collects these *providers* and shows them to *agents* as
one MCP server. This directory specifies that program in TLA+: TLC checks the
modules on small instances, TLAPS proves the most important results for every
value of the constants. The code is the reference; every definition that models
code is listed with its lines in `PROJECT.json` under "map".

## 1. Inventory

| Part | Source | State | Operations | Correct means |
|---|---|---|---|---|
| bridge | `internal/bridge/bridge.go`, `types.go` | `providers`, `agents`, `sessions`, `agentConnections`, `idleTimer`, `closed`, three route tables, all under `b.mu`; per provider a label, three catalogs, and an in-flight and a dirty flag per catalog | `attachProvider`, `attachAgent`, `OpenHTTPSession`, `refreshCatalog`, `notifyChanged`, `callTool`/`getPrompt`/`readResource`, `Close`, idle timer | counts and timer exact; labels unique; routes lead to live providers of the right partition; no `list_changed` lost; Close reaches everybody |
| label reservations | `internal/bridge/labels.go` | LRU list and map of keys to labels | `assignLabel`, `rememberLabel`, `touch`, `prune` | a provider that returns gets its label if it is free, never one in use |
| HTTP sessions | `internal/bridge/httpsession.go` | `closed`, `streaming`, expiry timer, event buffer, `done` | `enqueue`, `AttachStream`, release, `Touch`, expiry, `Close` | one stream; events in order; every session ends once and in the end |
| streamable HTTP handlers | `internal/server/mcphttp.go` | none of their own | POST, GET, DELETE of `/mcp` | look up, touch, hold and release in an order that survives the session's end |
| JSON-RPC peer | `internal/mcpwire/peer.go` | `pending`, `writeMu`, `closeOnce`, `onClose` | `Call`, `Reply`, `readLoop`, `deliver`, `shutdown` | a call ends once, with its own answer; no panic on a channel; shutdown once |
| protocol names | `internal/protocol`, `packages/protocol` | none | `NamespaceName`, `SanitizeLabel`, `HashProfile` | names valid and as distinct as their parts |
| normalization, uploads | `normalize.go`, `uploads.go` | none | pure functions | — |
| HTTP server | `internal/server/server.go` | listener, done channel | `Start`, `Close` | Close closes the bridge |
| daemon process | `internal/daemon/daemon.go` | the port, pid file, log file | `Ensure`, `Run`, `Stop`, `Restart` | one daemon per port; the pid file names it |
| stdio proxy | `internal/proxy/proxy.go` | a connection | copy both ways, reconnect | — |
| command line, configuration | `internal/cli`, `internal/config` | none | parsing | — |
| service worker sockets | `packages/extension/src/background.ts` | per-tab state, sockets, reconnect timers, navigation holds; enabled tabs and routes in session storage | messages from popup, page and sockets; boot; alarms | one connection per provider; an enabled tab gets its consumer in the end, also after a restart |
| web agent routing | `background.ts`, `web-agent.ts` | approved origins, routes of tabs, page clients with pending requests, labels of the last listing | listing, calls, switch of a route, connect and disconnect of a site | a call only reaches a page its agent was given; every request ends |
| page server and mirror | `inject.ts`, `embedded-server.ts`, `tool-mirror.ts`, `tunnel.ts` | embedded server and its generation, mirrored tools, tunnels | activate, deactivate, label, mirror, relay | what the page registers arrives at whoever is connected |
| WebMCP polyfill | `webmcp.ts` | registration table, a queued event | register, unregister, call | a change is announced once it is over |
| browser provider | `browser-provider.ts`, `browser-tools.ts` | socket generation, backoff; the set of tabs an agent opened | start, stop, restart, alarms; open, enable and close tabs | one live socket; tabs of the user stay open |
| bridge profiles | `bridge-profiles.ts` | bounded list of profiles, the default, pins of tabs | upsert, pin, parse | what a tab is pinned to is kept |
| debugger sessions | `background.ts`, `cdp-tools.ts`, `input-tools.ts` | sessions of tabs, the focus, two switches | attach, command, detach, trusted input, capture | a session the worker counts on is attached |
| uids and snapshots | `dom-core.ts`, `frame-agent.ts`, `observe.ts` | a registry of uids per frame, frame numbers | snapshot, find, act, overlay | a uid means the element it was shown for |
| downloads, opened tabs, file reads, navigation | `background.ts`, `navigation.ts`, `observe.ts` | download records, tabs an action opened, requests to the daemon | list and wait, observe, read, navigate | told once, and what is reported happened |
| design tools | `builtins.ts`, `inject.ts`, `popup.ts` | picked elements, markers, patches with style nodes, the picker | tools and the popup's requests | default element, markers and nodes agree with the lists |
| automation tools | `automation-tools.ts` | hooks in fetch, XMLHttpRequest and dialogs, records of requests | start, stop, dialogs, teardown | hooks come off and never break the page |
| content relay | `content.ts` | a Port | relay, reconnect | part of the sockets above |
| serialization, annotations | `serialize.ts`, `annotation-tools.ts` | boxes on the page | — | nothing depends on them |
| popup, dashboard | `popup.ts`, `packages/dashboard` | user interface | — | — |

**How they interact.** A page's server talks over the extension's WebSocket to
the daemon's `/extension` endpoint, which hands the connection to
`attachProvider`: a `Peer` is built (its read loop starts at once), `initialize`
is called, the provider is labelled and registered under `b.mu`, the handlers for
notifications and closing are set, and its catalogs are fetched. From then on a
`list_changed` of the page, arriving on the read loop, starts a goroutine that
fetches the catalog again, rebuilds the routes and tells the agents of the
partition. Agents attach over a WebSocket or as an HTTP session; their calls look
up a route under `b.mu`, release it and call the provider's peer. `b.mu` is never
held while a peer is written to or waited for, so everything read under it may be
stale when it is used. Close, the idle timer, a socket that breaks and a session
that expires all take the same structures apart from goroutines of their own.

**What is hard here.** The order of callbacks against registration; several
goroutines refreshing one catalog; routes and listings read in one section and
used in another; a shutdown that runs concurrently with everything it shuts down;
late and repeated answers; timers that fire while they are being stopped; and in
the extension a worker that the browser kills and restarts at will. Each such
hazard is in `PROJECT.json` under "hazards" with the line where it bites and the
properties that cover it, or why none does. In the extension almost every handler
awaits storage, a URL, a tab or the debugger in its middle, and acts afterwards on
what it had read before; the browser delivers its events in between.

## 2. Modules

| Module | Models |
|---|---|
| `Selections` | what is left of a list when only some of its places are taken, by ranks; used by `LabelStore`, `WebAgent`, `BrowserControl` |
| `LabelStore` (EXTENDS `Selections`) | `labels.go` as operators on a store value (a sequence of key/label records, least recently touched first) |
| `Bridge` (EXTENDS `LabelStore`) | the bridge with its providers, agents, sessions, idle timer and Close |
| `MCBridge` | the values of Bridge's constants for TLC |
| `BridgeProofs` (EXTENDS `Bridge`) | theorems about agents, timers, closing and labels; routing tables, calls and fetches |
| `CatalogProofs` (EXTENDS `BridgeProofs`) | theorems that catalogs and listings converge, and that listings and routes agree |
| `RequestReply` | abstract: what `Peer.Call` promises its callers |
| `Peer` (INSTANCE `RequestReply`) | one JSON-RPC peer, its callers, its read loop and those who close it |
| `MCPeer`, `PeerProofs` | instance and theorems |
| `HttpSession`, `MCHttpSession`, `HttpSessionProofs` | HTTP sessions with the handlers that use them; instance and theorems |
| `TabWorker` | the service worker's Ports, providers, sockets, holds, enabled tabs, routes and restarts |
| `WebAgent` | approvals, routes and page clients of agents that run in a web app |
| `Page` | `document.modelContext`, the tool mirror, the embedded server and its tunnels |
| `BrowserControl` | the browser provider with its tools, and the bridge profiles |
| `Debugger` | debugger sessions, the CDP tools, trusted input, captures |
| `Snapshot`, `MCSnapshot` | uids: registries of frames, stitched snapshots, routing of actions; an instance |
| `Errands`, `MCErrands` | downloads, opened tabs, file reads and navigation for the calls of a page; an instance |
| `Design` | picked elements, markers, the picker, CSS patches |
| `Automation` | hooks of the network capture and of dialogs |
| `Extension`, `MCExtension` | the nine modules above side by side, with scenarios, and the instance |
| `WorkerProofs` (EXTENDS `Extension`) | theorems about sockets: the browser provider's, those of tabs, those a navigation holds |
| `PageSideProofs` (EXTENDS `Extension`) | theorems about hooks, uids, picks, the tools a page registers and the debugger's sessions |
| `ChoiceProofs` (EXTENDS `Extension`) | theorems about what the user chose: the agent a tab serves, the bridge it is pinned to, the tabs that are not an agent's; and about the reports of what a call did |
| `Daemon`, `MCDaemon`, `DaemonProofs` | the processes around one port: `Ensure` and the proxy, the daemon's main function, its shutdown, stop commands; instance and theorems |

### Grain

In every module an action is one critical section, one channel operation, one
write to or read from a connection, or one step of a `sync.Once`. Two such
operations of different goroutines may interleave in any order; the code between
two of them touches nothing that is shared. Values that a goroutine carries from
one section to the next are state (`job`, `call`, `hangup`, `todo`), because
being stale is the point.

### Bridge

* `Connect`, `Initialized`/`InitializeFails`, `Register`,
  `SetNotificationHandler`, `SetCloseHandler` and `AttachRefresh` are the stages
  of `attachProvider`, in its order; `Disconnect` may happen at any of them.
* `SpawnedRefresh`, `FetchPage`, `PageAnswers`, `ReadResponse`, `StoreCatalog`,
  `JobRebuild`, `JobBroadcast` are `refreshCatalog` with the in-flight and dirty
  flags of `catalogSync`; a catalog is fetched page by page.
* `ProviderClosed`, `HangupRebuild`, `HangupBroadcast` are the OnClose callback.
* `RouteFound`/`RouteMissing`, `CallSend`, `CallFails` are a call: the route is
  looked up in one section and used in the next.
* `IdleTimerFires`, `IdleClose`, `DaemonClose`, `CloseNext`, `CloseReturns` are
  the timer's function and `Close`, which closes one peer after the other.
* `Broadcast` tells every agent and session of a partition, but a session may lose
  its notification: its buffer is full (`httpsession.go:177`), or its stream breaks with
  the event taken from it. `missed` is a history variable that remembers who lost
  what since it last listed; no action looks at it.
* In `Bridge` a peer is only "none", "open", "closing" or "closed"; what happens
  inside one is `Peer`. A session is one more listener; its inside is
  `HttpSession`. A page is the far end of a provider's wire: it changes its
  catalog at will, and announces it, as `embedded-server.ts` does.

A catalog is the set of its names; descriptions and schemas do not influence
anything the properties tell apart. Keys of reservations are tuples where the
code formats strings. A provider that reconnects is another element of `Conns`
with the same `Meta`.

### Peer

A call goes through `Register` (entry in `pending`), the write under `writeMu`
(`LockWrite`, `Written`, `WriteFails`), the select (`TakeAnswer`, `CallClosed`,
`CallTimesOut`) and `Leave` (the deferred delete). `box` is the call's channel of
capacity 1, with the operations that panic or block in Go visible: a send to a
channel that is full or closed, and a second close. `Deliver` takes the entry out
of the map and `Send` does the send after the unlock; `EnterOnce` to `LeaveOnce`
are `closeOnce.Do(...)`. The far side may answer a request more than once and
after the caller gave up.

### HttpSession

`Open`/`OpenArms` are `OpenHTTPSession`, whose timer is armed in a section after
the registration; `Lookup` with `Post`, `AttachStream`, `Delete` are the handlers'
two steps; `TakeEvent`, `WriteEvent`, `StreamTold`, `StreamBreaks`, `Release` are
the GET handler's loop; `ExpiryStep` is the timer's function, split where it takes
and gives back the mutex; `Deregister` and `BridgeClosesSession` close.

### Daemon

Here an action is one system call or one HTTP request. A daemon process is named
after the agent that spawns it; the elements of `Manual` are started by hand.

* `FindBridge`, `CheckToken`, `FindForeign` and `Spawn`/`SpawnFails` are `Ensure`
  up to the child process; `SeesExit`, `PollInterval`, `Poll`, `ReadyTimeout` and
  `Interrupted` are its select loop. `Dial` and `ProxyEnds` are the proxy.
* `Listen`, `WritePIDFile`, `RemovePIDFile`, `LeavePort`, `CloseBridge`, `Exit` are the
  main function of a daemon, whose two deferred calls are the last four; `Crash` may
  happen at any of them.
* `Dial` is the request for `/agent`, which the daemon turns down or upgrades;
  `AttachAgent` is what the daemon does with the connection some time later: it
  registers it, or hangs up because the bridge has closed meanwhile.
* `Close` marks the bridge closed; the first who closed it hangs up on what is
  registered one by one (`KickOne`), and any other caller goes on at once, as
  `Bridge.Close` does. A process that ends takes what is left with it.
* `CloserListener`, `CloserBridge`, `CloserCancels` are the goroutine that a
  shutdown request starts, which goes on while the main function is still
  serving; `IdleTimerFires`, `IdleCloses`, `OnIdleShutdown` are the idle exit.
* `StopProbes`, `ShutdownAccepted`, `ShutdownRefused`, `ReadPIDFile`, `Terminate`
  are `Stop`: ask first, then signal whom the pid file names. A request may be
  served and its answer lost, and then the signal follows.

A request reaches whoever holds the port when it is made, and so do the steps
after it, which is why the daemon that `Stop` reached is a variable (`target`).
The bridge in a daemon is only "up" or "closed", and who is registered there;
`Bridge` is its inside. `Configs` are the choices of tokens, of daemons that require
a profile (`strict`) and of agents that have one (`keyed`).

### The extension

An action is the code between two awaits, a microtask, or one event of the
browser; the worker and a page are single threads, so nothing falls in between.
`left` holds how often each event of the outside may still happen (the
scenario). The nine components run side by side in `Extension`: they have no
variable in common but the scenario, which says what it is about, so one run
explores each component in its own scenarios instead of their product. Where one
component depends on another, the dependence is an action of the module that may
happen at any time (in `WebAgent` a page goes, in `Errands` the worker is
recycled, in `Page` the far end of a tunnel closes).

* **TabWorker.** A Port is one life of a page's content script, a provider one
  tunnel of a page. `Connect`, `Unload`, `OnDisconnect` are the Port;
  `HandleUp`, `IsEnabled`, `NotEnabled`, `Greeted`, `Opened` are `handleUp` with its
  await of the enabled set; `ConnectSocket`, `Dial`, `SocketOpens`,
  `SocketCloses`, `Reconnect`, `KeepAlive` are the socket with its awaited URL, its
  timer and the alarm; `Hold`, `LetGo`, `Release`, `SettleTimeout`, `Finish` are a
  navigation that owes a reply; `StartRequest` to `DropRoute` are the popup's
  requests step by step (`op` keeps what each has read); `TabRemoved`,
  `BounceTabSockets`, `Recycled` and `Booted` are the rest. A recycled worker
  keeps what storage has. `PageHandles` is what `tunnel.ts` and `inject.ts` answer.
* **WebAgent.** `Ask`, `HandleWebAgentRequest`, `GatherList`, `Listed`, `GatherCall`,
  `Probe`, `Called`, `BrowserAnswers` are one request of an agent; `Start`,
  `Deliver`, `Timeout`, `Adopt`, `NavigationReplies` a page client's requests and what
  becomes of them; `SetTabRoute` with `TeardownRoute`, `Connect`, `Disconnect`,
  `StopServing` and the like the popup's changes. `AssignLabels` is a function
  of the clients in their order.
* **Page.** `RegisterTool`, `UnregisterTool`, `NotifyToolChange` are the polyfill,
  `Sync`, `Reconcile`, `SyncDone` the mirror with the read it awaits and the
  generation it compares, `Rebuild`, `ActivateAll`, `Deactivate`, `SetLabel`, `Closed`
  the control messages with the closes they wait for; `Initialize`, `ListTools`,
  `RemoteClosed` are the far end. A tool is a name with one of two definitions.
* **BrowserControl.** `Connect`, `Dialed`, `DialFails`, `Opened`, `Closed`,
  `TimerFires` are `BrowserProvider` by generation, `SetTabBridge`/`StorePins`,
  `SetSettings`/`ApplySettings`, `Alarm`, `Boot`, `Recycle` the worker's use of it;
  `UpsertProfile` with `Evict`, `ParseProfiles` and `BridgeConfigFor` are
  operators on the list. `OpenTab` to `CloseAgentTab` are the tools with the set of
  agent tabs read and saved in two steps.
* **Debugger.** `RunExt`, `EnsureCdpAttached`, `Attach`, `FocusTab`, `SendCommand`,
  `RestoreFocus`, `Finally` are one call; `UserDetaches`, `OnDetach`, `Detached`,
  `SetSettings`, `DisableTab`, `UserFocuses` happen around it. A call keeps the session
  object it found.
* **Snapshot.** `TakeSnapshot`, `ListAgentFrames`, `SnapshotFrame`, `Stitch`, `SnapshotAlone`,
  `Find`, `Act`, `ActAndObserve`, `FrameOverlay`, `ClearSnapshotRefs` are the tools;
  `ChangeDom`, `LoadFrame`, `RemoveFrame` the page.
* **Errands.** `Downloads`, `DownloadList`, `DownloadWait`, `TabContext`, `LookAtKids`,
  `CallBridge`, `SettleBridgeRpc`, `BridgeRpcTimeout`, `Navigate`, `Poll`, `Probe`
  are the worker's side of a call, `PageTimesOut` and `Delivered` the page's; the
  browser's downloads, tabs and documents move in between.
* **Design.** Each tool of `builtins.ts` that changes something is an action; an
  element is an object with a selector, and the page may replace it (`Rerender`).
  `PopupAsks`, `RunElementPickerScript`, `Inject`, `Message` are a request of the popup:
  run in the page, injected and tried again, at last sent as a message.
* **Automation.** A function is the sequence of its layers, the page's own and the
  hooks. `Install`, `Uninstall` and `Through` (what a call comes to) are operators;
  tools, control messages and the page itself, which wraps, puts back and makes
  requests, are the actions. `PageFetches` and `FetchEnds` are a fetch; `XhrOpens`,
  `XhrSends`, `XhrSendsUnseen` and `XhrEnds` are one XMLHttpRequest that is used over and
  over: its entry is made before the browser's `send`, which may throw, and its
  listeners stay until a request of the object ends. `spoiled` is a history variable.

## 3. What the runs check

All runs set `CHECK_DEADLOCK FALSE`: inputs are bounded, and a system whose
clients have nothing left to do stops.

| Run | Instance | Shows |
|---|---|---|
| `bridge_catalog` | 1 provider, 1 agent, 1 extra runner; tools over 2 pages, 2 changes of the page | at most one fetch of a catalog in flight (`OneFetchPerCatalog`); a catalog with nothing on its way is the page's (`NoStaleCatalog`); so is what an agent listed, unless a session's notification was lost (`NoStaleListing`); both become current in the end (`EventuallyCurrent`) |
| `bridge_routes` | 2 connections of one page (a reload) with one resource, 1 agent, same partition or not, calls may fail at any time, 1 call | `LabelsUnique`, `RoutesSound`; `CallsStayNamed`: a call goes to the provider and entry that the agent named, although route and label are read and used in different sections; `AdvertisedIsRouted`: listing and routing, computed by different code with opposite precedences, agree |
| `bridge_lifecycle` | 1 provider, 2 agents, 1 session, idle timeout, shutdown at any time | `AgentCountExact`, `IdleTimerExact`, `ClosedForGood`, `CloseReachesEveryPeer` |
| `bridge_ghost` | 1 provider, idle timeout | violation, see findings |
| `bridge_idle` | 1 agent, idle timeout | violation, see findings |
| `peer` | 2 calls (one answered twice), 1 reply, 1 closer beside the read loop | `ChannelsSafe`, `PendingExact`, `CloseMeansClosed`, `TypeOK`; `KeepsPromise`: Peer implements `RequestReply`, liveness included |
| `http_session` | 1 session, 1 POST, 2 streams, 1 DELETE, buffer of 2, 3 events | `FlagsExact`: one handler at most holds the stream slot, and `done` is closed once by whoever closes the session; `EventsInOrder`, `OpenSessionExpires`; `SessionsReaped` and `StreamsEnd` |
| `daemon` | 1 agent, 1 daemon started by hand, 1 stop command, a port that may be taken by another server, equal or different tokens, a daemon that requires a profile, idle exits, 1 crash, requests that time out | `PidFileIsTidy`: however the end of one daemon and the start of the next interleave, no pid file names a daemon that ended in good order; `ProxiesAreServed`: no proxy is left behind on a closed bridge, although closing callers overtake each other and connections are registered late; `StopIsKept`: a stop that reports success ends the daemon it reached; `OneRemains`: in the end at most one daemon is left |
| `daemon_ensure` | 2 agents that start together | violation, see findings |
| `extension` | nine components in 34 scenarios, see below | fourteen properties, see below |
| `downloads_since` | 1 download, 1 wait for a new one, a worker that may be recycled | violation, see findings |
| `uid_labels` | three sub-frames of one element, two snapshots, one screenshot with labels, frames that reload or go | violation, see findings |

The properties of `extension`:

| Property | Says |
|---|---|
| `OneSocketPerProvider` | the bridge sees one connection per provider at most, and the entry that is listed, held or about to close knows it, although a dial waits for its URL between looking at the slot and taking it; the same for the browser provider and its generations |
| `AgentTabsDialNobody` | a tab that serves a web agent reaches for no socket, whatever dials, timers, alarms and restarts come in between |
| `HeldSocketComesFirst` | the page that loads does not dial while a navigation owes its reply on the old page's socket |
| `EnabledTabsAreServed` | every page on an enabled tab gets its socket or its agent's client in the end |
| `ServedAsChosen` | a call on its way to a page is of the agent the tab was set to serve, and its site is connected, but for the change that is being carried out |
| `AsksSettle` | every request of a web agent ends |
| `SessionsAreReal` | a debugger session the worker counts on is attached, or its end is on the way |
| `UidsMeanWhatWasShown` | a uid a listing gave the agent means the element of the frame it was listed for, or nothing, between calls and while an action looks it up, although frames reload and snapshots fail half way |
| `RegisteredToolsArrive` | once things have settled, whoever is connected has listed what the page has registered |
| `UserTabsAreKept` | the bridge a user pinned a tab to stays the tab's, through evictions and restarts; an agent's tidying closes no tab of the user |
| `ReportsAreTrue` | a tab an action opened is told once at most; a navigation is reported as arrived, or as nothing, only if it was |
| `PicksAndPatchesAgree` | default element, markers and style nodes are of what is picked and listed |
| `HooksComeOff` | no function the page finds fails or loops, an inactive page has no hooks, a request listed as ended has ended, and one listed as under way is, but for an XMLHttpRequest whose send threw or that was used again |
| `TypeOK` | the types of all nine; a hold counter counts its navigations; every pending request has somebody who waits |

Every property of a passing run has a mutant in `PROJECT.json`: a plausible bug
in one mapped definition that breaks it in that very run.

### Bounds

* `MaxChanges = 2`: the second change may arrive while the first is being
  fetched, which is all that the two flags of `catalogSync` can tell apart; a
  third change finds the flags in a state that two can produce.
* `NumPages = 2`: a change may fall between two pages of one fetch. A catalog
  longer than `MaxCatalogPages` does not occur.
* Two connections with the same `Meta` give a label collision, a reservation to
  take over and a registration that races with the departure it replaces. Unique
  labels are also proved for any number of connections.
* `MaxReservations = 2` is the size of the label store, one less than the keys of a
  connection of `bridge_routes`, so the store is pruned at each registration.
* `bridge_routes` has resources only, the one kind whose names are not made unique by
  a label, so that listing and routing must agree on who wins. `RoutesSound` and
  `CallsStayNamed` are theorems for all kinds.
* `MaxCalls = 1`: an agent's calls do not influence each other.
* `BufferSize = 2`, `MaxEvents = 3`: the third event finds a full buffer.
* Two streams: one holds the slot, one is refused or follows it.
* Two daemons (one spawned, one started by hand) race for the port and succeed
  each other on it; the pid file has no more than a predecessor and a successor to
  mix up. `MaxPolls = 1`: `Ensure` sees the port once before and once after the
  spawn; `daemon_ensure` polls twice. `MaxCrashes = 1`. The theorems hold for any
  number of processes.

* `extension`: a scenario gives a component two to five events of the outside,
  chosen so that they meet: two requests of the popup with a recycled worker or a
  removed tab; a lost socket with an unload and a navigation; two agents with
  the same tab in two routes; two debugger calls with a user who cancels; two
  snapshots of three frames with a frame that reloads; three pins of tabs in a
  list of two profiles with a restart; two pins, one of a tab that goes
  meanwhile, with a restart; three activations with the two sets of tools; two navigations,
  of one page or of the pages of a tab one after the other; and so on (`MCExtension`). `MaxPorts`,
  `MaxProviders`, `MaxClients`, `MaxSessions`, `MaxServers`, `MaxTunnels` and
  `MaxDials` number objects the code makes without a limit; they are large
  enough for the scenarios. `MaxProfiles = 2` (8 in the code), `MaxRecords`,
  `MaxOpened`, `MaxEntries = 2` (100, 10, 300) and `MaxOrigins = 2` are limits of
  the code, small so that they are met. `MaxFetches = 3` records one request more than
  the list holds.

### What the runs leave out

`bridge_catalog` sets `Timeouts` to FALSE: a refresh whose call fails while the
page lives keeps the old catalog until the next change, so freshness is only
claimed for pages that answer. `AdvertisedIsRouted` excludes the window between a
catalog's store and the rebuild of the routes, two sections in the code; in it an
agent may list what is not routed yet. `bridge_catalog` has an agent and no session,
for size: a session is told like an agent, or loses the notification. With a session in
the agent's place the instance has about as many states and passes too; with both it
passes for one change. `ListingsConverge` is proved for both. No instance has a label or a name with
`__` in it, so collisions of namespaced names do not occur. In `Daemon` the
removal of the pid file succeeds when the file is there, and the spawned process
has the token of its agent, as `Ensure` passes it on.

`PidFileIsTidy` says that no file is left behind, not that a running daemon has
one: an old daemon that was asked to stop has given up the port before it removes
the pid file, so its successor can listen and write its own in between, and lose
it. `Stop` then still finds the successor by its port.

A page is asked for one navigation at a time (the guard of `BridgeAsks`), of any number: a
second one that overlaps the first would share its `held` flag (`background.ts:2614`).
In the extension a debugger command, a read of the page's own tools and a write to
storage succeed, except where a scenario makes them fail; a timeout may come at
any time. `HooksComeOff` excepts slots in which the page has put a hook back that it
had kept (`astray`): there the hook has lost its original and every call fails, see
the observations. Chrome is taken to deliver the end of a debugger session (`onDetach`)
before it answers a later attach to the same tab. An element of `Design` keeps its
selector, which the code computes anew at each sync; what is said of markers does not
depend on it. In `Snapshot` the top frame answers.

### Fairness

Weak fairness of goroutine steps only: the Go scheduler runs what can run, a
mutex is not withheld forever and timers fire. Beyond that: a live page answers
what it is asked (`PageAnswers`), a client that is told that a list changed lists
again (`List`), a write ends one way or the other (in `Peer` because of
`writeTimeout`, in `HttpSession` because the client reads or the connection
breaks), and the expiry timer of a session fires. In `Daemon` the processes and
goroutines of a daemon that runs are scheduled. Nothing forces a page to
change, a socket to break, a client to call or hang up, a daemon to stop, or the
request timeout to end a call: `KeepsPromise` holds without it.

In `TabWorker` the worker boots, an awaited read of storage and a URL come back, a
socket that connects opens or closes, a timer fires, the page handles the
messages of its Port, and the popup's requests go on; in `WebAgent` the same of an
agent's request and of a change, and a request to a page is answered or times out.
The browser recycles, users click and pages unload or not, as they like. The other
modules of the extension state no liveness.

## 4. Findings

* **A provider that outlives its connection** (`bridge_ghost`,
  `NoGhostProvider`). `attachProvider` registers the provider before it calls
  `peer.OnClose`. If the socket closes in between, `Peer.shutdown` finds no
  callback and `closeOnce` never runs again: the provider stays registered with
  its label and keeps the bridge from ever being idle.
* **An idle close of a bridge that is not idle** (`bridge_idle`,
  `IdleCloseOnlyWhenIdle`). The timer's function calls `Close` without looking
  again; an agent that attaches after the timer fired is accepted and torn down.
* **An agent that gives up beside a running bridge** (`daemon_ensure`,
  `EnsureFindsTheBridge`). Of two agents that start together both spawn a daemon.
  The one that is second to listen exits, and its agent's `Ensure` returns the
  error of the exit without probing the port again, where the other's bridge runs.

* **A download that is not new** (`downloads_since`, `WaitsForNewDownloads`).
  `wait_for_download` takes as known what the worker remembers. After the browser
  recycled the worker it remembers nothing, the first round of the wait reads the
  browser's whole history, and an old finished download is returned as the new
  one.
* **A label that means another element** (`uid_labels`, `LabelsMeanWhatTheyMark`).
  `take_snapshot` renders the frames one by one, and each rendering gives the frame's
  registry its new prefix and numbers; the worker sets its map from prefixes to frames
  only when all are done. If a frame goes away in between, the call falls back to the
  top document: registries and map belong to different snapshots, two frames may have
  one prefix, and `screenshot` with `refs` paints uids that an action resolves to
  another frame. The proof attempt for `UidsMeanWhatWasShown` came upon it: that
  property holds of listed uids only.

`CloseMeansClosed` is stated for callbacks registered before the shutdown began,
as the first finding is what happens to the others.

### Observations

Met while modelling, reachable in the modules named, and not claimed otherwise by any
property:

* *TabWorker.* `background.ts:2115`: messages kept for a socket that is down are sent
  on the next connection, so a reply may go to a session that did not ask.
  `background.ts:2293`: a page that turns up while an enable is being taken back
  stays activated.
* *WebAgent.* `background.ts:490`: labels are assigned anew for each call, so a tab
  that came or went since the listing shifts the suffixes; a browser tool that is
  under way is carried out after its site was disconnected; an origin that falls out
  of the list of approvals (`web-agent.ts:111`) is not torn down.
* *Page.* `tool-mirror.ts:89`: deactivating forgets what is mirrored, but the server
  kept for the next activation still has the tools; one that is unregistered in
  between stays listed (`README.md:528`: "tool disappears from the agent").
  `inject.ts:517`: a toolset that is switched while the tab is disabled is not
  looked at again, and the kept server offers the old one.
* *BrowserControl.* `background.ts:806`: two `open_tab` at once lose one of the set,
  and `close_agent_tabs` leaves it open. Pinned profiles can exceed the bound.
  `background.ts:3276`: `setTabBridge` does not look whether the tab is still there,
  so a tab that went meanwhile keeps its pin in the map; so does one that goes while
  the worker boots and has not read its map yet (`background.ts:3306`).
  `background.ts:3242`: a provider switched on starts with the next alarm.
* *Bridge.* A session whose notification was dropped is not told again of that
  change (`httpsession.go:177`): it keeps its old list until the next one.
* *Debugger.* Switching the CDP tools off while trusted input stays on leaves the
  session attached; turning both off, or disabling the tab, during an attach leaves
  one behind; a call that detaches when it is done takes the session from another.
* *Snapshot.* While a snapshot or a screenshot is under way, numbers and frames may be
  ahead of what the agent was shown; the property speaks of the states between calls and
  of actions.
* *Errands.* A wait for a new download excludes one the click before it had begun; tabs
  drained for a page that gave up are not told at all; a page's call ends after 20 s,
  a wait for a download after 30 s by default.
* *Design.* A picked element that was replaced is found again by its selector, which
  may be another element; disabling the tab leaves patches and markers.
* *Automation.* An XMLHttpRequest is recorded before its `send` is called
  (`automation-tools.ts:187`): one that throws, as a second `send` does, or a synchronous
  one that fails, leaves an entry that never ends, and so does a request that a new
  `open` cuts off. Listeners for `error` and `abort` of an earlier request of the
  object outlive it and may overwrite the earlier entry's outcome. A page that wrapped or kept a hook has a function that throws "fetch
  capture is not installed" once the capture is off, and that calls itself for
  good if it is put back and the capture started again; what a page puts over a
  hook is lost when the hook comes off.

## 5. Proofs

Constants are arbitrary but for the named assumptions of the modules: finite and
disjoint sets of actors (`ActorsFinite`, `ActorsDistinct`, `ThreadsDistinct`,
`ProcessesDistinct`), kinds in a sequence and a fetch of one page
at least (`CatalogsAreListed`), a port
that is free or foreign at first (`PortsAreFree`), and that two candidates for one
base label are different strings (`CandidatesDistinct`), which string concatenation
gives and the provers cannot see. Of the extension the bounds of the modules are
numbers (`Bounds`), a page has finitely many elements, the tab in which the user is
when nothing is attached is none of those that calls attach to, the fallback bridge is
a bridge, and `Nobody` is no agent and no page.

**Bridge.** `AgentCountIsExact`, `IdleTimerIsExact` and `ClosedIsForGood` follow
from `LifeInv`. The count alone is not inductive: a release must know that who
releases is registered, once; and the timer needs the count. The invariant joins
both with where each agent and session stands. Most actions do not touch this part
of the state; they are put together in lemmas (`AttachIsQuiet`, `WorkIsQuiet`,
`ClosingIsQuiet`) and the few that do have a step each.
`LabelsAreUnique` rests on `UniqueLabelIsFree`: the CHOOSE of `UniqueLabel` has a
witness because `Cardinality(Conns) + 1` distinct candidates cannot all be in use
(`FreeCandidate`, a pigeonhole argument over a finite set). The store's content is
irrelevant: a reserved label is only taken when it is not in use.

**Peer.** The invariant `Inv` has four parts. `ChannelInv` says who may still
touch a call's channel: the entry of the map, the hand of the read loop and the
drained set exclude each other, and as long as one of them holds the call its
channel is empty and open. `OnceInv` says where shutdown stands and what has been
done by then. `OutcomeInv` says what an outcome rests on: an answer, or a shutdown
that began. `TypeOK` is the rest. Safety of `RequestReply` follows step by step:
`CallIsSound` shows that the initial states and every step of `Peer` are those of
the abstract specification or stutter.

**Daemon.** `PidFileStaysTidy` and `ProxiesStayServed` follow from `Inv`. The pid
file needs that an agent spawns its daemon once and that a daemon passes through
its main function in one direction. The proxies need that who holds the port is a
process past its `Listen` and not yet past `LeavePort` (`Order`), that nobody is
connected to a daemon that has not listened, and that only proxies have connections and
only those with one are registered (`Connected`). A bridge that has closed has
registered connections only while one of the three that close it, the main function,
the goroutine of a shutdown and the idle timer, still hangs up; each of them leaves
that place only when nobody is registered any more (`CallerKeepsInv`,
`MainKeepsInv`, `CloserKeepsInv`), and a caller that comes second never was there.
Losing a connection (`HangingUpKeepsInv`) or all of a process (`DroppingKeepsInv`)
puts nobody on a closed bridge. What `Ensure` and `Stop` do touches nothing the
invariant mentions (`QuietKeepsInv`), but for signals and requests that start an ending.

**Routing.** `RoutesAreSound`, `CallsKeepTheirNames` and `FetchesAreSingle` follow from
`RoutingInv`, inductive given `LifeInv` and the labels. A route leads to a registered
provider under its present label (`RouteInv`): `rebuildRoutes` folds over the providers,
and what it leaves out, `SubsequenceTakes` says: the sequence of those a set is left
of, in their order. (`Selections` writes such selections by ranks, since the prover has
nothing for `SelectSeq`.) A call that was routed is proved to keep the name by itself
and not through the table, which may have moved on (`CallInv`): a label that is given
never changes. `OneFetchPerCatalog` needs who owns the loop of `refreshCatalog`
(`FlightInv`), and that one needs that a request or answer on the wire is the one its
fetch waits for (`WireInv`), or a stale answer could send two fetches on.

**Catalogs.** `ListingsConverge` says that an agent or session with nothing to be told
has listed what the routes say, unless the session's notification was lost since
(`missed`); a new provider is the hard case, and enters with empty catalogs
(`EarlyInv`), so registering it changes no listing. `CatalogsAreCurrent` rests on
`FreshInv`: as long as no change is on its way to a fetch (`Due`), the fetch under way
has what is on the pages before its own, and the answers on the wire what is on theirs;
where nobody fetches, the store has it all. Its hypothesis `PagesFit` says that no
call to a live provider fails and that a catalog is not longer than
`MaxCatalogPages`: the code keeps what it has when a fetch fails.

`RoutedAsAdvertised` has two halves. The tables are those that the present providers and
catalogs make, unless a rebuild is still to be done (`TablesCurrent`): again a provider
enters with nothing, and who hangs up is rebuilt in the same section. And such tables agree
with the listings (`CurrentTablesAgree`): of tools and prompts a name has one provider, of
resources both pick the oldest. Its hypothesis `NamesApart` says that two providers that are
there have no labels which make one name of two, as "a" with "b__c" and "a__b" with
"c" would (`bridge.go:549`); that the labels themselves differ is `LabelsUnique`.

**HTTP sessions.** `Inv` has what a handler's place says of its session
(`PlacesInv`), that a session streams exactly while one handler holds its slot
(`SlotInv`), the flags and timers (`LifeInv`), and that what the client has read, what its
stream has taken and what is in the buffer are numbers that climb in this order
(`OrderInv`). The order needs the slot: two streams could take in turns.

**The extension** is a product of components, so each theorem needs an invariant of its
component, a step per action, and a lemma that the other components leave it alone.
* `HooksAreTaken`, from `HookInv` and `RecordInv`: without an installed hook there is
  none among the layers, and what the installed hook calls has none, except in slots
  where the page put a hook back. Numbers go up to `netSeq` (`RecordsTyped`), so no listener
  is of an entry to come; what the XMLHttpRequest has under way has a listener that ends its
  entry, unless that is spoiled, and its listeners end no other request's that is under
  way (`XhrFollowed`).
* `UidsAreKept`, from `SnapInv`: a listed uid fits its frame's registry and its index
  stands for no other frame (`ShownFit`). Between the rendering of a frame and the
  map's update this is false of what was shown, so the lines of the snapshot under
  way carry it (`SectionsFit`).
* `PicksAreListed`, from `DesignInv`: markers are of entries, styles of patches, and the
  primary selection is of the last entry (`PrimaryIsLast`), which the operations keep
  only together.
* `SessionsStayReal`, from `DebuggerInv`: sessions of the map and of calls about to
  attach are of their tabs and have been made (`SessionsOfTabs`, `SessionsInOrder`), so
  two calls that find the same session agree what it is.
* `ConnectionsAreSingle`, from `LinkInv` and `TabInv`: for the browser provider, no
  generation but the current one has a live dial; for a tab's socket, one is alive only
  while its entry is listed or held.
* `AgentTabsStayOff`, from `TabInv`: a socket on an agent's tab is one that
  `setTabRoute` is about to close (`AgentSocketsGo`). It needs the paths from a tab over
  its Port to its providers (`PathsLead`), that a message from a page announces its own
  providers (`OwnAnnouncements`), and that a worker that boots has nothing listed.
* `HeldSocketsComeFirst`, an action property, from `HoldInv`: a navigation counts in the
  holds of its tab (`HoldsCover`), it begins only on the socket of the tab's last page
  (`AskedByTheLast`), and pages that came later have no dial under way (`LaterOnesWait`).
  The second needs that a provider is announced once, and before it is listed or asked for
  anything (`OpensOnce`, `OpensFirst`), or a page that has gone could be asked again. A tab's
  hold counter may count several navigations, and the last to let go connects what
  waits, so the counter must never fall below their number. `connectSocket` looks at it
  before its await: that no such dial is under way when a hold begins is the point
  of the proof.
* `ReportsStayTrue`, from `ErrandInv`: an opened tab is in one place at a time, the
  browser's list of tabs, a record, an answer or told (`OnePlace`), and a navigation that
  will be reported as arrived, or as nothing, is one whose document says so (`Going`).
* `CallsAreServedAsChosen`, from `WebInv`: a client is of the agent that its tab's route
  names and whose site is connected (`ClientsSound`), what a request has found is of its
  agent (`AskSound`, `MayAsk`), and a change under way tears down what it takes back
  before it is done (`ChangeSound`). The theorem speaks of at most `MaxOrigins` sites,
  because `addOrigin` (`web-agent.ts:111`) drops the oldest approval of a longer list
  and leaves its clients alone: beyond that bound the property is false of the code.
* `UserTabsStay`, from `PinInv` and `TidyInv`. Once the worker has booted, the lists of
  memory and storage agree, and ids and bridges of a list are distinct; a pin that was
  confirmed names a profile of its bridge there (`PinKept`), and one about to be
  stored names one in memory (`AskKept`). `evict` spares the profiles in use, and parsing
  keeps what it has parsed once. `TidyInv`: whatever a call, `onRemoved` or
  storage holds of the set of agent tabs are tabs an agent opened (`OfAgents`, `Tracks`).
  In the plan of this proof the model turned out to pin tabs that had gone, which
  `StorePins` no longer does.
* `ToolsArrive`, from `PageInv`. At most one tunnel is heard, and it is the embedded
  server's (`OneHeard`); who has listed there knows the server's tools or has a notice
  coming (`FarTold`); what the mirror believes of the server that is there is so
  (`Believed`); a read is of the page as it is, or another read follows (`ReadSound`); and
  once none follows, and no server waits to be rebuilt, what the page has is registered
  with the server of this generation (`RestSound`). `Keeps` says what a change of servers and
  tunnels must not do, so that far ends and mirror are not misled; a disconnect, a retirement,
  a new server and a connection each keep it, and `embeddedServer` by transitivity. The
  proof showed that the model gave a retired server's number to the next one, and did not count
  a generation in `rebuildEmbeddedForToolset` when there was no server; both follow the code
  now, and a run has three activations so that it happens.

**Only model-checked.** Liveness (`EventuallyCurrent`, `CloseReachesEveryPeer`,
`SessionsReaped`, `StreamsEnd`, `StopIsKept`, `OneRemains`,
`EnabledTabsAreServed`, `AsksSettle` and the fairness part of `KeepsPromise`), since TLAPS
has no rules for ENABLED here; of the extension `TypeOK`
as a whole, of which each proof has the part it needs.
The types of `Bridge` and `HttpSession` are part of `RoutesSound` and
`FlagsExact`, those of `Daemon` part of its inductive invariant (`Shape`).
What `LabelStore`'s folds compute for every store is induction over data, out of
the prover's reach; the proofs need nothing of it.

## 6. Not modelled

Logging broadcasts, dashboard reads, gates of the HTTP server (origins; tokens and
profiles only as far as `Ensure`, `Stop` and a proxy meet them), body parsing, keep-alive
comments, the wording of names and messages, rendering of popup and dashboard: they keep
no protocol state. Of the daemon, the probe of `/api/providers` for bridges of an older
version and the log file; of the proxy, the copying of frames.

Of the extension: what a tool computes from the DOM (roles, names, visibility,
geometry, styles, events), storage, cookies and screenshots, since the browser is
their specification; serialization and annotations; icons, tab groups and
permissions; announcements to web agents and their discovery; messages kept for a
socket that is down; reads of the page's tools that fail, prompts and
resources of a page. `normalize.go` and `uploads.go` are pure functions on JSON and
paths.

## 7. Plan

The bridge, its sessions, the peer, the daemon and the extension are modelled and
checked, and most safety invariants are theorems. What is left, in this order:

1. The types of the extension.
2. `bridge_catalog` with failing calls and a catalog longer than the limit;
   names with `__`.
