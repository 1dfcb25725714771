------------------------------- MODULE Bridge -------------------------------
(***************************************************************************)
(* The bridge daemon's core (internal/bridge/bridge.go): browser providers *)
(* attach over WebSocket and are initialized, labelled, registered and     *)
(* asked for their catalogs; list_changed notifications refresh those      *)
(* catalogs; agents (WebSocket) and HTTP sessions list and call what is    *)
(* registered; the idle timer and Close tear everything down.              *)
(*                                                                         *)
(* One action is one critical section of Bridge.mu, one write to or read   *)
(* from a WebSocket, or one step of sync.Once in Peer.shutdown: what can   *)
(* happen between two of them in another goroutine can happen here.        *)
(*                                                                         *)
(* Connections are used once: a provider that reconnects is another        *)
(* element of Conns with the same Meta. A catalog is the set of its names. *)
(***************************************************************************)
EXTENDS LabelStore

CONSTANTS
  Conns,          \* provider WebSocket connections
  Agents,         \* agent WebSocket connections
  Sessions,       \* Streamable HTTP agent sessions
  Runners,        \* goroutines that may be inside refreshCatalog's loop
  NoOne,          \* nobody
  Partitions,     \* the assignments of partitions to connections and sessions
  Meta,           \* per connection: base label, tab, provider id, URL
  Caps,           \* per connection: the kinds its initialize result declares
  KindSeq,        \* the catalog kinds, in the order the code goes through them
  Catalogs,       \* the sets of names a page may expose of a kind
  PageOf,         \* the page of tools/list etc. on which a name is returned
  NumPages,       \* pages of a catalog
  MaxCatalogPages,\* maxCatalogPages
  IdleTimeout,    \* whether Options.IdleTimeout is set
  MayShutdown,    \* whether the daemon may call Close at any time
  Timeouts,       \* whether a call to a live provider may time out or fail
  MaxChanges,     \* bound: catalog changes of one page
  MaxCalls        \* bound: calls of one agent or session

Kinds == ToSet(KindSeq)
Listeners == Agents \cup Sessions
Peers == Conns \cup Agents
Procs == Conns \cup Runners
Names == UNION Catalogs

ASSUME ActorsFinite ==
  IsFiniteSet(Conns) /\ IsFiniteSet(Agents) /\ IsFiniteSet(Sessions)

ASSUME ActorsDistinct ==
  /\ Conns \cap Agents = {}
  /\ Conns \cap Sessions = {}
  /\ Agents \cap Sessions = {}
  /\ Conns \cap Runners = {}
  /\ Runners \cap (Agents \cup Sessions) = {}
  /\ NoOne \notin Conns \cup Agents \cup Sessions

\* A fetch asks for one page at least (maxCatalogPages is 50), and the kinds are
\* gone through in a sequence.
ASSUME CatalogsAreListed ==
  /\ MaxCatalogPages \in Nat \ {0}
  /\ KindSeq \in Seq(Kinds)

\* Two candidates for the same base are different strings.
ASSUME CandidatesDistinct ==
  \A c \in Conns : \A i, j \in 1..(Cardinality(Conns) + 1) :
    Candidate(Meta[c].base, i) = Candidate(Meta[c].base, j) => i = j

NoLabel == ""
Unlisted == {[prov |-> NoOne, name |-> ""]}   \* no listing yet
IdleJob == [at |-> "idle"]
IdleCall == [at |-> "idle"]

VARIABLES
  \* Bridge, under b.mu
  providers,        \* registered connections
  agents,           \* registered agent sessions
  sessions,         \* registered HTTP sessions
  agentConnections,
  idleTimer,        \* "nil", "armed", or "fired" (its function has started)
  closed,
  profileKey,       \* the partition a connection or session asked for
  label,            \* Provider.label
  reserved,         \* the label store
  connectedAt,      \* Provider.connectedAt as a stamp, 0 before it is taken
  catalog,          \* Provider.tools/prompts/resources
  sync,             \* Provider.toolSync etc.
  routes,           \* toolRoutes, promptRoutes, resourceRoutes
  \* peers and the goroutines that run on them
  peer,             \* "none", "open", "closing" (inside closeOnce), "closed"
  attach,           \* where attachProvider or attachAgent stands
  todo,             \* kinds attachProvider has still to refresh
  hangup,           \* a provider's OnClose callback after its first section
  sess,             \* HTTPSession: "none", "open", "closing", "closed"
  job,              \* refreshCatalog loops
  spawned,          \* refresh goroutines that have not run yet
  \* Close
  idleFired,        \* idle timer functions that have not called Close yet
  closeTodo,        \* what Close has still to close
  closing,          \* what Close is closing
  \* the browser side and the wire
  page,             \* the catalogs the page really has
  changes,          \* bound counter for MaxChanges
  asked,            \* requests the page has not answered
  wire,             \* messages on their way to the bridge
  \* the agents' side
  notes,            \* list_changed notifications on their way to a listener
  missed,           \* auxiliary: the sessions that have lost one, with its kind, since
                    \* they last listed
  view,             \* what a listener last listed
  call,             \* a listener's tools/call, prompts/get or resources/read
  calls             \* bound counter for MaxCalls

registry == <<providers, agents, sessions, agentConnections, idleTimer, closed>>
naming == <<profileKey, label, reserved, connectedAt>>
catalogs == <<catalog, sync>>
links == <<peer, attach, todo, hangup, sess>>
workers == <<job, spawned>>
shutdown == <<idleFired, closeTodo, closing>>
browser == <<page, changes, asked, wire>>
clients == <<notes, missed, view, call, calls>>
bridge == <<registry, naming, catalogs, routes>>     \* guarded by b.mu
engine == <<workers, shutdown>>
outside == <<browser, clients>>
vars == <<bridge, links, engine, outside>>

-----------------------------------------------------------------------------
(***************************************************************************)
(* Naming and routing.                                                     *)
(***************************************************************************)
NamespaceName(lab, name) == lab \o "__" \o name

\* The name under which agents see entry n of provider c.
AgentName(c, k, n) == IF k = "resources" THEN n ELSE NamespaceName(label[c], n)

UnpartitionedKey(profile, name) == <<"", name>>   \* mutant: one namespace for all

\* routeKey
RouteKey(profile, name) == <<profile, name>>

Before(c, d) == connectedAt[c] < connectedAt[d]
Oldest(S) == CHOOSE c \in S : \A d \in S : ~Before(d, c)
Newest(S) == CHOOSE c \in S : \A d \in S : ~Before(c, d)

NewestWins(k, owners) == Newest(owners)   \* mutant: resources like tools

RouteWinner(k, owners) ==
  IF k = "resources" THEN Oldest(owners) ELSE Newest(owners)

\* rebuildRoutesLocked over the given providers: oldest first, so the newest
\* tool or prompt of a name wins and the oldest resource of a URI does.
RoutesOver(provs) ==
  [k \in Kinds |->
     LET keyOf(c, n) == RouteKey(profileKey[c], AgentName(c, k, n))
         keys == UNION {{keyOf(c, n) : n \in catalog[c][k]} : c \in provs}
         owners(key) == {c \in provs : \E n \in catalog[c][k] : keyOf(c, n) = key}
         winner(key) == RouteWinner(k, owners(key))
     IN  [key \in keys |->
            [prov |-> winner(key),
             orig |-> CHOOSE n \in catalog[winner(key)][k] :
                        keyOf(winner(key), n) = key]]]

\* mutant: providers that left keep their routes
RebuildWithDeparted(provs) ==
  routes' = RoutesOver({c \in Conns : label[c] # NoLabel})

RebuildRoutes(provs) == routes' = RoutesOver(provs)

\* exposedTools, exposedPrompts, exposedResources. Only resources are deduped.
Exposed(profile, k) ==
  LET mine == {c \in providers : profileKey[c] = profile}
      shown(c, n) ==
        k = "resources" => c = Oldest({d \in mine : n \in catalog[d][k]})
  IN  UNION {{[prov |-> c, name |-> AgentName(c, k, n)] :
                n \in {m \in catalog[c][k] : shown(c, m)}} : c \in mine}

LabelsInUse == {label[c] : c \in providers}

-----------------------------------------------------------------------------
(***************************************************************************)
(* Pieces shared by several handlers.                                      *)
(***************************************************************************)
Idle == providers = {} /\ agentConnections = 0

\* mutant: the timer is armed but never stopped
CheckIdleArmsOnly(provs, count) ==
  idleTimer' = IF IdleTimeout /\ ~closed /\ provs = {} /\ count = 0
                  /\ idleTimer = "nil"
               THEN "armed" ELSE idleTimer

\* checkIdleLocked, given what the section makes of providers and count.
CheckIdle(provs, count) ==
  idleTimer' =
    IF ~IdleTimeout \/ closed THEN idleTimer
    ELSE IF provs = {} /\ count = 0
         THEN IF idleTimer = "nil" THEN "armed" ELSE idleTimer
         ELSE "nil"

NeverRefused == FALSE   \* mutant: no look at b.closed

\* Every registration looks at b.closed first, in the section that registers.
Refused == closed

\* An agent or session takes or gives back its place in agentConnections.
TakeSlot ==
  /\ agentConnections' = agentConnections + 1
  /\ CheckIdle(providers, agentConnections')

KeepSlot == UNCHANGED <<agentConnections, idleTimer>>   \* mutant

ReleaseSlot ==
  /\ agentConnections' = agentConnections - 1
  /\ CheckIdle(providers, agentConnections')

\* mutant: WebSocket agents are not told
BroadcastToSessions(profile, k) ==
  /\ notes' = [l \in Listeners |->
                 IF l \in sessions /\ profileKey[l] = profile
                 THEN notes[l] \cup {k} ELSE notes[l]]
  /\ UNCHANGED missed

\* broadcastNotification: every agent and session of the partition gets one, but a
\* session whose buffer of events is full, or whose stream breaks with the event
\* taken from it, loses it.
Broadcast(profile, k) ==
  \E lost \in SUBSET {s \in sessions : profileKey[s] = profile} :
    /\ notes' = [l \in Listeners |->
                   IF l \in (agents \cup sessions) \ lost /\ profileKey[l] = profile
                   THEN notes[l] \cup {k} ELSE notes[l]]
    /\ missed' = missed \cup {<<s, k>> : s \in lost}

\* Peer.shutdown up to p.cancel(): later callers find the Once taken.
Shut(p) == peer' = [peer EXCEPT ![p] = IF @ = "open" THEN "closing" ELSE @]

HandlesNotifications(c) == attach[c] \in {"onclose", "refresh", "served"}
HandlesClose(c) == attach[c] \in {"refresh", "served"}

\* A call that ends without its answer leaves Peer.pending, so a late answer
\* is dropped: the request and the answer on the wire are forgotten with it.
Forget(p, c) ==
  /\ asked' = [asked EXCEPT ![c] = {r \in @ : r.proc # p}]
  /\ wire' = [wire EXCEPT ![c] =
                Subsequence(@, {i \in DOMAIN @ : @[i].type = "resp" => @[i].proc # p})]

-----------------------------------------------------------------------------
(***************************************************************************)
(* attachProvider.                                                         *)
(***************************************************************************)
\* HandleWS accepts the socket; the read loop starts and initialize is sent.
Connect(c) ==
  /\ attach[c] = "none"
  /\ attach' = [attach EXCEPT ![c] = "init"]
  /\ peer' = [peer EXCEPT ![c] = "open"]
  /\ UNCHANGED <<bridge, todo, hangup, sess, engine, outside>>

\* The initialize result arrives: the Provider is built, connectedAt taken.
Initialized(c) ==
  /\ attach[c] = "init"
  /\ peer[c] = "open"
  /\ attach' = [attach EXCEPT ![c] = "built"]
  /\ connectedAt' = [connectedAt EXCEPT ![c] =
                       1 + Cardinality({d \in Conns : connectedAt[d] # 0})]
  /\ UNCHANGED <<registry, profileKey, label, reserved, catalogs, routes, peer,
                 todo, hangup, sess, engine, outside>>

\* initialize fails: the socket closed, an error or unusable result, or the
\* 60 seconds passed.
InitializeFails(c) ==
  /\ attach[c] = "init"
  /\ attach' = [attach EXCEPT ![c] = "failed"]
  /\ Shut(c)
  /\ UNCHANGED <<bridge, todo, hangup, sess, engine, outside>>

\* The section that labels and registers the provider, or finds b.closed.
Register(c) ==
  /\ attach[c] = "built"
  /\ IF Refused
     THEN /\ attach' = [attach EXCEPT ![c] = "failed"]
          /\ Shut(c)
          /\ UNCHANGED <<providers, idleTimer, label, reserved, todo>>
     ELSE LET lab == AssignLabel(reserved, Meta[c], LabelsInUse,
                                 Cardinality(Conns) + 1)
          IN  /\ label' = [label EXCEPT ![c] = lab]
              /\ reserved' = RememberLabel(reserved, Meta[c], lab, LabelsInUse)
              /\ providers' = providers \cup {c}
              /\ CheckIdle(providers', agentConnections)
              /\ attach' = [attach EXCEPT ![c] = "notify"]
              /\ todo' = [todo EXCEPT ![c] = KindSeq]
              /\ UNCHANGED peer
  /\ UNCHANGED <<agents, sessions, agentConnections, closed, profileKey,
                 connectedAt, catalogs, routes, hangup, sess, engine, outside>>

\* peer.OnNotification(...): until here notifications are dropped.
SetNotificationHandler(c) ==
  /\ attach[c] = "notify"
  /\ attach' = [attach EXCEPT ![c] = "onclose"]
  /\ UNCHANGED <<bridge, peer, todo, hangup, sess, engine, outside>>

\* peer.OnClose(...)
SetCloseHandler(c) ==
  /\ attach[c] = "onclose"
  /\ attach' = [attach EXCEPT ![c] = "refresh"]
  /\ UNCHANGED <<bridge, peer, todo, hangup, sess, engine, outside>>

-----------------------------------------------------------------------------
(***************************************************************************)
(* refreshCatalog and fetchCatalog.                                        *)
(***************************************************************************)
Fetching(c, k, n, acc) ==
  [at |-> "fetch", conn |-> c, kind |-> k, page |-> n, acc |-> acc,
   again |-> FALSE]

\* mutant: a notification during a fetch is taken to be covered by it
EnterForgetful(p, c, k) ==
  IF sync[c][k].inFlight
  THEN UNCHANGED <<sync, job>>
  ELSE /\ sync' = [sync EXCEPT ![c][k].inFlight = TRUE]
       /\ job' = [job EXCEPT ![p] = Fetching(c, k, 1, {})]

\* mutant: every notification fetches
EnterAlways(p, c, k) ==
  /\ sync' = [sync EXCEPT ![c][k].inFlight = TRUE]
  /\ job' = [job EXCEPT ![p] = Fetching(c, k, 1, {})]

\* refreshCatalog's first section, run by p: join the run already underway or
\* start one.
EnterRefresh(p, c, k) ==
  IF sync[c][k].inFlight
  THEN /\ sync' = [sync EXCEPT ![c][k].dirty = TRUE]
       /\ UNCHANGED job
  ELSE /\ sync' = [sync EXCEPT ![c][k].inFlight = TRUE]
       /\ job' = [job EXCEPT ![p] = Fetching(c, k, 1, {})]

\* attachProvider's own refreshTools, refreshPrompts, refreshResources, one
\* after the other, each only if the provider declared the capability.
AttachRefresh(c) ==
  /\ attach[c] = "refresh"
  /\ job[c] = IdleJob
  /\ IF todo[c] = <<>>
     THEN /\ attach' = [attach EXCEPT ![c] = "served"]
          /\ UNCHANGED <<todo, sync, job>>
     ELSE /\ todo' = [todo EXCEPT ![c] = Tail(@)]
          /\ IF Head(todo[c]) \in Caps[c]
             THEN EnterRefresh(c, c, Head(todo[c]))
             ELSE UNCHANGED <<sync, job>>
          /\ UNCHANGED attach
  /\ UNCHANGED <<registry, naming, catalog, routes, peer, hangup, sess, spawned,
                 shutdown, outside>>

\* A goroutine spawned for list_changed runs refreshCatalog's first section. One
\* that joins a run ends there; one that starts a run occupies a Runner.
SpawnedRefresh(p, c, k) ==
  /\ spawned[c][k] > 0
  /\ job[p] = IdleJob
  /\ spawned' = [spawned EXCEPT ![c][k] = @ - 1]
  /\ EnterRefresh(p, c, k)
  /\ UNCHANGED <<registry, naming, catalog, routes, links, shutdown, outside>>

\* peer.Call writes the request for the next page of the list. On a dead peer
\* the write fails and fetchCatalog returns what it has.
FetchPage(p) ==
  /\ job[p].at = "fetch"
  /\ LET c == job[p].conn
     IN  IF peer[c] = "open"
         THEN /\ asked' = [asked EXCEPT ![c] = @ \cup
                  {[proc |-> p, kind |-> job[p].kind, page |-> job[p].page]}]
              /\ job' = [job EXCEPT ![p].at = "wait"]
         ELSE /\ job' = [job EXCEPT ![p].at = "store"]
              /\ UNCHANGED asked
  /\ UNCHANGED <<bridge, links, spawned, shutdown, page, changes, wire,
                 clients>>

\* The call fails: peer gone, timeout, an error result or an unusable one.
FetchFails(p) ==
  /\ job[p].at = "wait"
  /\ Timeouts \/ peer[job[p].conn] # "open"
  /\ job' = [job EXCEPT ![p].at = "store"]
  /\ Forget(p, job[p].conn)
  /\ UNCHANGED <<bridge, links, spawned, shutdown, page, changes, clients>>

\* The section that stores what was fetched and decides on a trailing re-run.
StoreCatalog(p) ==
  /\ job[p].at = "store"
  /\ LET c == job[p].conn
         k == job[p].kind
         again == sync[c][k].dirty
     IN  /\ catalog' = [catalog EXCEPT ![c][k] = job[p].acc]
         /\ sync' = [sync EXCEPT ![c][k] = [inFlight |-> again, dirty |-> FALSE]]
         /\ job' = [job EXCEPT ![p].at = "rebuild", ![p].again = again]
  /\ UNCHANGED <<registry, naming, routes, links, spawned, shutdown, outside>>

\* notifyChanged, first half: the routing tables, in a section of its own.
JobRebuild(p) ==
  /\ job[p].at = "rebuild"
  /\ RebuildRoutes(providers)
  /\ job' = [job EXCEPT ![p].at = "broadcast"]
  /\ UNCHANGED <<registry, naming, catalogs, links, spawned, shutdown, outside>>

\* notifyChanged, second half; then the loop goes round or ends.
JobBroadcast(p) ==
  /\ job[p].at = "broadcast"
  /\ Broadcast(profileKey[job[p].conn], job[p].kind)
  /\ job' = [job EXCEPT ![p] = IF job[p].again
                               THEN Fetching(job[p].conn, job[p].kind, 1, {})
                               ELSE IdleJob]
  /\ UNCHANGED <<bridge, links, spawned, shutdown, browser, view, call, calls>>

-----------------------------------------------------------------------------
(***************************************************************************)
(* The page behind a provider, and the read loop of its peer.              *)
(***************************************************************************)
\* The page changes a catalog and says so, on a connection that declared the
\* kind (with listChanged, as every provider in this repository does).
PageChanges(c, k) ==
  /\ peer[c] = "open"
  /\ attach[c] \notin {"none", "init"}
  /\ k \in Caps[c]
  /\ changes[c] < MaxChanges
  /\ changes' = [changes EXCEPT ![c] = @ + 1]
  /\ \E names \in Catalogs \ {page[c][k]} : page' = [page EXCEPT ![c][k] = names]
  /\ wire' = [wire EXCEPT ![c] = Append(@, [type |-> "note", kind |-> k])]
  /\ UNCHANGED <<bridge, links, engine, asked, clients>>

\* The page answers any request it has, from the catalog as it is now.
PageAnswers(c) ==
  /\ peer[c] = "open"
  /\ \E r \in asked[c] :
       /\ asked' = [asked EXCEPT ![c] = @ \ {r}]
       /\ wire' = [wire EXCEPT ![c] = Append(@,
            [type |-> "resp", proc |-> r.proc,
             names |-> {n \in page[c][r.kind] : PageOf[n] = r.page},
             more |-> r.page < NumPages])]
  /\ UNCHANGED <<bridge, links, engine, page, changes, clients>>

\* A list_changed notification: a goroutine is spawned for it, unless no
\* handler is registered yet.
ReadNotification(c) ==
  /\ peer[c] = "open"
  /\ wire[c] # <<>> /\ Head(wire[c]).type = "note"
  /\ wire' = [wire EXCEPT ![c] = Tail(@)]
  /\ LET k == Head(wire[c]).kind
     IN  spawned' = IF HandlesNotifications(c)
                    THEN [spawned EXCEPT ![c][k] = @ + 1] ELSE spawned
  /\ UNCHANGED <<bridge, links, job, shutdown, page, changes, asked, clients>>

\* A response: delivered to the caller waiting for it, which is either a fetch
\* (follow the cursor up to MaxCatalogPages, then store) or an agent's call.
ReadResponse(c) ==
  /\ peer[c] = "open"
  /\ wire[c] # <<>> /\ Head(wire[c]).type = "resp"
  /\ wire' = [wire EXCEPT ![c] = Tail(@)]
  /\ LET m == Head(wire[c])
         p == m.proc
     IN  IF p \in Listeners
         THEN /\ call' = [call EXCEPT ![p] = IdleCall]
              /\ UNCHANGED job
         ELSE LET j == job[p]
                  acc == j.acc \cup m.names
              IN  /\ job' = [job EXCEPT ![p] =
                       IF m.more /\ j.page < MaxCatalogPages
                       THEN Fetching(c, j.kind, j.page + 1, acc)
                       ELSE [j EXCEPT !.at = "store", !.acc = acc]]
                  /\ UNCHANGED call
  /\ UNCHANGED <<bridge, links, spawned, shutdown, page, changes, asked, notes,
                 missed, view, calls>>

-----------------------------------------------------------------------------
(***************************************************************************)
(* A peer goes away.                                                       *)
(***************************************************************************)
\* The other side hangs up or the network fails: the read loop ends and enters
\* Peer.shutdown.
Disconnect(p) ==
  /\ peer[p] = "open"
  /\ Shut(p)
  /\ UNCHANGED <<bridge, attach, todo, hangup, sess, engine, outside>>

\* Peer.shutdown reaches p.onClose.Load(): nothing without a handler, else the
\* handler's section; a provider's goes on to notifyChanged for every kind.
ProviderClosed(c) ==
  /\ peer[c] = "closing"
  /\ hangup[c].at = "none"
  /\ IF HandlesClose(c) /\ c \in providers
     THEN /\ providers' = providers \ {c}
          /\ RebuildRoutes(providers')
          /\ CheckIdle(providers', agentConnections)
          /\ hangup' = [hangup EXCEPT ![c] =
                          [at |-> IF KindSeq = <<>> THEN "none" ELSE "rebuild",
                           left |-> KindSeq]]
          /\ peer' = IF KindSeq = <<>> THEN [peer EXCEPT ![c] = "closed"] ELSE peer
     ELSE /\ peer' = [peer EXCEPT ![c] = "closed"]
          /\ UNCHANGED <<providers, routes, idleTimer, hangup>>
  /\ UNCHANGED <<agents, sessions, agentConnections, closed, naming, catalogs,
                 attach, todo, sess, engine, outside>>

HangupRebuild(c) ==
  /\ hangup[c].at = "rebuild"
  /\ RebuildRoutes(providers)
  /\ hangup' = [hangup EXCEPT ![c].at = "broadcast"]
  /\ UNCHANGED <<registry, naming, catalogs, peer, attach, todo, sess, engine,
                 outside>>

HangupBroadcast(c) ==
  /\ hangup[c].at = "broadcast"
  /\ Broadcast(profileKey[c], Head(hangup[c].left))
  /\ LET rest == Tail(hangup[c].left)
     IN  /\ hangup' = [hangup EXCEPT ![c] =
                         [at |-> IF rest = <<>> THEN "none" ELSE "rebuild",
                          left |-> rest]]
         /\ peer' = IF rest = <<>> THEN [peer EXCEPT ![c] = "closed"] ELSE peer
  /\ UNCHANGED <<bridge, attach, todo, sess, engine, browser, view, call,
                 calls>>

\* attachAgent's OnClose, if it is registered by then.
AgentClosed(a) ==
  /\ peer[a] = "closing"
  /\ peer' = [peer EXCEPT ![a] = "closed"]
  /\ IF attach[a] = "served" /\ a \in agents
     THEN /\ agents' = agents \ {a}
          /\ ReleaseSlot
     ELSE UNCHANGED <<agents, agentConnections, idleTimer>>
  /\ UNCHANGED <<providers, sessions, closed, naming, catalogs, routes, attach,
                 todo, hangup, sess, engine, outside>>

-----------------------------------------------------------------------------
(***************************************************************************)
(* Agents and HTTP sessions come and go.                                   *)
(***************************************************************************)
\* attachAgent's first section.
AgentAttach(a) ==
  /\ attach[a] = "none"
  /\ IF Refused
     THEN /\ attach' = [attach EXCEPT ![a] = "failed"]
          /\ peer' = [peer EXCEPT ![a] = "closing"]
          /\ UNCHANGED <<agents, agentConnections, idleTimer>>
     ELSE /\ attach' = [attach EXCEPT ![a] = "built"]
          /\ peer' = [peer EXCEPT ![a] = "open"]
          /\ agents' = agents \cup {a}
          /\ TakeSlot
  /\ UNCHANGED <<providers, sessions, closed, naming, catalogs, routes, todo,
                 hangup, sess, engine, outside>>

\* OnRequest, OnClose and Start: only now does the read loop run.
AgentServe(a) ==
  /\ attach[a] = "built"
  /\ attach' = [attach EXCEPT ![a] = "served"]
  /\ UNCHANGED <<bridge, peer, todo, hangup, sess, engine, outside>>

\* OpenHTTPSession; on a closed bridge it answers ErrBridgeClosed.
OpenHTTPSession(s) ==
  /\ sess[s] = "none"
  /\ IF Refused
     THEN /\ sess' = [sess EXCEPT ![s] = "closed"]
          /\ UNCHANGED <<sessions, agentConnections, idleTimer>>
     ELSE /\ sess' = [sess EXCEPT ![s] = "open"]
          /\ sessions' = sessions \cup {s}
          /\ TakeSlot
  /\ UNCHANGED <<providers, agents, closed, naming, catalogs, routes, peer,
                 attach, todo, hangup, engine, outside>>

\* HTTPSession.Close, section of s.mu: DELETE or expiry.
SessionClose(s) ==
  /\ sess[s] = "open"
  /\ sess' = [sess EXCEPT ![s] = "closing"]
  /\ UNCHANGED <<bridge, peer, attach, todo, hangup, engine, outside>>

\* HTTPSession.Close, section of b.mu.
SessionDeregister(s) ==
  /\ sess[s] = "closing"
  /\ sess' = [sess EXCEPT ![s] = "closed"]
  /\ IF s \in sessions
     THEN /\ sessions' = sessions \ {s}
          /\ ReleaseSlot
     ELSE UNCHANGED <<sessions, agentConnections, idleTimer>>
  /\ UNCHANGED <<providers, agents, closed, naming, catalogs, routes, peer,
                 attach, todo, hangup, engine, outside>>

-----------------------------------------------------------------------------
(***************************************************************************)
(* What agents and sessions ask for.                                       *)
(***************************************************************************)
Live(l) == IF l \in Agents THEN attach[l] = "served" /\ peer[l] = "open"
           ELSE sess[l] = "open"

\* tools/list, prompts/list, resources/list: once, and after a list_changed.
List(l, k) ==
  /\ Live(l)
  /\ view[l][k] = Unlisted \/ k \in notes[l]
  /\ view' = [view EXCEPT ![l][k] = Exposed(profileKey[l], k)]
  /\ notes' = [notes EXCEPT ![l] = @ \ {k}]
  /\ missed' = missed \ {<<l, k>>}
  /\ UNCHANGED <<bridge, links, engine, browser, call, calls>>

\* Every name some provider has or had: from a listing, an older listing, or
\* another partition's agent.
KnownNames(k) ==
  {AgentName(c, k, n) : c \in {d \in Conns : label[d] # NoLabel}, n \in Names}

\* A listener calls a name, which may be stale or not even its partition's.
Call(l, k) ==
  /\ Live(l)
  /\ call[l] = IdleCall
  /\ calls[l] < MaxCalls
  /\ \E name \in KnownNames(k) :
       call' = [call EXCEPT ![l] = [at |-> "route", kind |-> k, name |-> name]]
  /\ calls' = [calls EXCEPT ![l] = @ + 1]
  /\ UNCHANGED <<bridge, links, engine, browser, notes, missed, view>>

\* The route a call's name has now, if its provider is still registered.
Routed(l) ==
  LET key == RouteKey(profileKey[l], call[l].name)
      table == routes[call[l].kind]
  IN  key \in DOMAIN table /\ table[key].prov \in providers

\* The lookup under b.mu succeeds; provider and original name are copied out.
RouteFound(l) ==
  /\ call[l].at = "route"
  /\ Routed(l)
  /\ LET r == routes[call[l].kind][RouteKey(profileKey[l], call[l].name)]
     IN  call' = [call EXCEPT ![l] =
           [at |-> "routed", kind |-> call[l].kind, name |-> call[l].name,
            prov |-> r.prov, orig |-> r.orig]]
  /\ UNCHANGED <<bridge, links, engine, browser, notes, missed, view, calls>>

\* The lookup fails: at once for prompts and resources, and for tools at the
\* first poll after reconnectGrace; until then a tool call stays at "route".
RouteMissing(l) ==
  /\ call[l].at = "route"
  /\ ~Routed(l)
  /\ call' = [call EXCEPT ![l] = IdleCall]
  /\ UNCHANGED <<bridge, links, engine, browser, notes, missed, view, calls>>

\* provider.peer.Call: the write goes out, or fails on a dead peer.
CallSend(l) ==
  /\ call[l].at = "routed"
  /\ LET c == call[l].prov
     IN  IF peer[c] = "open"
         THEN /\ call' = [call EXCEPT ![l].at = "sent"]
              /\ asked' = [asked EXCEPT ![c] = @ \cup
                   {[proc |-> l, kind |-> call[l].kind, page |-> 0]}]
         ELSE /\ call' = [call EXCEPT ![l] = IdleCall]
              /\ UNCHANGED asked
  /\ UNCHANGED <<bridge, links, engine, page, changes, wire, notes, missed,
                 view, calls>>

\* The provider went away, or the agent or the 60 seconds gave up waiting.
CallFails(l) ==
  /\ call[l].at = "sent"
  /\ Timeouts \/ peer[call[l].prov] # "open" \/ ~Live(l)
  /\ Forget(l, call[l].prov)
  /\ call' = [call EXCEPT ![l] = IdleCall]
  /\ UNCHANGED <<bridge, links, engine, page, changes, notes, missed, view,
                 calls>>

-----------------------------------------------------------------------------
(***************************************************************************)
(* Idle shutdown and Close.                                                *)
(***************************************************************************)
\* The timer fires: its function runs in a goroutine of its own and from here
\* on Stop no longer reaches it.
IdleTimerFires ==
  /\ idleTimer = "armed"
  /\ idleTimer' = "fired"
  /\ idleFired' = idleFired + 1
  /\ UNCHANGED <<providers, agents, sessions, agentConnections, closed, naming,
                 catalogs, routes, links, workers, closeTodo, closing, outside>>

\* mutant: only agents are closed
CloseAgentsOnly ==
  IF closed
  THEN UNCHANGED <<closed, idleTimer, closeTodo>>
  ELSE closed' = TRUE /\ idleTimer' = "nil" /\ closeTodo' = agents \cup sessions

\* Close's section: mark closed, stop the timer, take what there is to close.
CloseSection ==
  IF closed
  THEN UNCHANGED <<closed, idleTimer, closeTodo>>
  ELSE /\ closed' = TRUE
       /\ idleTimer' = "nil"
       /\ closeTodo' = providers \cup agents \cup sessions

\* The idle timer's function calls Close.
IdleClose ==
  /\ idleFired > 0
  /\ idleFired' = idleFired - 1
  /\ CloseSection
  /\ UNCHANGED <<providers, agents, sessions, agentConnections, naming,
                 catalogs, routes, links, workers, closing, outside>>

\* The daemon calls Close: /api/shutdown or a signal.
DaemonClose ==
  /\ MayShutdown
  /\ ~closed
  /\ CloseSection
  /\ UNCHANGED <<providers, agents, sessions, agentConnections, naming,
                 catalogs, routes, links, workers, idleFired, closing, outside>>

\* Close goes on to the next victim: providers, then agents, then sessions, each
\* in the random order of a map.
CloseNext(x) ==
  /\ closing = NoOne
  /\ x \in closeTodo
  /\ x \in Agents => closeTodo \cap Conns = {}
  /\ x \in Sessions => closeTodo \subseteq Sessions
  /\ closeTodo' = closeTodo \ {x}
  /\ IF x \in Sessions
     THEN /\ sess' = [sess EXCEPT ![x] = IF @ = "open" THEN "closing" ELSE @]
          /\ closing' = IF sess[x] = "open" THEN x ELSE NoOne
          /\ UNCHANGED peer
     ELSE /\ Shut(x)
          /\ closing' = x
          /\ UNCHANGED sess
  /\ UNCHANGED <<bridge, attach, todo, hangup, workers, idleFired, outside>>

\* The victim's shutdown is over (closeOnce.Do makes every caller wait for it).
CloseReturns ==
  /\ closing # NoOne
  /\ IF closing \in Sessions THEN sess[closing] = "closed"
     ELSE peer[closing] = "closed"
  /\ closing' = NoOne
  /\ UNCHANGED <<bridge, links, workers, idleFired, closeTodo, outside>>

-----------------------------------------------------------------------------
\* New calls CheckIdle on an empty bridge.
Init ==
  /\ providers = {} /\ agents = {} /\ sessions = {}
  /\ agentConnections = 0
  /\ idleTimer = IF IdleTimeout THEN "armed" ELSE "nil"
  /\ closed = FALSE
  /\ profileKey \in Partitions
  /\ label = [c \in Conns |-> NoLabel]
  /\ reserved = EmptyStore
  /\ connectedAt = [c \in Conns |-> 0]
  /\ catalog = [c \in Conns |-> [k \in Kinds |-> {}]]
  /\ sync = [c \in Conns |-> [k \in Kinds |-> [inFlight |-> FALSE, dirty |-> FALSE]]]
  /\ routes = [k \in Kinds |-> <<>>]
  /\ peer = [p \in Peers |-> "none"]
  /\ attach = [p \in Peers |-> "none"]
  /\ todo = [c \in Conns |-> <<>>]
  /\ hangup = [c \in Conns |-> [at |-> "none", left |-> <<>>]]
  /\ sess = [s \in Sessions |-> "none"]
  /\ job = [p \in Procs |-> IdleJob]
  /\ spawned = [c \in Conns |-> [k \in Kinds |-> 0]]
  /\ idleFired = 0
  /\ closeTodo = {}
  /\ closing = NoOne
  /\ page \in [Conns -> [Kinds -> Catalogs]]
  /\ changes = [c \in Conns |-> 0]
  /\ asked = [c \in Conns |-> {}]
  /\ wire = [c \in Conns |-> <<>>]
  /\ notes = [l \in Listeners |-> {}] /\ missed = {}
  /\ view = [l \in Listeners |-> [k \in Kinds |-> Unlisted]]
  /\ call = [l \in Listeners |-> IdleCall]
  /\ calls = [l \in Listeners |-> 0]

AttachStep(c) ==
  \/ Initialized(c) \/ InitializeFails(c) \/ Register(c)
  \/ SetNotificationHandler(c) \/ SetCloseHandler(c) \/ AttachRefresh(c)

RefreshStep(p) ==
  \/ FetchPage(p) \/ FetchFails(p) \/ StoreCatalog(p)
  \/ JobRebuild(p) \/ JobBroadcast(p)

ReadStep(c) == ReadNotification(c) \/ ReadResponse(c)

HangupStep(c) == ProviderClosed(c) \/ HangupRebuild(c) \/ HangupBroadcast(c)

CallStep(l) == RouteFound(l) \/ RouteMissing(l) \/ CallSend(l) \/ CallFails(l)

CloseStep ==
  IdleClose \/ CloseReturns \/ \E x \in Peers \cup Sessions : CloseNext(x)

Next ==
  \/ \E c \in Conns : \/ Connect(c) \/ AttachStep(c) \/ HangupStep(c)
                      \/ ReadStep(c) \/ PageAnswers(c)
                      \/ \E k \in Kinds : PageChanges(c, k)
  \/ \E p \in Runners, c \in Conns, k \in Kinds : SpawnedRefresh(p, c, k)
  \/ \E p \in Procs : RefreshStep(p)
  \/ \E p \in Peers : Disconnect(p)
  \/ \E a \in Agents : AgentAttach(a) \/ AgentServe(a) \/ AgentClosed(a)
  \/ \E s \in Sessions : \/ OpenHTTPSession(s) \/ SessionClose(s)
                         \/ SessionDeregister(s)
  \/ \E l \in Listeners : CallStep(l)
  \/ \E l \in Listeners, k \in Kinds : List(l, k) \/ Call(l, k)
  \/ IdleTimerFires \/ DaemonClose \/ CloseStep

Spec == Init /\ [][Next]_vars
-----------------------------------------------------------------------------
(***************************************************************************)
(* Fairness: goroutines are scheduled, the read loop reads, a live page    *)
(* answers, a client told that a list changed lists again. Nothing makes a *)
(* page change, a socket break, a client call or the daemon stop.          *)
(***************************************************************************)
Fairness ==
  /\ \A c \in Conns :
       /\ WF_vars(AttachStep(c)) /\ WF_vars(HangupStep(c))
       /\ WF_vars(ReadStep(c)) /\ WF_vars(PageAnswers(c))
  /\ \A c \in Conns, k \in Kinds :
       WF_vars(\E p \in Runners : SpawnedRefresh(p, c, k))
  /\ \A p \in Procs : WF_vars(RefreshStep(p))
  /\ \A a \in Agents : WF_vars(AgentServe(a)) /\ WF_vars(AgentClosed(a))
  /\ \A s \in Sessions : WF_vars(SessionDeregister(s))
  /\ \A l \in Listeners, k \in Kinds : WF_vars(List(l, k))
  /\ \A l \in Listeners : WF_vars(CallStep(l))
  /\ WF_vars(CloseStep)

FairSpec == Spec /\ Fairness

-----------------------------------------------------------------------------
(***************************************************************************)
(* Properties.                                                             *)
(***************************************************************************)
Messages ==
  [type : {"note"}, kind : Kinds]
    \cup [type : {"resp"}, proc : Procs \cup Listeners, names : SUBSET Names,
          more : BOOLEAN]

Jobs ==
  {IdleJob} \cup
  [at : {"fetch", "wait", "store", "rebuild", "broadcast"}, conn : Conns,
   kind : Kinds, page : 1..MaxCatalogPages, acc : SUBSET Names, again : BOOLEAN]

\* Every variable has the shape the code gives it.
TypeOK ==
  /\ providers \subseteq Conns /\ agents \subseteq Agents
  /\ sessions \subseteq Sessions
  /\ agentConnections \in Nat
  /\ idleTimer \in {"nil", "armed", "fired"}
  /\ closed \in BOOLEAN
  /\ DOMAIN label = Conns
  /\ Len(reserved) = Cardinality(Keys(reserved))
  /\ connectedAt \in [Conns -> 0..Cardinality(Conns)]
  /\ catalog \in [Conns -> [Kinds -> SUBSET Names]]
  /\ sync \in [Conns -> [Kinds -> [inFlight : BOOLEAN, dirty : BOOLEAN]]]
  /\ DOMAIN routes = Kinds
  /\ peer \in [Peers -> {"none", "open", "closing", "closed"}]
  /\ attach \in [Peers -> {"none", "init", "built", "notify", "onclose",
                           "refresh", "served", "failed"}]
  /\ todo \in [Conns -> Seq(Kinds)]
  /\ hangup \in [Conns -> [at : {"none", "rebuild", "broadcast"}, left : Seq(Kinds)]]
  /\ sess \in [Sessions -> {"none", "open", "closing", "closed"}]
  /\ job \in [Procs -> Jobs]
  /\ spawned \in [Conns -> [Kinds -> Nat]]
  /\ idleFired \in Nat
  /\ closeTodo \subseteq Peers \cup Sessions
  /\ closing \in Peers \cup Sessions \cup {NoOne}
  /\ page \in [Conns -> [Kinds -> Catalogs]]
  /\ \A c \in Conns : \A i \in DOMAIN wire[c] : wire[c][i] \in Messages
  /\ notes \in [Listeners -> SUBSET Kinds] /\ missed \subseteq Sessions \X Kinds

\* The counter checkIdleLocked trusts counts exactly the registered agents and
\* HTTP sessions, whatever closes them and in whatever order.
AgentCountExact == agentConnections = Cardinality(agents) + Cardinality(sessions)

\* The idle timer exists exactly while an open bridge has no provider and no
\* agent: no path forgets to arm it and none leaves it running.
IdleTimerExact == (idleTimer # "nil") <=> (IdleTimeout /\ ~closed /\ Idle)

\* Options.IdleTimeout ("shuts the bridge down after that duration with no
\* connected providers AND no agent connections"): the idle timer's function
\* never closes a bridge that somebody has attached to by then.
IdleCloseOnlyWhenIdle ==
  [][(idleFired' < idleFired /\ ~closed) => Idle]_vars

\* What OnClose is for (mcpwire/peer.go: "registers a callback fired exactly
\* once when the peer shuts down"): no provider outlives its connection.
NoGhostProvider == \A c \in providers : peer[c] # "closed"

\* Two registered providers never share a namespace label, in any partition.
LabelsUnique == \A c, d \in providers : label[c] = label[d] => c = d

\* Every route leads to a registered provider of the key's partition whose name
\* for the routed entry is the key's; and every variable has its type.
RoutesSound ==
  /\ TypeOK
  /\ \A k \in Kinds : \A key \in DOMAIN routes[k] :
       LET r == routes[k][key]
       IN  /\ r.prov \in providers
           /\ key = <<profileKey[r.prov], AgentName(r.prov, k, r.orig)>>

\* What an agent calls is forwarded, however the provider came and went in the
\* meantime, only inside its partition and to the provider and entry named.
CallsStayNamed ==
  \A l \in Listeners :
    call[l].at \in {"routed", "sent"} =>
      LET c == call[l].prov
      IN  /\ profileKey[c] = profileKey[l]
          /\ AgentName(c, call[l].kind, call[l].orig) = call[l].name

\* refreshCatalog's promise: at most one fetch per kind per provider is in
\* flight, so no two can commit out of order.
Fetches(p) == job[p].at \in {"fetch", "wait", "store"}

OneFetchPerCatalog ==
  \A p, q \in Procs :
    (Fetches(p) /\ Fetches(q)
       /\ job[p].conn = job[q].conn /\ job[p].kind = job[q].kind) => p = q

\* Something is still on its way that will refresh catalog k of c.
RefreshPending(c, k) ==
  \/ attach[c] # "served"
  \/ spawned[c][k] > 0
  \/ \E p \in Procs : job[p] # IdleJob /\ job[p].conn = c /\ job[p].kind = k
  \/ \E i \in DOMAIN wire[c] : wire[c][i] = [type |-> "note", kind |-> k]

\* No list_changed is lost, not even one that arrives during a fetch or before
\* the handlers are registered: once nothing is on its way, the stored catalog
\* is the page's.
NoStaleCatalog ==
  \A c \in providers, k \in Kinds :
    (peer[c] = "open" /\ k \in Caps[c] /\ ~RefreshPending(c, k)) =>
      catalog[c][k] = page[c][k]

\* A notifyChanged of kind k in this partition is under way.
NotifyPending(profile, k) ==
  \/ \E p \in Procs :
       /\ job[p].at \in {"rebuild", "broadcast"}
       /\ job[p].kind = k /\ profileKey[job[p].conn] = profile
  \/ \E c \in Conns : profileKey[c] = profile /\ k \in ToSet(hangup[c].left)

\* Agents converge: what an agent or a session last listed is what the bridge exposes
\* to its partition, unless a list_changed for it is under way. Only a session may be
\* out of date without being told, and only once its notification was lost.
NoStaleListing ==
  \A l \in Listeners, k \in Kinds :
    (Live(l) /\ view[l][k] # Unlisted /\ k \notin notes[l] /\ <<l, k>> \notin missed
       /\ ~NotifyPending(profileKey[l], k)) =>
      view[l][k] = Exposed(profileKey[l], k)

\* The comment in rebuildRoutesLocked: what is advertised is what is routed to.
\* Outside the window between a store and its rebuild, each entry an agent can
\* list is routed to the provider it was listed from, and nothing else is routed.
RebuildPending ==
  \/ \E p \in Procs : job[p].at = "rebuild"
  \/ \E c \in Conns : hangup[c].at = "rebuild"

AdvertisedIsRouted ==
  ~RebuildPending =>
    \A k \in Kinds :
      LET profiles == {profileKey[c] : c \in Conns}
          listed(pr) == {[key |-> <<pr, e.name>>, prov |-> e.prov] :
                           e \in Exposed(pr, k)}
          advertised == UNION {listed(pr) : pr \in profiles}
          routed == {[key |-> key, prov |-> routes[k][key].prov] :
                       key \in DOMAIN routes[k]}
      IN  advertised = routed

\* A closed bridge registers nobody any more.
ClosedForGood ==
  [][closed => /\ closed'
               /\ providers' \subseteq providers
               /\ agents' \subseteq agents /\ sessions' \subseteq sessions]_vars

\* Close tears down every connection, those still being attached included.
CloseReachesEveryPeer ==
  \A p \in Peers : (closed /\ peer[p] = "open") ~> (peer[p] = "closed")

\* Once pages stop changing, every live provider's catalog and every live agent's
\* listing of it become and stay current, and so does the listing of every session
\* that has lost no notification.
EventuallyCurrent ==
  /\ \A c \in Conns, k \in Kinds :
       <>[](attach[c] = "served" /\ peer[c] = "open" /\ k \in Caps[c]
              => catalog[c][k] = page[c][k])
  /\ \A l \in Listeners, k \in Kinds :
       <>[](Live(l) /\ <<l, k>> \notin missed
              => view[l][k] = Exposed(profileKey[l], k))
=============================================================================
