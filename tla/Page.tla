-------------------------------- MODULE Page --------------------------------
(***************************************************************************)
(* The page's end (packages/extension/src): document.modelContext with its *)
(* polyfill (webmcp.ts), the ToolMirror that follows it (tool-mirror.ts),  *)
(* the embedded MCP server (embedded-server.ts) with the tunnels it is     *)
(* connected to (tunnel.ts), and the control messages (inject.ts).         *)
(*                                                                         *)
(* A tool is a name with a definition. A tunnel is a session of whoever is *)
(* at its far end; tool calls change none of this state. One action is the *)
(* code between two awaits, a microtask, or a message. Reads do not fail,  *)
(* as the polyfill's never do.                                             *)
(***************************************************************************)
EXTENDS Naturals, Sequences, FiniteSets

CONSTANTS
  Names, Defs,          \* tools a page may register, and their definitions
  Nothing,
  MaxServers, MaxTunnels,
  Budgets

Servers == 1..MaxServers
Tunnels == 1..MaxTunnels
Tools == [Names -> Defs \cup {Nothing}]
Empty == [n \in Names |-> Nothing]

PageBounds == MaxServers \in Nat \ {0} /\ MaxTunnels \in Nat

VARIABLES
  context,      \* what is registered with document.modelContext
  changeQueued, \* a toolchange event is to be dispatched
  activated, toolset,   \* what the last control message said
  embedded,     \* the embedded server, 0 if none
  generation,
  server,       \* per server: toolset, tools, tunnel, whether initialized
  notice,       \* servers with a queued list_changed
  tunnel,    \* per tunnel: its server, whether opened and attached
  mirror,       \* registered, queued, pc, dirty, read
  closing,      \* closes of a server that something waits for
  listed, far,  \* per tunnel: what its far end has listed, and how it stands
  left

serverVars == <<embedded, generation, server, notice, tunnel>>
peerVars == <<listed, far>>
vars == <<context, changeQueued, activated, toolset, serverVars, mirror, closing,
          peerVars, left>>

NoServer == [toolset |-> FALSE, tools |-> Empty, at |-> 0, initialized |-> FALSE]
NoTunnel == [of |-> 0, opened |-> FALSE, attached |-> FALSE]
Forgotten == [n \in Names |-> [def |-> Nothing, gen |-> 0]]

Spend(what) == left[what] > 0 /\ left' = [left EXCEPT ![what] = @ - 1]

-----------------------------------------------------------------------------
(***************************************************************************)
(* document.modelContext.                                                  *)
(***************************************************************************)
\* registerTool rejects a name that is taken.
RegisterTool(n, d) ==
  /\ context[n] = Nothing /\ Spend("registers")
  /\ context' = [context EXCEPT ![n] = d]
  /\ changeQueued' = TRUE
  /\ UNCHANGED <<activated, toolset, serverVars, mirror, closing, peerVars>>

UnregisterTool(n) ==
  /\ context[n] # Nothing /\ Spend("registers")
  /\ context' = [context EXCEPT ![n] = Nothing]
  /\ changeQueued' = TRUE
  /\ UNCHANGED <<activated, toolset, serverVars, mirror, closing, peerVars>>

\* A synchronous burst is one event; the mirror is told to sync.
NotifyToolChange ==
  /\ changeQueued
  /\ changeQueued' = FALSE
  /\ mirror' = [mirror EXCEPT !.queued = TRUE]
  /\ UNCHANGED <<context, activated, toolset, serverVars, closing, peerVars, left>>

-----------------------------------------------------------------------------
(***************************************************************************)
(* The embedded server and its tunnels. A world is what they hold.      *)
(***************************************************************************)
World == [embedded |-> embedded, generation |-> generation, server |-> server,
          notice |-> notice, tunnel |-> tunnel]
Becomes(w) ==
  /\ embedded' = w.embedded /\ generation' = w.generation /\ server' = w.server
  /\ notice' = w.notice /\ tunnel' = w.tunnel

FreshServer(w) == w.generation + 1     \* one server per generation at most
FreshTunnel(w) == Cardinality({t \in Tunnels : w.tunnel[t].of # 0}) + 1

\* connect: the previous tunnel is detached, but not closed.
Connect(w, s) ==
  LET t == FreshTunnel(w)
      old == w.server[s].at IN
  [w EXCEPT !.server[s].at = t,
            !.tunnel = [u \in Tunnels |->
              IF u = t THEN [of |-> s, opened |-> activated', attached |-> TRUE]
              ELSE IF u = old THEN [@[u] EXCEPT !.attached = FALSE] ELSE @[u]]]

\* close, and what a tunnel's onclose does to its server.
Disconnect(w, s) ==
  LET t == w.server[s].at IN
  IF t = 0 THEN w
  ELSE [w EXCEPT !.server[s].at = 0, !.server[s].initialized = FALSE,
                 !.tunnel[t].opened = FALSE, !.tunnel[t].attached = FALSE]

\* embeddedServer: made on first use, connected whenever it is down.
EmbeddedServer(w) ==
  LET s == FreshServer(w)
      made == IF w.embedded # 0 THEN w
              ELSE [w EXCEPT !.embedded = s,
                             !.server[s] = [NoServer EXCEPT !.toolset = toolset']] IN
  IF activated' /\ made.server[made.embedded].at = 0 THEN Connect(made, made.embedded)
  ELSE made

RetireEmbedded(w) == [w EXCEPT !.embedded = 0, !.generation = @ + 1]

\* sendToolListChanged, once per microtask; an uninitialized server says nothing.
SendToolListChanged(s) ==
  /\ s \in notice
  /\ notice' = notice \ {s}
  /\ far' = [t \in Tunnels |->
               IF server[s].at = t /\ server[s].initialized /\ far[t] = "listed"
               THEN "told" ELSE far[t]]
  /\ UNCHANGED <<context, changeQueued, activated, toolset, embedded, generation,
                 server, tunnel, mirror, closing, listed, left>>

\* Room for what the next step may have to make: a bound of the model.
Room == FreshServer(World) \in Servers /\ FreshTunnel(World) \in Tunnels

-----------------------------------------------------------------------------
(***************************************************************************)
(* ToolMirror.                                                             *)
(***************************************************************************)
\* sync: one run at a time, a second request makes the first go round again.
Sync(m) == IF m.pc = "reading" THEN [m EXCEPT !.dirty = TRUE]
           ELSE [m EXCEPT !.pc = "reading", !.dirty = FALSE, !.read = context]

Scheduled ==
  /\ mirror.queued
  /\ mirror' = Sync([mirror EXCEPT !.queued = FALSE])
  /\ UNCHANGED <<context, changeQueued, activated, toolset, serverVars, closing,
                 peerVars, left>>

\* mutant: what a retired server had is taken to be registered still
Trusts(entry, gen) == entry.def # Nothing

\* Whether an entry is about the server that is there now.
Current(entry, gen) == entry.def # Nothing /\ entry.gen = gen

\* What the server of w ends up with, and whether anything was changed on it.
Reconcile(w) ==
  LET s == w.embedded
      same(n) == Current(mirror.registered[n], w.generation)
      known(n) == IF same(n) THEN mirror.registered[n].def ELSE Nothing
      now(n) == IF known(n) = mirror.read[n] THEN w.server[s].tools[n] ELSE mirror.read[n]
  IN [w EXCEPT !.server[s].tools = [n \in Names |-> now(n)],
               !.notice = IF \E n \in Names : known(n) # mirror.read[n]
                          THEN @ \cup {s} ELSE @]

\* The read is there, and the target is looked at only now.
SyncDone ==
  /\ mirror.pc = "reading" /\ Room
  /\ UNCHANGED <<context, changeQueued, activated, toolset, closing, peerVars, left>>
  /\ LET w == EmbeddedServer(World)
         kept == [n \in Names |-> [def |-> mirror.read[n], gen |-> w.generation]]
         next(m) == IF m.dirty THEN [m EXCEPT !.dirty = FALSE, !.read = context]
                    ELSE [m EXCEPT !.pc = "rest", !.read = Empty]
     IN IF activated
        THEN /\ Becomes(Reconcile(w))
             /\ mirror' = next([mirror EXCEPT !.registered = kept])
        ELSE /\ mirror' = [mirror EXCEPT !.registered = Forgotten, !.pc = "rest",
                                         !.read = Empty, !.dirty = FALSE]
             /\ UNCHANGED serverVars

-----------------------------------------------------------------------------
(***************************************************************************)
(* Control messages and knobs.                                             *)
(***************************************************************************)
\* rebuildEmbeddedForToolset: a server of its own for the new set of tools.
Rebuild ==
  IF embedded = 0
  THEN /\ mirror' = [mirror EXCEPT !.queued = TRUE] /\ Becomes(RetireEmbedded(World))
       /\ UNCHANGED closing
  ELSE /\ Becomes(Disconnect(RetireEmbedded(World), embedded))
       /\ closing' = closing \cup {[what |-> "rebuild", of |-> embedded, gen |-> generation]}
       /\ UNCHANGED mirror

\* activateAll.
ActivateAll ==
  /\ Becomes(EmbeddedServer(World))
  /\ mirror' = Sync(mirror)
  /\ UNCHANGED closing

Activate(ts) ==
  /\ Spend("activates") /\ Room
  /\ activated' = TRUE /\ toolset' = ts
  /\ IF activated /\ ts # toolset THEN Rebuild ELSE ActivateAll
  /\ UNCHANGED <<context, changeQueued, peerVars>>

\* deactivateAll: every tunnel is closed.
Deactivate ==
  /\ activated /\ Spend("activates")
  /\ activated' = FALSE
  /\ LET w == World IN
     Becomes([w EXCEPT
       !.server = [s \in Servers |->
                     IF @[s].at # 0 THEN [@[s] EXCEPT !.at = 0, !.initialized = FALSE]
                     ELSE @[s]],
       !.tunnel = [t \in Tunnels |->
                        [@[t] EXCEPT !.opened = FALSE, !.attached = FALSE]]])
  /\ UNCHANGED <<context, changeQueued, toolset, mirror, closing, peerVars>>

\* setLabel to another label has the server connect anew.
SetLabel ==
  /\ activated /\ embedded # 0 /\ server[embedded].at # 0 /\ Spend("labels")
  /\ Becomes(Disconnect(World, embedded))
  /\ closing' = closing \cup {[what |-> "reconnect", of |-> embedded, gen |-> generation]}
  /\ UNCHANGED <<context, changeQueued, activated, toolset, mirror, peerVars>>

\* What waits for the close goes on: whatever happened meanwhile.
Closed(c) ==
  /\ UNCHANGED <<context, changeQueued, activated, toolset, peerVars, left>>
  /\ closing' = closing \ {c}
  /\ IF c.what = "rebuild"
     THEN /\ mirror' = IF activated THEN Sync(mirror) ELSE mirror
          /\ UNCHANGED serverVars
     ELSE /\ UNCHANGED mirror
          /\ IF activated /\ generation = c.gen /\ embedded = c.of
             THEN Room /\ Becomes(Connect(World, c.of)) ELSE UNCHANGED serverVars

\* remoteClosed: the worker says that the session is over.
RemoteClosed(t) ==
  /\ tunnel[t].opened /\ Spend("closes")
  /\ LET s == tunnel[t].of IN
     Becomes(IF tunnel[t].attached /\ server[s].at = t THEN Disconnect(World, s)
             ELSE [World EXCEPT !.tunnel[t].opened = FALSE])
  /\ UNCHANGED <<context, changeQueued, activated, toolset, mirror, closing, peerVars>>

-----------------------------------------------------------------------------
(***************************************************************************)
(* Requests: handle and dispatch. Only an attached tunnel is heard.     *)
(***************************************************************************)
Heard(t) == tunnel[t].opened /\ tunnel[t].attached

Initialize(t) ==
  /\ Heard(t) /\ far[t] = "new"
  /\ server' = [server EXCEPT ![tunnel[t].of].initialized = TRUE]
  /\ far' = [far EXCEPT ![t] = "told"]      \* the far end lists next
  /\ UNCHANGED <<context, changeQueued, activated, toolset, embedded, generation,
                 notice, tunnel, mirror, closing, listed, left>>

ListTools(t) ==
  /\ Heard(t) /\ far[t] = "told"
  /\ listed' = [listed EXCEPT ![t] = server[tunnel[t].of].tools]
  /\ far' = [far EXCEPT ![t] = "listed"]
  /\ UNCHANGED <<context, changeQueued, activated, toolset, serverVars, mirror,
                 closing, left>>

-----------------------------------------------------------------------------
Init ==
  /\ context = Empty /\ changeQueued = FALSE
  /\ activated = FALSE /\ toolset = FALSE
  /\ embedded = 0 /\ generation = 0
  /\ server = [s \in Servers |-> NoServer] /\ notice = {}
  /\ tunnel = [t \in Tunnels |-> NoTunnel]
  /\ mirror = [registered |-> Forgotten, queued |-> FALSE, pc |-> "rest",
               dirty |-> FALSE, read |-> Empty]
  /\ closing = {}
  /\ listed = [t \in Tunnels |-> Empty] /\ far = [t \in Tunnels |-> "new"]
  /\ left \in Budgets

Next ==
  \/ \E n \in Names, d \in Defs : RegisterTool(n, d)
  \/ \E n \in Names : UnregisterTool(n)
  \/ NotifyToolChange \/ Scheduled \/ SyncDone
  \/ \E s \in Servers : SendToolListChanged(s)
  \/ \E ts \in BOOLEAN : Activate(ts)
  \/ Deactivate \/ SetLabel
  \/ \E c \in closing : Closed(c)
  \/ \E t \in Tunnels : RemoteClosed(t) \/ Initialize(t) \/ ListTools(t)

Spec == Init /\ [][Next]_vars

-----------------------------------------------------------------------------
\* Types: the embedded server, its tunnel and what is listed there exist.
TypeOK ==
  /\ context \in Tools /\ changeQueued \in BOOLEAN
  /\ activated \in BOOLEAN /\ toolset \in BOOLEAN
  /\ embedded \in {0} \cup Servers /\ generation \in Nat
  /\ server \in [Servers -> [toolset : BOOLEAN, tools : Tools,
                             at : {0} \cup Tunnels, initialized : BOOLEAN]]
  /\ notice \subseteq Servers
  /\ mirror.pc \in {"rest", "reading"} /\ mirror.read \in Tools
  /\ listed \in [Tunnels -> Tools] /\ far \in [Tunnels -> {"new", "told", "listed"}]

\* Nothing of the page is under way, and its far end has read what it was told.
Settled ==
  /\ ~changeQueued /\ ~mirror.queued /\ mirror.pc = "rest"
  /\ notice = {} /\ closing = {}
  /\ \A t \in Tunnels : Heard(t) => far[t] = "listed"

\* The header of tool-mirror.ts ("the tab looks enabled, the page looks registered,
\* and the agent sees nothing"): once things have settled, whoever is connected to
\* the page has listed every tool the page has registered, as it is now, although
\* reads, rebuilds of the server, changes of the label and sessions overlap.
RegisteredToolsArrive ==
  (Settled /\ activated) =>
    \A t \in Tunnels, n \in Names :
      Heard(t) /\ context[n] # Nothing => listed[t][n] = context[n]
=============================================================================
