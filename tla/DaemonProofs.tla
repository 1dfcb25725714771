---------------------------- MODULE DaemonProofs ----------------------------
(***************************************************************************)
(* Theorems about Daemon: the pid file is tidy and proxies are served, for *)
(* any number of agents, daemons and stop commands.                        *)
(***************************************************************************)
EXTENDS Daemon, TLAPS

\* Listening daemons have passed Listen and not yet left the port.
HoldsPort(d) == main[d] \in {"listening", "serving", "leaving"}

\* The part of the types that the argument needs.
Shape ==
  /\ main \in [Daemons -> {"none", "start", "listening", "serving", "leaving",
                           "closing", "kicking", "ending", "exited", "lost",
                           "crashed"}]
  /\ bridge \in [Daemons -> {"up", "closed"}]
  /\ agent \in [Agents -> {"idle", "token", "select", "poll", "ready", "exited",
                           "failed", "proxy", "done"}]
  /\ idle \in [Daemons -> {"no", "fired", "kick", "closed", "over"}]
  /\ closer \in [Daemons -> {"no", "listener", "bridge", "kick", "cancel", "over"}]
  /\ attached \in [Agents -> Daemons \cup {NoOne}] /\ registered \subseteq Agents
  /\ pidFile \in Daemons \cup {NoOne}

\* An agent spawns its daemon once; who listens is a process that runs.
Order ==
  /\ \A a \in Agents : agent[a] = "idle" => main[a] = "none"
  /\ \A d \in Daemons : listener = d => HoldsPort(d)

\* Who has a connection has listened; only proxies have one, and only who has one is
\* registered.
Connected ==
  /\ \A a \in Agents : attached[a] # NoOne => main[attached[a]] # "start"
  /\ \A a \in Agents : agent[a] # "proxy" => attached[a] = NoOne
  /\ \A a \in registered : attached[a] # NoOne

Inv == Shape /\ Order /\ Connected /\ PidFileIsTidy /\ ProxiesAreServed

\* Names of processes are told apart from NoOne and Foreign.
LEMMA Distinct ==
  /\ NoOne \notin Daemons /\ Foreign \notin Daemons /\ NoOne # Foreign
  /\ Agents \cap Manual = {} /\ Agents \subseteq Daemons /\ Manual \subseteq Daemons
BY ProcessesDistinct DEF Processes, Daemons

\* Whatever leaves processes, port, pid file, bridges and connections alone, stops
\* nobody from hanging up and makes no agent idle keeps the invariant.
Quiet ==
  /\ UNCHANGED <<listener, pidFile, main, bridge, attached, registered>>
  /\ idle' \in [Daemons -> {"no", "fired", "kick", "closed", "over"}]
  /\ closer' \in [Daemons -> {"no", "listener", "bridge", "kick", "cancel", "over"}]
  /\ \A d \in Daemons : Kicking(d) => Kicking(d)' \/ Sessions(d) = {}
  /\ agent' \in [Agents -> {"idle", "token", "select", "poll", "ready", "exited",
                            "failed", "proxy", "done"}]
  /\ \A a \in Agents : /\ agent'[a] = "idle" => agent[a] = "idle"
                       /\ agent'[a] # "proxy" => agent[a] # "proxy"

LEMMA QuietKeepsInv == ASSUME Inv, Quiet PROVE Inv'
<1>0. /\ UNCHANGED <<listener, pidFile, main, bridge, attached, registered>>
      /\ idle' \in [Daemons -> {"no", "fired", "kick", "closed", "over"}]
      /\ closer' \in [Daemons -> {"no", "listener", "bridge", "kick", "cancel", "over"}]
      /\ agent' \in [Agents -> {"idle", "token", "select", "poll", "ready", "exited",
                                "failed", "proxy", "done"}]
      /\ \A a \in Agents : /\ agent'[a] = "idle" => agent[a] = "idle"
                           /\ agent'[a] # "proxy" => agent[a] # "proxy"
  BY DEF Quiet
<1>1. Shape' /\ Order' /\ PidFileIsTidy'
  BY <1>0 DEF Inv, Shape, Order, HoldsPort, PidFileIsTidy
<1>2. Connected' BY <1>0 DEF Inv, Shape, Connected
<1>3. ProxiesAreServed'
  BY <1>0 DEF Inv, Shape, Quiet, Kicking, ProxiesAreServed, Runs, Upgraded, Sessions
<1> QED BY <1>1, <1>2, <1>3 DEF Inv

\* Nobody gets a connection, and whoever loses one is no longer registered.
LEMMA DisconnectKeeps ==
  ASSUME Inv, NEW as \in SUBSET Agents, Disconnect(as)
  PROVE /\ attached' \in [Agents -> Daemons \cup {NoOne}] /\ registered' \subseteq Agents
        /\ \A a \in Agents : /\ attached'[a] # NoOne => attached'[a] = attached[a] /\ a \notin as
                             /\ a \notin as => (a \in registered' <=> a \in registered)
        /\ \A a \in registered' : a \in Agents /\ attached'[a] # NoOne
BY Distinct DEF Disconnect, Inv, Shape, Connected

LEMMA HangingUpKeepsInv ==
  ASSUME Inv, NEW as \in SUBSET Agents, Disconnect(as),
         UNCHANGED <<listener, pidFile, main, bridge, idle, closer>>,
         \/ UNCHANGED agent
         \/ \E a \in as : agent[a] = "proxy" /\ agent' = [agent EXCEPT ![a] = "done"]
  PROVE Inv'
<1>0. /\ attached' \in [Agents -> Daemons \cup {NoOne}] /\ registered' \subseteq Agents
      /\ \A a \in Agents : /\ attached'[a] # NoOne => attached'[a] = attached[a] /\ a \notin as
                           /\ a \notin as => (a \in registered' <=> a \in registered)
      /\ \A a \in registered' : a \in Agents /\ attached'[a] # NoOne
  BY DisconnectKeeps
<1>1. Shape'
  <2>1. CASE UNCHANGED agent BY <1>0, <2>1 DEF Inv, Shape
  <2>2. ASSUME NEW a \in as, agent' = [agent EXCEPT ![a] = "done"] PROVE Shape'
    BY <1>0, <2>2 DEF Inv, Shape
  <2> QED BY <2>1, <2>2
<1>2. Order' /\ PidFileIsTidy'
  <2>1. \A a \in Agents : agent'[a] = "idle" => agent[a] = "idle" BY DEF Inv, Shape
  <2> QED BY <2>1 DEF Inv, Shape, Order, HoldsPort, PidFileIsTidy
<1>3. Connected'
  <2>1. \A a \in Agents : attached'[a] # NoOne => main'[attached'[a]] # "start"
    <3>1. main' = main OBVIOUS
    <3> QED BY <3>1, <1>0 DEF Inv, Connected
  <2>2. \A a \in Agents : agent'[a] # "proxy" => agent[a] # "proxy" \/ a \in as
    BY DEF Inv, Shape
  <2>3. \A a \in Agents : agent'[a] # "proxy" => attached'[a] = NoOne
    BY <1>0, <2>2 DEF Inv, Connected
  <2> QED BY <1>0, <2>1, <2>3 DEF Connected
<1>4. \A d \in Daemons : (Runs(d) => Runs(d)') /\ (Kicking(d) => Kicking(d)')
  BY DEF Runs, Kicking
<1>5. ProxiesAreServed'
  <2>1. ASSUME NEW a \in Agents, NEW d, d = attached'[a], d # NoOne
        PROVE Runs(d)' /\ (bridge'[d] = "up" \/ a \notin registered' \/ Kicking(d)')
    <3>1. d = attached[a] /\ (a \in registered' <=> a \in registered) BY <1>0, <2>1
    <3>2. d \in Daemons BY <2>1, <3>1 DEF Inv, Shape
    <3>3. Runs(d) /\ (bridge[d] = "up" \/ a \notin registered \/ Kicking(d))
      BY <3>1, <2>1 DEF Inv, ProxiesAreServed, Upgraded
    <3>4. bridge' = bridge OBVIOUS
    <3> QED BY <3>1, <3>2, <3>3, <3>4, <1>4
  <2> QED BY <2>1 DEF ProxiesAreServed, Upgraded, Runs, Kicking
<1> QED BY <1>1, <1>2, <1>3, <1>5 DEF Inv

\* A process that starts is one that nobody names: its agent, if it has one, waits.
LEMMA StartKeepsInv ==
  ASSUME Inv, NEW d \in Daemons, main[d] = "none", main' = [main EXCEPT ![d] = "start"],
         \A b \in Agents : attached[b] # d,
         UNCHANGED <<listener, pidFile, bridge, idle, closer, attached, registered>>,
         agent' = agent \/ (agent[d] = "idle" /\ agent' = [agent EXCEPT ![d] = "select"]),
         d \in Agents => agent'[d] # "idle"
  PROVE Inv'
<1> USE Distinct
<1>1. Shape' BY DEF Inv, Shape
<1>2. Order' /\ Connected' BY DEF Inv, Shape, Order, Connected, HoldsPort
<1>3. PidFileIsTidy' BY DEF Inv, Shape, PidFileIsTidy
<1>4. ProxiesAreServed'
  BY DEF Inv, Shape, ProxiesAreServed, Upgraded, Runs, Kicking
<1> QED BY <1>1, <1>2, <1>3, <1>4 DEF Inv

\* A process that ends leaves nobody connected to it.
LEMMA DroppingKeepsInv ==
  ASSUME Inv, NEW d \in Daemons, NEW end \in {"exited", "crashed"},
         main' = [main EXCEPT ![d] = end], main[d] # "none",
         main[d] \in {"kicking", "ending"} \/ end = "crashed",
         UNCHANGED <<pidFile, bridge, idle, closer, agent>>,
         listener' = listener \/ listener' = (IF listener = d THEN NoOne ELSE listener),
         end = "crashed" => listener' # d,
         Disconnect({a \in Agents : attached[a] = d})
  PROVE Inv'
<1> USE Distinct
<1>0. /\ attached' \in [Agents -> Daemons \cup {NoOne}] /\ registered' \subseteq Agents
      /\ \A a \in Agents :
           /\ attached'[a] # NoOne => attached'[a] = attached[a] /\ attached[a] # d
           /\ attached[a] # d => (a \in registered' <=> a \in registered)
      /\ \A a \in registered' : a \in Agents /\ attached'[a] # NoOne
  BY DisconnectKeeps
<1>1. Shape' BY <1>0 DEF Inv, Shape
<1>2. Order'
  <2>1. \A a \in Agents : agent'[a] = "idle" => main'[a] = "none" BY DEF Inv, Shape, Order
  <2>2. \A c \in Daemons : listener' = c => HoldsPort(c)'
    BY DEF Inv, Shape, Order, HoldsPort
  <2> QED BY <2>1, <2>2 DEF Order
<1>3. Connected' BY <1>0 DEF Inv, Shape, Connected
<1>4. PidFileIsTidy' BY DEF Inv, Shape, PidFileIsTidy
<1>5. \A c \in Daemons : c # d => (Runs(c) => Runs(c)') /\ (Kicking(c) => Kicking(c)')
  BY DEF Inv, Shape, Runs, Kicking
<1>6. ProxiesAreServed'
  <2>1. ASSUME NEW a \in Agents, attached'[a] # NoOne
        PROVE LET c == attached[a] IN
              /\ attached'[a] = c /\ Runs(c)'
              /\ bridge'[c] = "up" \/ Upgraded(a)' \/ Kicking(c)'
    <3>1. /\ attached'[a] = attached[a] /\ attached[a] # d
          /\ a \in registered' <=> a \in registered
      BY <1>0, <2>1
    <3>2. attached[a] \in Daemons BY <2>1, <3>1 DEF Inv, Shape
    <3> QED BY <3>1, <3>2, <2>1, <1>5 DEF Inv, ProxiesAreServed, Upgraded
  <2> QED BY <2>1 DEF ProxiesAreServed, Runs, Kicking
<1> QED BY <1>1, <1>2, <1>3, <1>4, <1>6 DEF Inv

-----------------------------------------------------------------------------
(***************************************************************************)
(* Steps of a daemon process.                                              *)
(***************************************************************************)
\* The places of the three callers of Close.
CallerPlaces ==
  /\ idle' \in [Daemons -> {"no", "fired", "kick", "closed", "over"}]
  /\ closer' \in [Daemons -> {"no", "listener", "bridge", "kick", "cancel", "over"}]

\* A caller of Close other than the main goroutine goes on: what it leaves alone stays.
LEMMA CallerKeepsInv ==
  ASSUME Inv, CallerPlaces, UNCHANGED <<listener, pidFile, main, agent, connections>>,
         bridge' \in [Daemons -> {"up", "closed"}],
         \A c \in Daemons : \/ Kicking(c)'
                            \/ Sessions(c) = {}
                            \/ bridge'[c] = bridge[c] /\ ~Kicking(c)
  PROVE Inv'
<1>1. Shape' /\ Order' /\ Connected' /\ PidFileIsTidy'
  BY DEF Inv, CallerPlaces, connections, Shape, Order, Connected, HoldsPort, PidFileIsTidy
<1>2. ProxiesAreServed'
  BY DEF Inv, Shape, connections, ProxiesAreServed, Runs, Upgraded, Sessions
<1> QED BY <1>1, <1>2 DEF Inv

LEMMA MainKeepsInv == ASSUME Inv, NEW d \in Daemons, MainStep(d) PROVE Inv'
<1> USE Distinct
<1>1. ASSUME main[d] \in {"start", "listening", "serving", "leaving"},
             NEW where \in {"listening", "serving", "leaving", "closing"},
             main' = [main EXCEPT ![d] = where],
             UNCHANGED <<bridge, idle, closer, agents>>,
             pidFile' \in Daemons \cup {NoOne}, PidFileIsTidy',
             \A c \in Daemons : listener' = c => HoldsPort(c)'
      PROVE Inv'
  <2>1. Shape' BY <1>1 DEF Inv, Shape, agents, connections
  <2>2. Order' /\ Connected' BY <1>1 DEF Inv, Shape, Order, Connected, agents, connections
  <2>3. \A c \in Daemons : /\ Runs(c) => Runs(c)'
                           /\ Kicking(c) => Kicking(c)'
    BY <1>1 DEF Inv, Shape, Runs, Kicking
  <2>4. ProxiesAreServed'
    BY <1>1, <2>3 DEF Inv, Shape, ProxiesAreServed, Upgraded, agents, connections
  <2> QED BY <1>1, <2>1, <2>2, <2>4 DEF Inv
<1>2. CASE Listen(d)
  <2>1. CASE listener = NoOne
    <3>1. /\ main' = [main EXCEPT ![d] = "listening"] /\ listener' = d /\ main[d] = "start"
          /\ UNCHANGED <<pidFile, bridge, idle, closer, agents>>
      BY <1>2, <2>1 DEF Listen
    <3>2. PidFileIsTidy' BY <3>1 DEF Inv, Shape, PidFileIsTidy
    <3>3. \A c \in Daemons : listener' = c => HoldsPort(c)'
      BY <3>1 DEF Inv, Shape, HoldsPort
    <3> QED BY <3>1, <3>2, <3>3, <1>1 DEF Inv, Shape
  <2>2. CASE listener # NoOne
    <3>1. /\ main' = [main EXCEPT ![d] = "lost"] /\ UNCHANGED listener /\ main[d] = "start"
          /\ UNCHANGED <<pidFile, bridge, idle, closer, agents>>
      BY <1>2, <2>2 DEF Listen, LoseThePort
    <3>2. Shape' /\ Order' /\ Connected' /\ PidFileIsTidy'
      BY <3>1
      DEF Inv, Shape, Order, Connected, PidFileIsTidy, HoldsPort, agents, connections
    <3>3. \A a \in Agents : attached[a] # d
      BY <3>1 DEF Inv, Connected
    <3>4. ProxiesAreServed'
      BY <3>1, <3>3
      DEF Inv, Shape, ProxiesAreServed, Upgraded, Runs, Kicking, agents, connections
    <3> QED BY <3>2, <3>4 DEF Inv
  <2> QED BY <2>1, <2>2
<1>3. CASE WritePIDFile(d)
  <2>1. /\ main' = [main EXCEPT ![d] = "serving"] /\ main[d] = "listening"
        /\ UNCHANGED <<listener, bridge, idle, closer, agents>> /\ pidFile' \in {d, pidFile}
    BY <1>3 DEF WritePIDFile
  <2>2. PidFileIsTidy' /\ pidFile' \in Daemons \cup {NoOne}
    BY <2>1 DEF Inv, Shape, PidFileIsTidy
  <2>3. \A c \in Daemons : listener' = c => HoldsPort(c)'
    BY <2>1 DEF Inv, Shape, Order, HoldsPort
  <2> QED BY <2>1, <2>2, <2>3, <1>1
<1>4. CASE RemovePIDFile(d)
  <2>1. /\ main' = [main EXCEPT ![d] = "leaving"] /\ main[d] = "serving"
        /\ UNCHANGED <<listener, bridge, idle, closer, agents>> /\ pidFile' = NoOne
    BY <1>4 DEF RemovePIDFile, DropPIDFile
  <2>2. PidFileIsTidy' BY <2>1 DEF PidFileIsTidy
  <2>3. \A c \in Daemons : listener' = c => HoldsPort(c)'
    BY <2>1 DEF Inv, Shape, Order, HoldsPort
  <2> QED BY <2>1, <2>2, <2>3, <1>1
<1>5. CASE LeavePort(d)
  <2>1. /\ main' = [main EXCEPT ![d] = "closing"] /\ main[d] = "leaving"
        /\ UNCHANGED <<pidFile, bridge, idle, closer, agents>>
        /\ listener' = IF listener = d THEN NoOne ELSE listener
    BY <1>5 DEF LeavePort, Unlisten
  <2>2. PidFileIsTidy' BY <2>1 DEF Inv, Shape, PidFileIsTidy
  <2>3. \A c \in Daemons : listener' = c => HoldsPort(c)'
    BY <2>1 DEF Inv, Shape, Order, HoldsPort
  <2> QED BY <2>1, <2>2, <2>3, <1>1 DEF Inv, Shape
<1>6. CASE CloseBridge(d)
  <2>1. /\ main[d] = "closing" /\ bridge' = [bridge EXCEPT ![d] = "closed"]
        /\ main' = [main EXCEPT ![d] = IF bridge[d] = "up" THEN "kicking" ELSE "ending"]
        /\ UNCHANGED <<listener, pidFile, idle, closer, agent, attached, registered>>
    BY <1>6 DEF CloseBridge, Close, files, agents, connections
  <2>2. Shape' /\ Order' /\ Connected' /\ PidFileIsTidy'
    BY <2>1 DEF Inv, Shape, Order, Connected, PidFileIsTidy, HoldsPort
  <2>3. \A c \in Daemons : /\ Runs(c) => Runs(c)'
                           /\ Kicking(c) => Kicking(c)'
                           /\ bridge[c] = "up" => bridge'[c] = "up" \/ Kicking(c)'
    BY <2>1 DEF Inv, Shape, Runs, Kicking
  <2>4. ProxiesAreServed'
    BY <2>1, <2>3 DEF Inv, Shape, ProxiesAreServed, Upgraded
  <2> QED BY <2>2, <2>4 DEF Inv
<1>7. CASE Exit(d)
  <2>1. /\ main[d] \in {"kicking", "ending"} /\ main' = [main EXCEPT ![d] = "exited"]
        /\ UNCHANGED <<listener, pidFile, bridge, idle, closer, agent>>
        /\ Disconnect({a \in Agents : attached[a] = d})
    BY <1>7 DEF Exit, DropConnections, files
  <2> QED BY <2>1, DroppingKeepsInv DEF Inv, Shape
<1> QED BY <1>2, <1>3, <1>4, <1>5, <1>6, <1>7 DEF MainStep

LEMMA CloserKeepsInv ==
  ASSUME Inv, NEW d \in Daemons,
         CloserStep(d) \/ IdleStep(d) \/ IdleTimerFires(d) \/ KickOne(d)
  PROVE  Inv'
<1> USE Distinct
<1>1. CASE CloserListener(d)
  <2>1. /\ listener' = (IF listener = d THEN NoOne ELSE listener)
        /\ UNCHANGED <<pidFile, main, bridge, idle, agent, attached, registered>>
        /\ closer[d] = "listener" /\ closer' = [closer EXCEPT ![d] = "bridge"]
    BY <1>1 DEF CloserListener, Unlisten, agents, connections
  <2>2. Shape' /\ Order' /\ Connected' /\ PidFileIsTidy'
    BY <2>1 DEF Inv, Shape, Order, Connected, HoldsPort, PidFileIsTidy
  <2>3. \A c \in Daemons : Kicking(c) => Kicking(c)' BY <2>1 DEF Inv, Shape, Kicking
  <2>4. ProxiesAreServed' BY <2>1, <2>3 DEF Inv, Shape, ProxiesAreServed, Upgraded, Runs
  <2> QED BY <2>2, <2>4 DEF Inv
<1>2. CASE CloserBridge(d)
  <2>1. /\ closer[d] = "bridge" /\ bridge' = [bridge EXCEPT ![d] = "closed"]
        /\ closer' = [closer EXCEPT ![d] = IF bridge[d] = "up" THEN "kick" ELSE "cancel"]
        /\ UNCHANGED <<listener, pidFile, main, idle, agent, connections>>
    BY <1>2 DEF CloserBridge, Close, files, agents
  <2>2. CallerPlaces /\ bridge' \in [Daemons -> {"up", "closed"}]
    BY <2>1 DEF Inv, Shape, CallerPlaces
  <2>3. \A c \in Daemons : Kicking(c)' \/ (bridge'[c] = bridge[c] /\ ~Kicking(c))
    BY <2>1 DEF Inv, Shape, Kicking
  <2> QED BY <2>1, <2>2, <2>3, CallerKeepsInv
<1>3. CASE IdleCloses(d)
  <2>1. /\ idle[d] = "fired" /\ bridge' = [bridge EXCEPT ![d] = "closed"]
        /\ idle' = [idle EXCEPT ![d] = IF bridge[d] = "up" THEN "kick" ELSE "closed"]
        /\ UNCHANGED <<listener, pidFile, main, closer, agent, connections>>
    BY <1>3 DEF IdleCloses, Close, files, agents
  <2>2. CallerPlaces /\ bridge' \in [Daemons -> {"up", "closed"}]
    BY <2>1 DEF Inv, Shape, CallerPlaces
  <2>3. \A c \in Daemons : Kicking(c)' \/ (bridge'[c] = bridge[c] /\ ~Kicking(c))
    BY <2>1 DEF Inv, Shape, Kicking
  <2> QED BY <2>1, <2>2, <2>3, CallerKeepsInv
<1>4. CASE CloserCancels(d)
  <2>1. /\ closer[d] = "cancel" \/ (closer[d] = "kick" /\ Sessions(d) = {})
        /\ closer' = [closer EXCEPT ![d] = "over"]
        /\ UNCHANGED <<listener, pidFile, main, bridge, idle, agent, connections>>
    BY <1>4 DEF CloserCancels, OnShutdown, files, agents
  <2>2. CallerPlaces /\ bridge' \in [Daemons -> {"up", "closed"}]
    BY <2>1 DEF Inv, Shape, CallerPlaces
  <2>3. \A c \in Daemons : Kicking(c)' \/ Sessions(c) = {} \/ ~Kicking(c)
    BY <2>1 DEF Inv, Shape, Kicking
  <2> QED BY <2>1, <2>2, <2>3, CallerKeepsInv
<1>5. CASE OnIdleShutdown(d)
  <2>1. /\ idle[d] = "closed" \/ (idle[d] = "kick" /\ Sessions(d) = {})
        /\ idle' = [idle EXCEPT ![d] = "over"]
        /\ UNCHANGED <<listener, pidFile, main, bridge, closer, agent, connections>>
    BY <1>5 DEF OnIdleShutdown, files, agents
  <2>2. CallerPlaces /\ bridge' \in [Daemons -> {"up", "closed"}]
    BY <2>1 DEF Inv, Shape, CallerPlaces
  <2>3. \A c \in Daemons : Kicking(c)' \/ Sessions(c) = {} \/ ~Kicking(c)
    BY <2>1 DEF Inv, Shape, Kicking
  <2> QED BY <2>1, <2>2, <2>3, CallerKeepsInv
<1>6. CASE IdleTimerFires(d)
  <2>1. /\ idle[d] = "no" /\ idle' = [idle EXCEPT ![d] = "fired"]
        /\ UNCHANGED <<listener, pidFile, main, bridge, closer, agent, connections>>
    BY <1>6 DEF IdleTimerFires, files, agents
  <2>2. CallerPlaces /\ bridge' \in [Daemons -> {"up", "closed"}]
    BY <2>1 DEF Inv, Shape, CallerPlaces
  <2>3. \A c \in Daemons : Kicking(c)' \/ ~Kicking(c)
    BY <2>1 DEF Inv, Shape, Kicking
  <2> QED BY <2>1, <2>2, <2>3, CallerKeepsInv
<1>7. CASE KickOne(d)
  <2>1. PICK a \in Sessions(d) : Disconnect({a}) BY <1>7 DEF KickOne
  <2>2. UNCHANGED <<listener, pidFile, main, bridge, idle, closer, agent>>
    BY <1>7 DEF KickOne, files, daemons
  <2>3. a \in Agents BY DEF Inv, Shape, Sessions
  <2> QED BY <2>1, <2>2, <2>3, HangingUpKeepsInv
<1> QED BY <1>1, <1>2, <1>3, <1>4, <1>5, <1>6, <1>7 DEF CloserStep, IdleStep

LEMMA CrashKeepsInv == ASSUME Inv, NEW d \in Daemons, Crash(d) PROVE Inv'
<1>1. /\ Runs(d) /\ main' = [main EXCEPT ![d] = "crashed"]
      /\ listener' = IF listener = d THEN NoOne ELSE listener
      /\ UNCHANGED <<pidFile, bridge, idle, closer, agent>>
      /\ Disconnect({a \in Agents : attached[a] = d})
  BY DEF Crash, Unlisten, DropConnections
<1> QED BY <1>1, DroppingKeepsInv, Distinct DEF Runs

-----------------------------------------------------------------------------
(***************************************************************************)
(* Steps of agents and stop commands.                                      *)
(***************************************************************************)
\* An agent that has no proxy yet and goes on to another place than "idle" is quiet.
LEMMA GoingIsQuiet ==
  ASSUME Inv, NEW a \in Agents, agent[a] # "proxy",
         NEW where \in {"token", "select", "poll", "ready", "exited", "failed"},
         UNCHANGED <<listener, pidFile, main, bridge, idle, closer, connections>>, Goes(a, where)
  PROVE  Quiet
BY DEF Goes, Quiet, Inv, Shape, connections, Kicking

LEMMA EnsureKeepsInv == ASSUME Inv, NEW a \in Agents, EnsureStep(a) PROVE Inv'
<1>1. CASE Spawn(a)
  <2>1. /\ agent[a] = "idle" /\ main' = [main EXCEPT ![a] = "start"]
        /\ agent' = [agent EXCEPT ![a] = "select"]
        /\ UNCHANGED <<listener, pidFile, bridge, idle, closer, attached, registered>>
    BY <1>1 DEF Spawn, Goes, files, connections
  <2>2. main[a] = "none" /\ a \in Daemons BY <2>1, Distinct DEF Inv, Order
  <2>3. \A b \in Agents : attached[b] # a
    BY <2>2, Distinct DEF Inv, ProxiesAreServed, Runs
  <2> QED BY <2>1, <2>2, <2>3, StartKeepsInv DEF Inv, Shape
<1>2. CASE FindBridge(a)
  <2>1. PICK where \in {"ready", "failed", "token"} : OnlyGoes(a, where)
    BY <1>2 DEF FindBridge
  <2> QED BY <1>2, <2>1, GoingIsQuiet, QuietKeepsInv DEF FindBridge, OnlyGoes, files, daemons
<1>3. CASE CheckToken(a)
  <2>1. PICK where \in {"ready", "failed"} : OnlyGoes(a, where)
    BY <1>3 DEF CheckToken
  <2> QED BY <1>3, <2>1, GoingIsQuiet, QuietKeepsInv DEF CheckToken, OnlyGoes, files, daemons
<1>4. CASE FindForeign(a) \/ SpawnFails(a) \/ SeesExit(a) \/ PollInterval(a)
             \/ ReadyTimeout(a) \/ Interrupted(a)
  <2>1. PICK where \in {"poll", "exited", "failed"} : OnlyGoes(a, where)
    BY <1>4 DEF FindForeign, SpawnFails, SeesExit, PollInterval, ReadyTimeout,
       Interrupted
  <2>2. agent[a] # "proxy"
    BY <1>4 DEF FindForeign, SpawnFails, SeesExit, PollInterval, ReadyTimeout,
       Interrupted
  <2> QED BY <2>1, <2>2, GoingIsQuiet, QuietKeepsInv DEF OnlyGoes, files, daemons
<1>5. CASE Poll(a)
  <2>1. PICK where \in {"ready", "select"} : Goes(a, where)
    BY <1>5 DEF Poll
  <2> QED BY <1>5, <2>1, GoingIsQuiet, QuietKeepsInv DEF Poll, files, daemons
<1> QED BY <1>1, <1>2, <1>3, <1>4, <1>5 DEF EnsureStep

LEMMA ProxyKeepsInv ==
  ASSUME Inv, NEW a \in Agents, Dial(a) \/ AttachAgent(a) \/ ProxyEnds(a)
  PROVE Inv'
<1> USE Distinct
<1>1. CASE Dial(a) /\ agent' = [agent EXCEPT ![a] = "proxy"] /\ UNCHANGED registered
  <2>1. CASE listener \in Daemons /\ attached' = [attached EXCEPT ![a] = listener]
    <3>1. /\ agent[a] = "ready"
          /\ UNCHANGED <<listener, pidFile, main, bridge, idle, closer>>
      BY <1>1 DEF Dial, files, daemons
    <3>2. attached[a] = NoOne /\ a \notin registered BY <3>1 DEF Inv, Connected
    <3>3. HoldsPort(listener) BY <2>1 DEF Inv, Order
    <3>4. Shape' BY <1>1, <2>1, <3>1 DEF Inv, Shape
    <3>5. Order' BY <1>1, <2>1, <3>1 DEF Inv, Shape, Order, HoldsPort
    <3>11. Connected' BY <1>1, <2>1, <3>1, <3>2, <3>3 DEF Inv, Shape, Connected, HoldsPort
    <3>6. PidFileIsTidy' BY <3>1 DEF Inv, PidFileIsTidy
    <3>7. \A d \in Daemons : (Runs(d) => Runs(d)') /\ (Kicking(d) => Kicking(d)')
      BY <3>1 DEF Runs, Kicking
    <3>8. Runs(listener) BY <3>3 DEF HoldsPort, Runs
    <3>9. ASSUME NEW b \in Agents, NEW d, d = attached'[b], d # NoOne
          PROVE Runs(d)' /\ (bridge'[d] = "up" \/ Upgraded(b)' \/ Kicking(d)')
      <4>1. CASE b = a
        <5>1. d = listener BY <4>1, <2>1, <3>9 DEF Inv, Shape
        <5>2. b \notin registered' /\ Upgraded(b)' BY <3>9, <4>1, <3>2, <1>1 DEF Upgraded
        <5> QED BY <5>1, <5>2, <3>7, <3>8, <2>1
      <4>2. CASE b # a
        <5>1. d = attached[b] /\ d \in Daemons
          BY <4>2, <2>1, <3>9 DEF Inv, Shape
        <5>2. Runs(d) /\ (bridge[d] = "up" \/ b \notin registered \/ Kicking(d))
          BY <5>1, <3>9 DEF Inv, ProxiesAreServed, Upgraded
        <5> QED BY <5>1, <5>2, <3>7, <3>1, <1>1, <3>9 DEF Upgraded
      <4> QED BY <4>1, <4>2
    <3>10. ProxiesAreServed' BY <3>9 DEF ProxiesAreServed, Runs, Kicking
    <3> QED BY <3>4, <3>5, <3>6, <3>10, <3>11 DEF Inv
  <2>2. CASE ~(listener \in Daemons /\ attached' = [attached EXCEPT ![a] = listener])
    <3>1. agent' = [agent EXCEPT ![a] = "failed"] BY <1>1, <2>2 DEF Dial, Goes
    <3> QED BY <3>1, <1>1 DEF Inv, Shape
  <2> QED BY <2>1, <2>2
<1>2. CASE Dial(a) /\ Goes(a, "failed") /\ UNCHANGED attached
  <2>1. /\ agent[a] # "proxy"
        /\ UNCHANGED <<listener, pidFile, main, bridge, idle, closer, connections>>
    BY <1>2 DEF Dial, files, daemons, connections
  <2> QED BY <1>2, <2>1, GoingIsQuiet, QuietKeepsInv
<1>3. CASE AttachAgent(a)
  <2>1. Upgraded(a) /\ UNCHANGED <<listener, pidFile, main, bridge, idle, closer, agent>>
    BY <1>3 DEF AttachAgent, files, daemons
  <2>2. CASE Disconnect({a})
    BY <2>1, <2>2, HangingUpKeepsInv
  <2>3. CASE /\ bridge[attached[a]] = "up"
             /\ registered' = registered \cup {a} /\ UNCHANGED attached
    <3>1. Shape' /\ Order' /\ Connected' /\ PidFileIsTidy'
      BY <2>1, <2>3 DEF Inv, Shape, Order, Connected, HoldsPort, PidFileIsTidy, Upgraded
    <3>2. ProxiesAreServed'
      BY <2>1, <2>3 DEF Inv, Shape, ProxiesAreServed, Upgraded, Runs, Kicking
    <3> QED BY <3>1, <3>2 DEF Inv
  <2> QED BY <1>3, <2>2, <2>3 DEF AttachAgent
<1>4. CASE ProxyEnds(a)
  <2>1. /\ agent[a] = "proxy" /\ Disconnect({a}) /\ agent' = [agent EXCEPT ![a] = "done"]
        /\ UNCHANGED <<listener, pidFile, main, bridge, idle, closer>>
    BY <1>4 DEF ProxyEnds, Goes, files, daemons
  <2> QED BY <2>1, HangingUpKeepsInv
<1>5. ASSUME Dial(a)
      PROVE \/ agent' = [agent EXCEPT ![a] = "proxy"] /\ UNCHANGED registered
            \/ Goes(a, "failed") /\ UNCHANGED attached
  BY <1>5 DEF Dial, Goes
<1> QED BY <1>1, <1>2, <1>3, <1>4, <1>5

LEMMA StopKeepsInv == ASSUME Inv, NEW s \in Stops, StopStep(s) PROVE Inv'
<1>1. /\ UNCHANGED <<listener, pidFile, main, bridge, idle, attached, registered, agent>>
      /\ \/ UNCHANGED closer
         \/ listener \in Daemons
            /\ closer' = [closer EXCEPT ![listener] = IF @ = "no" THEN "listener" ELSE @]
  BY DEF StopStep, StopProbes, ShutdownAccepted, ShutdownRefused, ReadPIDFile,
     Terminate, StopGoes, files, daemons, agents, connections
<1>2. closer' \in [Daemons -> {"no", "listener", "bridge", "kick", "cancel", "over"}]
  BY <1>1 DEF Inv, Shape
<1>3. \A d \in Daemons : Kicking(d) => Kicking(d)'
  BY <1>1 DEF Inv, Shape, Kicking
<1>4. Quiet
  BY <1>1, <1>2, <1>3 DEF Quiet, Inv, Shape
<1> QED BY <1>4, QuietKeepsInv

-----------------------------------------------------------------------------
LEMMA InvInit == ASSUME Init, Ports \subseteq {NoOne, Foreign} PROVE Inv
BY Distinct DEF Init, Inv, Shape, Order, Connected, HoldsPort, PidFileIsTidy, ProxiesAreServed

LEMMA InvNext == ASSUME Inv, [Next]_vars PROVE Inv'
<1>1. ASSUME NEW m \in Manual, StartByHand(m) PROVE Inv'
  <2>1. /\ main[m] = "none" /\ main' = [main EXCEPT ![m] = "start"]
        /\ UNCHANGED <<listener, pidFile, bridge, idle, closer, agent, attached, registered>>
    BY <1>1 DEF StartByHand, files, agents, connections
  <2>2. m \in Daemons /\ m \notin Agents BY Distinct
  <2>3. \A b \in Agents : attached[b] # m
    BY <2>1, <2>2, Distinct DEF Inv, ProxiesAreServed, Runs
  <2> QED BY <2>1, <2>2, <2>3, StartKeepsInv DEF Inv, Shape
<1>2. CASE UNCHANGED vars
  <2>1. Quiet
    BY <1>2 DEF vars, files, daemons, agents, connections, Quiet, Inv, Shape, Kicking
  <2> QED BY <2>1, QuietKeepsInv
<1> QED
  BY <1>1, <1>2, MainKeepsInv, CloserKeepsInv, CrashKeepsInv, EnsureKeepsInv,
     ProxyKeepsInv, StopKeepsInv DEF Next

\* The inductive invariant of Daemon: the port, the pid file and the connections
\* belong to processes in the right part of runDaemon.
THEOREM Invariance == Spec => []Inv
<1>1. Init => Inv
  BY InvInit, PortsAreFree
<1>2. Inv /\ [Next]_vars => Inv'
  BY InvNext
<1> QED BY <1>1, <1>2, PTL DEF Spec

\* The pid file never names a daemon that ended in good order.
THEOREM PidFileStaysTidy == Spec => []PidFileIsTidy
<1>1. Inv => PidFileIsTidy
  BY DEF Inv
<1> QED BY <1>1, Invariance, PTL

\* No proxy is left behind on a bridge that has closed.
THEOREM ProxiesStayServed == Spec => []ProxiesAreServed
<1>1. Inv => ProxiesAreServed
  BY DEF Inv
<1> QED BY <1>1, Invariance, PTL
=============================================================================
