------------------------------- MODULE Daemon -------------------------------
(***************************************************************************)
(* The processes around one bridge port (internal/daemon, internal/cli,    *)
(* Server.Start and Close, internal/proxy): agents run Ensure and then the *)
(* proxy, Ensure spawns a detached daemon when nobody answers on the port, *)
(* stop commands ask a daemon to shut down or signal the process named in  *)
(* the pid file, daemons leave when asked, when idle, or by a crash.       *)
(*                                                                         *)
(* One action is one system call or one HTTP request. A daemon process is  *)
(* named after the agent that spawns it; Manual daemons are started by     *)
(* hand. Of the bridge inside a daemon there is whether it is up or closed *)
(* and which proxies are registered: see Bridge for the rest.              *)
(***************************************************************************)
EXTENDS Naturals, FiniteSets

CONSTANTS
  Agents,       \* agent processes: Ensure, then proxy.Run
  Manual,       \* daemons started with --daemon by hand
  Stops,        \* stop commands
  NoOne,
  Foreign,      \* a server that is no bridge
  Ports,        \* who may hold the port at the beginning: NoOne, Foreign
  Configs,      \* what the processes may be configured with: the token of each, ""
                \* is none; strict: who requires a profile; keyed: who has one
  IdleTimeout,  \* whether daemons have an idle timeout
  Timeouts,     \* whether a request may time out although somebody listens
  MaxPolls,     \* bound: polls within readyTimeout
  MaxCrashes    \* bound: daemons killed without notice

Daemons == Agents \cup Manual
Processes == Daemons \cup Stops

ASSUME ProcessesDistinct ==
  /\ Agents \cap Manual = {} /\ Daemons \cap Stops = {}
  /\ {NoOne, Foreign} \cap Processes = {} /\ NoOne # Foreign

ASSUME PortsAreFree == Ports \subseteq {NoOne, Foreign}

VARIABLES
  listener,   \* who listens on the port
  pidFile,    \* whom the pid file names
  config,     \* a member of Configs
  main,       \* where runDaemon stands in each daemon process
  cancelled,  \* the daemon's context is cancelled
  bridge,     \* the daemon's bridge: "up", "closed"
  idle,       \* the function of the idle timer: "no", "fired", "kick", "closed", "over"
  closer,     \* the goroutine of handleShutdown: "no", "listener", "bridge",
              \* "kick", "cancel", "over"
  agent,      \* where an agent's Ensure or proxy stands
  polls,      \* bound counter for MaxPolls
  attached,   \* the daemon an agent's proxy is connected to
  registered, \* the agents whose connection is among the sessions of its bridge
  stop,       \* where a stop command stands
  target,     \* the daemon a stop command has reached
  crashes     \* bound counter for MaxCrashes

files == <<listener, pidFile>>
daemons == <<main, cancelled, bridge, idle, closer, crashes>>
connections == <<attached, registered>>
agents == <<agent, polls, connections>>
stops == <<stop, target>>
vars == <<files, config, daemons, agents, stops>>

Runs(d) == main[d] \in {"start", "listening", "serving", "leaving", "closing",
                     "kicking", "ending"}

-----------------------------------------------------------------------------
(***************************************************************************)
(* Requests. A request reaches whoever listens, or nobody.                 *)
(***************************************************************************)
Reached == {listener} \cup (IF Timeouts THEN {NoOne} ELSE {})

\* ProbeBridge: "none" is NoOne, "foreign" is Foreign.
Probe(who) == who \in Reached

token == config.token
RequiresToken(d) == token[d] # ""

\* requiresProfile, which the same daemon's HandleWS demands.
Admits(d, a) == d \in config.strict => a \in config.keyed

-----------------------------------------------------------------------------
(***************************************************************************)
(* Bridge.Close: the section that sets closed takes down the sessions it   *)
(* finds, whoever entered it hangs up one after the other, and any other   *)
(* caller returns at once.                                                 *)
(***************************************************************************)
Sessions(d) == {a \in registered : attached[a] = d}

Kicking(d) == closer[d] = "kick" \/ idle[d] = "kick" \/ main[d] = "kicking"

Close(d) == bridge' = [bridge EXCEPT ![d] = "closed"]

Disconnect(as) ==
  /\ attached' = [a \in Agents |-> IF a \in as THEN NoOne ELSE attached[a]]
  /\ registered' = registered \ as

KickOne(d) ==
  /\ Runs(d) /\ Kicking(d)
  /\ \E a \in Sessions(d) : Disconnect({a})
  /\ UNCHANGED <<files, config, daemons, agent, polls, stops>>

\* A process that ends takes its connections with it.
DropConnections(d) == Disconnect({a \in Agents : attached[a] = d})

-----------------------------------------------------------------------------
(***************************************************************************)
(* runDaemon                                                               *)
(***************************************************************************)
StartByHand(m) ==
  /\ main[m] = "none"
  /\ main' = [main EXCEPT ![m] = "start"]
  /\ UNCHANGED <<files, config, cancelled, bridge, idle, closer, crashes, agents,
                 stops>>

\* mutant: a daemon that does not get the port stays around without it
ServeAnyway(d) == main' = [main EXCEPT ![d] = "listening"]

\* server.Start fails and runDaemon returns: nothing was deferred yet.
LoseThePort(d) == main' = [main EXCEPT ![d] = "lost"]

Listen(d) ==
  /\ main[d] = "start"
  /\ IF listener = NoOne
     THEN listener' = d /\ main' = [main EXCEPT ![d] = "listening"]
     ELSE LoseThePort(d) /\ UNCHANGED listener
  /\ UNCHANGED <<pidFile, config, cancelled, bridge, idle, closer, crashes, agents,
                 stops>>

\* A pid file that cannot be written is not fatal.
WritePIDFile(d) ==
  /\ main[d] = "listening"
  /\ pidFile' \in {d, pidFile}
  /\ main' = [main EXCEPT ![d] = "serving"]
  /\ UNCHANGED <<listener, config, cancelled, bridge, idle, closer, crashes,
                 agents, stops>>

\* mutant: the pid file is left to the next daemon
KeepPIDFile == UNCHANGED pidFile

\* os.Remove, whoever the file names by now; it is taken to succeed.
DropPIDFile == pidFile' = NoOne

\* <-ctx.Done(), then the deferred calls, the last one first.
RemovePIDFile(d) ==
  /\ main[d] = "serving" /\ cancelled[d]
  /\ DropPIDFile
  /\ main' = [main EXCEPT ![d] = "leaving"]
  /\ UNCHANGED <<listener, config, cancelled, bridge, idle, closer, crashes,
                 agents, stops>>

Unlisten(d) == listener' = IF listener = d THEN NoOne ELSE listener

\* The deferred Server.Close: the listener first ...
LeavePort(d) ==
  /\ main[d] = "leaving"
  /\ Unlisten(d)
  /\ main' = [main EXCEPT ![d] = "closing"]
  /\ UNCHANGED <<pidFile, config, cancelled, bridge, idle, closer, crashes, agents,
                 stops>>

\* ... then, at the end of the grace period, the bridge ...
CloseBridge(d) ==
  /\ main[d] = "closing"
  /\ Close(d)
  /\ main' = [main EXCEPT ![d] = IF bridge[d] = "up" THEN "kicking" ELSE "ending"]
  /\ UNCHANGED <<files, config, cancelled, idle, closer, crashes, agents, stops>>

\* ... and the process exits, whatever its goroutines are at.
Exit(d) ==
  /\ main[d] = "ending" \/ (main[d] = "kicking" /\ Sessions(d) = {})
  /\ main' = [main EXCEPT ![d] = "exited"]
  /\ DropConnections(d)
  /\ UNCHANGED <<files, config, cancelled, bridge, idle, closer, crashes, agent, polls,
                 stops>>

Crash(d) ==
  /\ Runs(d) /\ crashes < MaxCrashes
  /\ crashes' = crashes + 1
  /\ main' = [main EXCEPT ![d] = "crashed"]
  /\ Unlisten(d)
  /\ DropConnections(d)
  /\ UNCHANGED <<pidFile, config, cancelled, bridge, idle, closer, agent, polls,
                 stops>>

-----------------------------------------------------------------------------
(***************************************************************************)
(* Why a daemon's context is cancelled: the goroutine of handleShutdown,   *)
(* the idle timer, a signal (Stop, or a terminal's).                       *)
(***************************************************************************)
CloserListener(d) ==
  /\ Runs(d) /\ closer[d] = "listener"
  /\ Unlisten(d)
  /\ closer' = [closer EXCEPT ![d] = "bridge"]
  /\ UNCHANGED <<pidFile, config, main, cancelled, bridge, idle, crashes, agents,
                 stops>>

CloserBridge(d) ==
  /\ Runs(d) /\ closer[d] = "bridge"
  /\ Close(d)
  /\ closer' = [closer EXCEPT ![d] = IF bridge[d] = "up" THEN "kick" ELSE "cancel"]
  /\ UNCHANGED <<files, config, main, cancelled, idle, crashes, agents, stops>>

NoCallback(d) == UNCHANGED cancelled   \* mutant: OnShutdown is not called

OnShutdown(d) == cancelled' = [cancelled EXCEPT ![d] = TRUE]

CloserCancels(d) ==
  /\ Runs(d)
  /\ closer[d] = "cancel" \/ (closer[d] = "kick" /\ Sessions(d) = {})
  /\ OnShutdown(d)
  /\ closer' = [closer EXCEPT ![d] = "over"]
  /\ UNCHANGED <<files, config, main, bridge, idle, crashes, agents, stops>>

\* The timer runs from bridge.New on and is stopped while an agent is registered.
IdleTimerFires(d) ==
  /\ IdleTimeout
  /\ Runs(d) /\ bridge[d] = "up" /\ idle[d] = "no"
  /\ Sessions(d) = {}
  /\ idle' = [idle EXCEPT ![d] = "fired"]
  /\ UNCHANGED <<files, config, main, cancelled, bridge, closer, crashes, agents,
                 stops>>

IdleCloses(d) ==
  /\ Runs(d) /\ idle[d] = "fired"
  /\ Close(d)
  /\ idle' = [idle EXCEPT ![d] = IF bridge[d] = "up" THEN "kick" ELSE "closed"]
  /\ UNCHANGED <<files, config, main, cancelled, closer, crashes, agents, stops>>

OnIdleShutdown(d) ==
  /\ Runs(d)
  /\ idle[d] = "closed" \/ (idle[d] = "kick" /\ Sessions(d) = {})
  /\ cancelled' = [cancelled EXCEPT ![d] = TRUE]
  /\ idle' = [idle EXCEPT ![d] = "over"]
  /\ UNCHANGED <<files, config, main, bridge, closer, crashes, agents, stops>>

-----------------------------------------------------------------------------
(***************************************************************************)
(* Ensure, and the proxy after it.                                         *)
(***************************************************************************)
Goes(a, where) == agent' = [agent EXCEPT ![a] = where]

OnlyGoes(a, where) ==
  Goes(a, where) /\ UNCHANGED <<files, config, daemons, polls, connections, stops>>

\* The first probe finds a bridge: AssertCompatibleToken, then the profile, without
\* which the agent fails whatever comes of its token.
FindBridge(a) ==
  /\ agent[a] = "idle"
  /\ \E d \in Daemons :
       /\ Probe(d)
       /\ OnlyGoes(a, IF ~Admits(d, a) THEN "failed"
                      ELSE IF ~RequiresToken(d) THEN "ready"
                      ELSE IF token[a] = "" THEN "failed" ELSE "token")

\* tokenAccepted is a request of its own.
CheckToken(a) ==
  /\ agent[a] = "token"
  /\ \E d \in Reached :
       OnlyGoes(a, IF d \in Daemons /\ token[d] \in {"", token[a]}
                   THEN "ready" ELSE "failed")

FindForeign(a) ==
  /\ agent[a] = "idle"
  /\ Probe(Foreign)
  /\ OnlyGoes(a, "failed")

\* Nobody answers: the agent's own daemon process is started, with its token, unless
\* that would not let the agent in.
Spawn(a) ==
  /\ agent[a] = "idle"
  /\ Probe(NoOne)
  /\ Admits(a, a)
  /\ main' = [main EXCEPT ![a] = "start"]
  /\ Goes(a, "select")
  /\ UNCHANGED <<files, config, cancelled, bridge, idle, closer, crashes, polls,
                 connections, stops>>

SpawnFails(a) ==
  /\ agent[a] = "idle"
  /\ Probe(NoOne)
  /\ OnlyGoes(a, "failed")

NoDeadline(a) == TRUE   \* mutant: Ensure waits for ever

BeforeDeadline(a) == polls[a] < MaxPolls

\* The select of the loop: the exit of the daemon, or the poll interval.
SeesExit(a) ==
  /\ agent[a] = "select"
  /\ ~Runs(a)
  /\ BeforeDeadline(a)
  /\ OnlyGoes(a, "exited")

PollInterval(a) ==
  /\ agent[a] = "select"
  /\ Runs(a)
  /\ BeforeDeadline(a)
  /\ OnlyGoes(a, "poll")

Poll(a) ==
  /\ agent[a] = "poll"
  /\ polls' = [polls EXCEPT ![a] = @ + 1]
  /\ \E who \in Reached : Goes(a, IF who \in Daemons THEN "ready" ELSE "select")
  /\ UNCHANGED <<files, config, daemons, connections, stops>>

ReadyTimeout(a) ==
  /\ agent[a] = "select"
  /\ ~BeforeDeadline(a)
  /\ OnlyGoes(a, "failed")

\* The agent process is interrupted while it waits; its daemon stays.
Interrupted(a) ==
  /\ agent[a] = "select"
  /\ OnlyGoes(a, "failed")

\* proxy.Run dials /agent: HandleWS turns the request down or upgrades it.
Dial(a) ==
  /\ agent[a] = "ready"
  /\ IF /\ listener \in Daemons
        /\ token[listener] \in {"", token[a]} /\ Admits(listener, a)
     THEN Goes(a, "proxy") /\ attached' = [attached EXCEPT ![a] = listener]
     ELSE Goes(a, "failed") /\ UNCHANGED attached
  /\ UNCHANGED <<files, config, daemons, polls, registered, stops>>

Upgraded(a) == attached[a] # NoOne /\ a \notin registered

\* mutant: without a look at closed
AttachAnyway(a) ==
  /\ Upgraded(a)
  /\ registered' = registered \cup {a}
  /\ UNCHANGED <<files, config, daemons, agent, polls, attached, stops>>

\* attachAgent, in the daemon: a bridge that is closed hangs up.
AttachAgent(a) ==
  /\ Upgraded(a)
  /\ IF bridge[attached[a]] = "up"
     THEN registered' = registered \cup {a} /\ UNCHANGED attached
     ELSE Disconnect({a})
  /\ UNCHANGED <<files, config, daemons, agent, polls, stops>>

\* stdin closes, or the connection has ended.
ProxyEnds(a) ==
  /\ agent[a] = "proxy"
  /\ Disconnect({a})
  /\ Goes(a, "done")
  /\ UNCHANGED <<files, config, daemons, polls, stops>>

-----------------------------------------------------------------------------
(***************************************************************************)
(* Stop                                                                    *)
(***************************************************************************)
StopGoes(s, where) ==
  /\ stop' = [stop EXCEPT ![s] = where]
  /\ UNCHANGED <<files, config, daemons, agents, target>>

StopProbes(s) ==
  /\ stop[s] = "idle"
  /\ \E who \in Reached :
       StopGoes(s, IF who = NoOne THEN "nothing"
                   ELSE IF who = Foreign THEN "failed"
                   ELSE IF RequiresToken(who) /\ token[s] = "" THEN "failed"
                   ELSE "post")

\* POST /api/shutdown is accepted; the answer may be lost.
ShutdownAccepted(s) ==
  /\ stop[s] = "post"
  /\ listener \in Daemons
  /\ token[listener] \in {"", token[s]}
  /\ closer' = [closer EXCEPT ![listener] = IF @ = "no" THEN "listener" ELSE @]
  /\ \/ /\ stop' = [stop EXCEPT ![s] = "stopped"]
        /\ target' = [target EXCEPT ![s] = listener]
     \/ /\ Timeouts
        /\ stop' = [stop EXCEPT ![s] = "read"]
        /\ UNCHANGED target
  /\ UNCHANGED <<files, config, main, cancelled, bridge, idle, crashes, agents>>

ShutdownRefused(s) ==
  /\ stop[s] = "post"
  /\ \E who \in Reached :
       who \in Daemons => token[who] \notin {"", token[s]}
  /\ StopGoes(s, "read")

\* readPIDFile, before the signal.
ReadPIDFile(s) ==
  /\ stop[s] = "read"
  /\ stop' = [stop EXCEPT ![s] = IF pidFile = NoOne THEN "failed" ELSE "kill"]
  /\ target' = [target EXCEPT ![s] = pidFile]
  /\ UNCHANGED <<files, config, daemons, agents>>

\* SIGTERM cancels the context of a process that still runs.
Terminate(s) ==
  /\ stop[s] = "kill"
  /\ IF Runs(target[s])
     THEN /\ cancelled' = [cancelled EXCEPT ![target[s]] = TRUE]
          /\ stop' = [stop EXCEPT ![s] = "stopped"]
     ELSE stop' = [stop EXCEPT ![s] = "failed"] /\ UNCHANGED cancelled
  /\ UNCHANGED <<files, config, main, bridge, idle, closer, crashes, agents,
                 target>>

-----------------------------------------------------------------------------
Init ==
  /\ listener \in Ports
  /\ pidFile = NoOne
  /\ config \in Configs
  /\ main = [d \in Daemons |-> "none"]
  /\ cancelled = [d \in Daemons |-> FALSE]
  /\ bridge = [d \in Daemons |-> "up"]
  /\ idle = [d \in Daemons |-> "no"]
  /\ closer = [d \in Daemons |-> "no"]
  /\ agent = [a \in Agents |-> "idle"]
  /\ polls = [a \in Agents |-> 0]
  /\ attached = [a \in Agents |-> NoOne] /\ registered = {}
  /\ stop = [s \in Stops |-> "idle"]
  /\ target = [s \in Stops |-> NoOne]
  /\ crashes = 0

MainStep(d) ==
  Listen(d) \/ WritePIDFile(d) \/ RemovePIDFile(d) \/ LeavePort(d)
  \/ CloseBridge(d) \/ Exit(d)
CloserStep(d) == CloserListener(d) \/ CloserBridge(d) \/ CloserCancels(d)
IdleStep(d) == IdleCloses(d) \/ OnIdleShutdown(d)
EnsureStep(a) ==
  \/ FindBridge(a) \/ CheckToken(a) \/ FindForeign(a) \/ Spawn(a)
  \/ SpawnFails(a) \/ SeesExit(a) \/ PollInterval(a) \/ Poll(a)
  \/ ReadyTimeout(a) \/ Interrupted(a)
StopStep(s) ==
  \/ StopProbes(s) \/ ShutdownAccepted(s) \/ ShutdownRefused(s)
  \/ ReadPIDFile(s) \/ Terminate(s)

Next ==
  \/ \E m \in Manual : StartByHand(m)
  \/ \E d \in Daemons : \/ MainStep(d) \/ CloserStep(d) \/ IdleStep(d)
                        \/ IdleTimerFires(d) \/ KickOne(d) \/ Crash(d)
  \/ \E a \in Agents : EnsureStep(a) \/ Dial(a) \/ AttachAgent(a) \/ ProxyEnds(a)
  \/ \E s \in Stops : StopStep(s)

Spec == Init /\ [][Next]_vars

\* Processes and goroutines that run are scheduled. Nobody has to start an agent
\* or a stop command, or to hang up, and no daemon has to become idle.
Fairness ==
  \A d \in Daemons : /\ WF_vars(MainStep(d)) /\ WF_vars(CloserStep(d))
                     /\ WF_vars(IdleStep(d)) /\ WF_vars(KickOne(d))

FairSpec == Spec /\ Fairness

-----------------------------------------------------------------------------
(***************************************************************************)
(* Properties.                                                             *)
(***************************************************************************)
\* Every variable has the shape the code gives it; Ensure polls no longer than
\* readyTimeout.
TypeOK ==
  /\ listener \in Daemons \cup {NoOne, Foreign}
  /\ pidFile \in Daemons \cup {NoOne}
  /\ main \in [Daemons -> {"none", "start", "listening", "serving", "leaving",
                           "closing", "kicking", "ending", "exited", "lost",
                           "crashed"}]
  /\ cancelled \in [Daemons -> BOOLEAN]
  /\ bridge \in [Daemons -> {"up", "closed"}]
  /\ idle \in [Daemons -> {"no", "fired", "kick", "closed", "over"}]
  /\ closer \in [Daemons -> {"no", "listener", "bridge", "kick", "cancel", "over"}]
  /\ agent \in [Agents -> {"idle", "token", "select", "poll", "ready", "exited",
                           "failed", "proxy", "done"}]
  /\ polls \in [Agents -> 0..MaxPolls]
  /\ attached \in [Agents -> Daemons \cup {NoOne}] /\ registered \subseteq Agents
  /\ stop \in [Stops -> {"idle", "nothing", "post", "read", "kill", "stopped",
                         "failed"}]
  /\ target \in [Stops -> Daemons \cup {NoOne}]
  /\ crashes \in 0..MaxCrashes

\* The pid file never names a daemon that ended in good order, however the ends
\* of one daemon and the starts of the next interleave: what it names serves, or
\* was killed.
PidFileIsTidy == pidFile # NoOne => main[pidFile] \in {"serving", "crashed"}

\* No proxy is left behind on a bridge that has closed: whoever is registered there
\* has somebody about to hang up on it, although the callers of Close that come second
\* go on at once, connections are registered some time after they were accepted, and
\* the process, if nobody hangs up, is still there.
ProxiesAreServed ==
  \A a \in Agents :
    LET d == attached[a] IN
    d # NoOne => Runs(d) /\ (bridge[d] = "up" \/ Upgraded(a) \/ Kicking(d))

\* When a stop command reports success, the daemon it reached ends, by whichever
\* way it was reached.
StopIsKept ==
  \A s \in Stops, d \in Daemons :
    (stop[s] = "stopped" /\ target[s] = d) ~> ~Runs(d)

\* However many daemons were started for the port and in whatever order the old
\* ones leave, in the end at most one process is left.
OneRemains == <>[](Cardinality({d \in Daemons : Runs(d)}) <= 1)

\* Ensure ("attaches to a running bridge or spawns a detached daemon and waits
\* until it is ready"): it does not give up because the daemon it spawned has
\* exited while a bridge is running on the port.
EnsureFindsTheBridge ==
  [][\A a \in Agents :
       (agent[a] # "exited" /\ agent'[a] = "exited") => listener \notin Daemons]_vars
=============================================================================
