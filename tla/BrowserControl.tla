--------------------------- MODULE BrowserControl ---------------------------
(***************************************************************************)
(* The browser provider with its tools and the bridge profiles             *)
(* (packages/extension/src/browser-provider.ts, browser-tools.ts,          *)
(* bridge-profiles.ts and their uses in background.ts).                    *)
(*                                                                         *)
(* A bridge is a canonical configuration; a profile its entry in the list, *)
(* which is kept most recently used first.  A dial is named by the         *)
(* generation it got.  One action is the code between two awaits.  Tab ids *)
(* are not reused in a browser session.                                    *)
(***************************************************************************)
EXTENDS Naturals, Sequences, FiniteSets, Selections

CONSTANTS
  Bridges, Fallback,  \* configurations, and the one junk is clamped to
  PinTabs,            \* tabs the user has, or an agent may open
  AgentCalls,         \* tool calls under way at a time
  MaxProfiles, MaxDials,
  Budgets

ControlBounds == MaxProfiles \in Nat \ {0} /\ MaxDials \in Nat /\ Fallback \in Bridges

Inputs == Bridges \cup {"junk"}
Dials == 1..MaxDials

VARIABLES
  mem,        \* the worker's: profiles, default, pins (tabBridgeOverrides), control
  stored,     \* the same in storage
  ready,      \* booted has settled
  made,       \* profile ids handed out
  asked,      \* per tab: the setTabBridge under way, if any
  pinned,     \* per tab: the bridge last confirmed to the user, if any
  applying,   \* setSettings requests between their assignments and their effect
  provider,   \* want, ws, generation, timer
  dial,       \* per generation: what has become of its socket
  openTabs,   \* per tab: who opened it, "nobody" if it does not exist
  agentTabs,  \* the set in storage
  agentCall,  \* per call
  tidying,    \* onRemoved handlers that have read agentTabs
  strayed,    \* a tab of the user was closed with the agent's
  left

bridgeVars == <<asked, pinned>>
dialVars == <<applying, provider, dial>>
toolVars == <<openTabs, agentTabs, agentCall, tidying, strayed>>
controlVars == <<mem, stored, ready, made, bridgeVars, dialVars, toolVars, left>>

\* A tab that is there now.
Exists(t) == openTabs[t] \in {"user", "agent"}

Spend(what) == left[what] > 0 /\ left' = [left EXCEPT ![what] = @ - 1]

-----------------------------------------------------------------------------
(***************************************************************************)
(* Profiles: bridge-profiles.ts.                                           *)
(***************************************************************************)
Unset == [profiles |-> <<>>, default |-> 0, pins |-> [t \in PinTabs |-> 0], control |-> FALSE]

NormalizeBridge(input) == IF input \in Bridges THEN input ELSE Fallback
SameBridge(p, bridge) == p.bridge = bridge

ProfileIds(profiles) == {profiles[i].id : i \in DOMAIN profiles}

\* The least recently used beyond the cap go, those in keep stay.
Evict(profiles, keep) ==
  LET evictable == {i \in DOMAIN profiles : profiles[i].id \notin keep}
      out == {i \in evictable : Cardinality({k \in evictable : k > i})
                                  + MaxProfiles < Len(profiles)}
  IN  Subsequence(profiles, DOMAIN profiles \ out)

\* The profile of a bridge, found or made.
ProfileFor(profiles, bridge) ==
  LET known == {i \in DOMAIN profiles : SameBridge(profiles[i], bridge)}
  IN  IF known = {} THEN [id |-> made + 1, bridge |-> bridge]
      ELSE profiles[CHOOSE i \in known : \A j \in known : i <= j]

\* The list with a profile in front, as just used.
Bumped(profiles, profile) ==
  <<profile>> \o Subsequence(profiles, {i \in DOMAIN profiles : profiles[i].id # profile.id})

\* mutant: a profile in use can be evicted
UpsertAndForget(profiles, input, inUse) ==
  LET profile == ProfileFor(profiles, NormalizeBridge(input))
  IN  Evict(Bumped(profiles, profile), {profile.id})

UpsertProfile(profiles, input, inUse) ==
  LET profile == ProfileFor(profiles, NormalizeBridge(input))
  IN  Evict(Bumped(profiles, profile), inUse \cup {profile.id})

\* The first of several profiles of one bridge stays.
ParseProfiles(profiles) ==
  Subsequence(profiles, {i \in DOMAIN profiles :
                           \A j \in 1..(i - 1) : ~SameBridge(profiles[j], profiles[i].bridge)})

InUseProfileIds(m) == ({m.default} \cup {m.pins[t] : t \in PinTabs}) \ {0}

ProfileById(m, id) == m.profiles[CHOOSE i \in DOMAIN m.profiles : m.profiles[i].id = id]

BridgeConfigFor(t) ==
  LET id == IF mem.pins[t] \in ProfileIds(mem.profiles) THEN mem.pins[t] ELSE mem.default
  IN  ProfileById(mem, id).bridge

\* made moves on exactly if a profile was made.
Count(profiles) == made' = IF made + 1 \in ProfileIds(profiles) THEN made + 1 ELSE made

-----------------------------------------------------------------------------
(***************************************************************************)
(* The connection: browser-provider.ts.                                    *)
(***************************************************************************)
Live(g) == dial[g] \in {"connecting", "open"}

\* A provider and the sockets, as two of the code's functions leave them.
Torn(p) == [p EXCEPT !.generation = @ + 1, !.ws = 0]
TornDials(p, d) == IF p.ws = 0 THEN d ELSE [d EXCEPT ![p.ws] = "closing"]

\* connect, up to its await for the URL.
Connect(p, d) ==
  IF ~p.want \/ p.ws # 0 THEN provider' = p /\ dial' = d
  ELSE /\ p.generation < MaxDials
       /\ provider' = [p EXCEPT !.generation = @ + 1]
       /\ dial' = [d EXCEPT ![p.generation + 1] = "dialing"]

Schedule(p) == IF p.want THEN [p EXCEPT !.timer = TRUE] ELSE p

Start == IF provider.want THEN UNCHANGED <<provider, dial>>
         ELSE Connect([provider EXCEPT !.want = TRUE], dial)

Stop == /\ provider.generation < MaxDials
        /\ provider' = Torn([provider EXCEPT !.want = FALSE, !.timer = FALSE])
        /\ dial' = TornDials(provider, dial)

\* It does nothing for a provider that is not wanted yet.
Restart == IF ~provider.want THEN UNCHANGED <<provider, dial>>
           ELSE Connect(Torn(provider), TornDials(provider, dial))

\* mutant: connect does not look again after the await
Claim(g) == provider.ws = 0

\* The check once the URL is there.
IsCurrent(g) == provider.want /\ provider.generation = g /\ provider.ws = 0

\* The rest of connect.
Dialed(g) ==
  /\ dial[g] = "dialing"
  /\ IF IsCurrent(g)
       THEN provider' = [provider EXCEPT !.ws = g] /\ dial' = [dial EXCEPT ![g] = "connecting"]
       ELSE UNCHANGED provider /\ dial' = [dial EXCEPT ![g] = "closed"]
  /\ UNCHANGED <<mem, stored, ready, made, bridgeVars, applying, toolVars, left>>

\* No URL can be made of the configuration, or no socket of the URL.
DialFails(g) ==
  /\ dial[g] = "dialing" /\ Spend("drops")
  /\ dial' = [dial EXCEPT ![g] = "closed"]
  /\ provider' = Schedule(provider)
  /\ UNCHANGED <<mem, stored, ready, made, bridgeVars, applying, toolVars>>

Opened(g) ==
  /\ dial[g] = "connecting"
  /\ dial' = [dial EXCEPT ![g] = "open"]
  /\ UNCHANGED <<mem, stored, ready, made, bridgeVars, applying, provider, toolVars, left>>

\* The close event: of a socket closed here, or because the daemon is not there.
Closed(g) ==
  /\ \/ dial[g] = "closing" /\ UNCHANGED left
     \/ Live(g) /\ Spend("drops")
  /\ dial' = [dial EXCEPT ![g] = "closed"]
  /\ provider' = IF provider.generation # g THEN provider
                 ELSE Schedule([provider EXCEPT !.ws = 0])
  /\ UNCHANGED <<mem, stored, ready, made, bridgeVars, applying, toolVars>>

TimerFires ==
  /\ provider.timer
  /\ Connect([provider EXCEPT !.timer = FALSE], dial)
  /\ UNCHANGED <<mem, stored, ready, made, bridgeVars, applying, toolVars, left>>

-----------------------------------------------------------------------------
(***************************************************************************)
(* The worker: boot, the popup's requests, the alarm, being recycled.      *)
(***************************************************************************)
\* booted: what is stored, with a default made up the first time.
Boot ==
  /\ ~ready
  /\ LET read == [stored EXCEPT !.profiles = ParseProfiles(@)]
         full == IF read.default \in ProfileIds(read.profiles) THEN read
                 ELSE LET profiles == UpsertProfile(read.profiles, "junk", {})
                      IN  [read EXCEPT !.profiles = profiles, !.default = Head(profiles).id]
     IN  /\ mem' = full
         /\ stored' = [stored EXCEPT !.profiles = full.profiles, !.default = full.default]
         /\ Count(full.profiles)
         /\ IF full.control THEN Start ELSE UNCHANGED <<provider, dial>>
  /\ ready' = TRUE
  /\ UNCHANGED <<bridgeVars, applying, toolVars, left>>

\* setTabBridge, up to and with the write of the profiles. Of two that overlap for one
\* tab both answer with the later bridge ...
SetTabBridge(t, input) ==
  /\ ready /\ openTabs[t] # "nobody" /\ Spend("pins")
  /\ LET profiles == UpsertProfile(mem.profiles, input, InUseProfileIds(mem))
         id == Head(profiles).id
     IN  /\ mem' = [mem EXCEPT !.profiles = profiles, !.pins[t] = id, !.default = id]
         /\ stored' = [stored EXCEPT !.profiles = profiles, !.default = id]
         /\ Count(profiles)
  /\ asked' = [asked EXCEPT ![t] = {NormalizeBridge(input)}]
  /\ pinned' = [pinned EXCEPT ![t] = {}]
  /\ UNCHANGED <<ready, dialVars, toolVars>>

\* ... and the write of the pins, with the answer; a second one writes the same.
StorePins(t) ==
  /\ asked[t] # {}
  /\ stored' = [stored EXCEPT !.pins = mem.pins]
  /\ asked' = [asked EXCEPT ![t] = {}]
  /\ pinned' = IF Exists(t) THEN [pinned EXCEPT ![t] = asked[t]] ELSE pinned
  /\ UNCHANGED <<mem, ready, made, dialVars, toolVars, left>>

\* setSettings: the switch is taken over, and acted upon after awaits.
SetSettings(on) ==
  /\ ready /\ Spend("switches")
  /\ mem' = [mem EXCEPT !.control = on]
  /\ applying' = applying + 1
  /\ UNCHANGED <<stored, ready, made, bridgeVars, provider, dial, toolVars>>

ApplySettings ==
  /\ applying > 0
  /\ applying' = applying - 1
  /\ stored' = [stored EXCEPT !.control = mem.control]
  /\ IF mem.control THEN Restart ELSE Stop
  /\ UNCHANGED <<mem, ready, made, bridgeVars, toolVars, left>>

\* The keepalive alarm's part for the provider.
Alarm ==
  /\ ready /\ mem.control /\ ~provider.want /\ Spend("wakes")
  /\ Start
  /\ UNCHANGED <<mem, stored, ready, made, bridgeVars, applying, toolVars>>

\* The browser ends the worker: storage is left; its sockets go. Generations
\* are counted on, to name the dials.
Recycle ==
  /\ Spend("recycles")
  /\ mem' = Unset /\ ready' = FALSE
  /\ asked' = [t \in PinTabs |-> {}] /\ applying' = 0
  /\ provider' = [provider EXCEPT !.want = FALSE, !.ws = 0, !.timer = FALSE]
  /\ dial' = [g \in Dials |-> IF dial[g] = "none" THEN "none" ELSE "closed"]
  /\ agentCall' = [c \in AgentCalls |-> [at |-> "idle"]] /\ tidying' = {}
  /\ UNCHANGED <<stored, made, pinned, openTabs, agentTabs, strayed>>

-----------------------------------------------------------------------------
(***************************************************************************)
(* The tools that change something here.  getAgentTabs and saveAgentTabs   *)
(* read and write storage with awaits between.                             *)
(***************************************************************************)
PutCall(c, r) == agentCall' = [agentCall EXCEPT ![c] = r]
UNCHANGEDBesides(vs) == UNCHANGED <<mem, stored, ready, made, bridgeVars, dialVars, vs>>

\* trackAgentTab and forgetAgentTabs, after create and remove: read, then save.
ReadAgentTabs(c) ==
  /\ agentCall[c].at \in {"track", "forget"}
  /\ PutCall(c, [at |-> "save", set |-> IF agentCall[c].at = "track"
                                          THEN agentTabs \cup agentCall[c].tabs
                                          ELSE agentTabs \ agentCall[c].tabs])
  /\ UNCHANGEDBesides(<<openTabs, agentTabs, tidying, strayed, left>>)

SaveAgentTabs(c) ==
  /\ agentCall[c].at = "save"
  /\ agentTabs' = agentCall[c].set
  /\ PutCall(c, [at |-> "idle"])
  /\ UNCHANGEDBesides(<<openTabs, tidying, strayed, left>>)

\* open_tab; enabling it is an action of TabWorker.
OpenTab(c, t) ==
  /\ ready /\ agentCall[c].at = "idle" /\ openTabs[t] = "nobody" /\ Spend("tools")
  /\ openTabs' = [openTabs EXCEPT ![t] = "agent"]
  /\ PutCall(c, [at |-> "track", tabs |-> {t}])
  /\ UNCHANGEDBesides(<<agentTabs, tidying, strayed>>)

\* mutant: a tab that enable_tab enables is tracked as well
EnableAndTrack(c, t) ==
  /\ ready /\ agentCall[c].at = "idle" /\ Exists(t) /\ Spend("tools")
  /\ PutCall(c, [at |-> "track", tabs |-> {t}])
  /\ UNCHANGEDBesides(<<openTabs, agentTabs, tidying, strayed>>)

\* enable_tab: the tab stays the user's (TabWorker has the enabling).
EnableTab(c, t) ==
  /\ ready /\ agentCall[c].at = "idle" /\ Exists(t) /\ Spend("tools")
  /\ UNCHANGEDBesides(<<openTabs, agentTabs, agentCall, tidying, strayed>>)

\* onRemoved, which the browser delivers for every tab that goes: its pin goes,
\* if it is loaded; the agent's set is read.
TabGoes(t) ==
  /\ openTabs' = [openTabs EXCEPT ![t] = "gone"]
  /\ tidying' = tidying \cup {[tab |-> t, set |-> agentTabs]}
  /\ mem' = [mem EXCEPT !.pins[t] = 0]
  /\ stored' = IF mem.pins[t] = 0 THEN stored ELSE [stored EXCEPT !.pins = mem'.pins]
  /\ pinned' = [pinned EXCEPT ![t] = {}]

UserCloses(t) ==
  /\ Exists(t) /\ Spend("ends")
  /\ TabGoes(t)
  /\ UNCHANGED <<ready, made, asked, dialVars, agentTabs, agentCall, strayed>>

Tidied(h) ==
  /\ tidying' = tidying \ {h}
  /\ agentTabs' = IF h.tab \in h.set THEN h.set \ {h.tab} ELSE agentTabs
  /\ UNCHANGEDBesides(<<openTabs, agentCall, strayed, left>>)

\* close_tab.
CloseTab(c, t) ==
  /\ ready /\ agentCall[c].at = "idle" /\ Exists(t) /\ Spend("tools")
  /\ TabGoes(t)
  /\ PutCall(c, [at |-> "forget", tabs |-> {t}])
  /\ UNCHANGED <<ready, made, asked, dialVars, agentTabs, strayed>>

\* close_agent_tabs: reads the set and closes one after the other.
ListAgentTabs(c) ==
  /\ ready /\ agentCall[c].at = "idle" /\ agentTabs # {} /\ Spend("tools")
  /\ PutCall(c, [at |-> "closing", tabs |-> agentTabs, todo |-> agentTabs])
  /\ UNCHANGEDBesides(<<openTabs, agentTabs, tidying, strayed>>)

CloseAgentTab(c, t) ==
  /\ agentCall[c].at = "closing" /\ t \in agentCall[c].todo
  /\ PutCall(c, IF agentCall[c].todo = {t} THEN [at |-> "forget", tabs |-> agentCall[c].tabs]
                ELSE [agentCall[c] EXCEPT !.todo = @ \ {t}])
  /\ IF ~Exists(t)
       THEN UNCHANGED <<mem, stored, pinned, openTabs, tidying, strayed>>
       ELSE TabGoes(t) /\ strayed' = (strayed \/ openTabs[t] = "user")
  /\ UNCHANGED <<ready, made, asked, dialVars, agentTabs, left>>

-----------------------------------------------------------------------------
Init ==
  /\ mem = Unset /\ stored = Unset /\ ready = FALSE /\ made = 0
  /\ asked = [t \in PinTabs |-> {}] /\ pinned = asked
  /\ applying = 0
  /\ provider = [want |-> FALSE, ws |-> 0, generation |-> 0, timer |-> FALSE]
  /\ dial = [g \in Dials |-> "none"]
  /\ openTabs \in [PinTabs -> {"user", "nobody"}]
  /\ agentTabs = {} /\ tidying = {} /\ strayed = FALSE
  /\ agentCall = [c \in AgentCalls |-> [at |-> "idle"]]
  /\ left \in Budgets

Next ==
  \/ Boot \/ ApplySettings \/ Alarm \/ Recycle \/ TimerFires
  \/ \E g \in Dials : Dialed(g) \/ DialFails(g) \/ Opened(g) \/ Closed(g)
  \/ \E t \in PinTabs, input \in Inputs : SetTabBridge(t, input)
  \/ \E t \in PinTabs : StorePins(t) \/ UserCloses(t)
  \/ \E on \in BOOLEAN : SetSettings(on)
  \/ \E h \in tidying : Tidied(h)
  \/ \E c \in AgentCalls : ReadAgentTabs(c) \/ SaveAgentTabs(c) \/ ListAgentTabs(c)
  \/ \E c \in AgentCalls, t \in PinTabs :
       OpenTab(c, t) \/ EnableTab(c, t) \/ CloseTab(c, t) \/ CloseAgentTab(c, t)

Spec == Init /\ [][Next]_controlVars

-----------------------------------------------------------------------------
\* Types: nobody names a profile, a dial or a tab that does not exist.
TypeOK ==
  /\ \A m \in {mem, stored} :
       /\ m.profiles \in Seq([id : 1..made, bridge : Bridges])
       /\ m.default \in 0..made /\ m.pins \in [PinTabs -> 0..made] /\ m.control \in BOOLEAN
  /\ ready \in BOOLEAN /\ made \in Nat /\ applying \in Nat /\ strayed \in BOOLEAN
  /\ asked \in [PinTabs -> SUBSET Bridges] /\ pinned \in [PinTabs -> SUBSET Bridges]
  /\ provider \in [want : BOOLEAN, ws : 0..MaxDials, generation : 0..MaxDials, timer : BOOLEAN]
  /\ dial \in [Dials -> {"none", "dialing", "connecting", "open", "closing", "closed"}]
  /\ openTabs \in [PinTabs -> {"nobody", "user", "agent", "gone"}]
  /\ agentTabs \subseteq PinTabs /\ \A h \in tidying : h.tab \in PinTabs

\* A bridge confirmed to the user for a tab is the tab's bridge as long as the
\* tab exists: through evictions for other tabs and restarts of the worker.
PinnedBridgeStays ==
  ready => \A t \in PinTabs : \A b \in pinned[t] : BridgeConfigFor(t) = b

\* Whatever the order of switches, restarts, timers and late events of sockets,
\* the only socket alive is the current one of a provider that is wanted; and such
\* a provider has one, or is about to dial.
OneBrowserConnection ==
  /\ \A g \in Dials : Live(g) => provider.want /\ provider.ws = g
  /\ provider.want => \/ provider.ws # 0
                      \/ provider.timer
                      \/ \E g \in Dials : dial[g] = "dialing" /\ IsCurrent(g)

\* close_agent_tabs leaves the user's own tabs alone.
SparesTheUser == ~strayed

=============================================================================
