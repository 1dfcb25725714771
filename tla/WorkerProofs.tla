---------------------------- MODULE WorkerProofs ----------------------------
(***************************************************************************)
(* Theorems about the sockets of the service worker: the browser           *)
(* provider's connection, the sockets of the tabs, and those of them that  *)
(* a navigation holds.                                                     *)
(***************************************************************************)
EXTENDS Extension, FiniteSetTheorems, SequenceTheorems, TLAPS

(***************************************************************************)
(* The browser provider's connection: provider.ws is the current           *)
(* generation's socket or none, later generations have not been dialled,   *)
(* and nothing but that socket is alive.                                   *)
(***************************************************************************)
LinkSound(p, d) ==
  /\ DOMAIN p = {"want", "ws", "generation", "timer"} /\ p.want \in BOOLEAN
  /\ p.generation \in Nat /\ p.ws \in {0, p.generation}
  /\ DOMAIN d = Control!Dials
  /\ \A g \in Control!Dials : /\ g > p.generation => d[g] = "none"
                              /\ d[g] \in {"connecting", "open"} => p.want /\ p.ws = g

LinkCovered(p, d) ==
  p.want => \/ p.ws # 0
            \/ p.timer
            \/ \E g \in Control!Dials : d[g] = "dialing" /\ p.generation = g /\ p.ws = 0

LinkInv == LinkSound(provider, dial) /\ LinkCovered(provider, dial)

\* Dials are numbered from 1.
LEMMA DialNumbers == MaxDials \in Nat /\ Control!Dials = 1..MaxDials
BY Bounds DEF Control!ControlBounds, Control!Dials

\* connect leaves the connection in order, whatever provider and sockets it finds in order.
LEMMA ConnectKeeps ==
  ASSUME NEW p, NEW d, LinkSound(p, d), Control!Connect(p, d)
  PROVE LinkInv'
<1>1. CASE ~p.want \/ p.ws # 0
  <2>1. provider' = p /\ dial' = d BY <1>1 DEF Control!Connect
  <2> QED BY <1>1, <2>1 DEF LinkInv, LinkSound, LinkCovered
<1>2. CASE p.want /\ p.ws = 0
  <2>1. PICK g : g = p.generation + 1 OBVIOUS
  <2>2. /\ g \in Control!Dials /\ g > 0 /\ g \in Nat /\ g > p.generation
        /\ provider' = [p EXCEPT !.generation = g] /\ dial' = [d EXCEPT ![g] = "dialing"]
    BY <1>2, <2>1, DialNumbers DEF Control!Connect, LinkSound
  <2>3. /\ DOMAIN provider' = DOMAIN p /\ provider'.want = p.want /\ provider'.ws = 0
        /\ provider'.timer = p.timer /\ provider'.generation = g
    BY <1>2, <2>2 DEF LinkSound
  <2>4. /\ DOMAIN dial' = Control!Dials /\ dial'[g] = "dialing"
        /\ \A h \in Control!Dials : h # g => dial'[h] = d[h]
    BY <2>2 DEF LinkSound
  <2>5. ASSUME NEW h \in Control!Dials
        PROVE /\ h > g => dial'[h] = "none"
              /\ dial'[h] \notin {"connecting", "open"}
    <3>1. h \in Nat /\ h > 0 BY DialNumbers
    <3>2. CASE h = g BY <3>2, <2>4, <2>2
    <3>3. CASE h # g
      <4>1. dial'[h] = d[h] BY <3>3, <2>4
      <4>2. d[h] \notin {"connecting", "open"} BY <3>1, <1>2 DEF LinkSound
      <4>3. h > g => h > p.generation BY <3>1, <2>1, <2>2 DEF LinkSound
      <4> QED BY <4>1, <4>2, <4>3 DEF LinkSound
    <3> QED BY <3>2, <3>3
  <2>6. LinkSound(provider, dial)' BY <1>2, <2>2, <2>3, <2>4, <2>5 DEF LinkSound
  <2>7. LinkCovered(provider, dial)' BY <2>2, <2>3, <2>4 DEF LinkCovered
  <2> QED BY <2>6, <2>7 DEF LinkInv
<1> QED BY <1>1, <1>2 DEF LinkSound

\* Taking the socket away leaves the connection in order, though maybe without a socket.
LEMMA TearingKeeps ==
  ASSUME NEW p, NEW d, LinkSound(p, d)
  PROVE LinkSound(Control!Torn(p), Control!TornDials(p, d))
<1>1. PICK q : q = Control!Torn(p) OBVIOUS
<1>2. PICK e : e = Control!TornDials(p, d) OBVIOUS
<1>3. /\ DOMAIN q = DOMAIN p /\ q.want = p.want /\ q.ws = 0 /\ q.generation = p.generation + 1
  BY <1>1 DEF Control!Torn, LinkSound
<1>4. /\ DOMAIN e = DOMAIN d
      /\ \A g \in Control!Dials : e[g] = IF p.ws # 0 /\ g = p.ws THEN "closing" ELSE d[g]
  BY <1>2 DEF Control!TornDials, LinkSound
<1>5. ASSUME NEW g \in Control!Dials
      PROVE /\ g > q.generation => e[g] = "none"
            /\ e[g] \notin {"connecting", "open"}
  <2>1. g \in Nat /\ g > 0 BY DialNumbers
  <2>2. CASE p.ws # 0 /\ g = p.ws
    <3>1. ~(g > p.generation + 1) BY <2>1, <2>2 DEF LinkSound
    <3> QED BY <3>1, <2>2, <1>3, <1>4
  <2>3. CASE ~(p.ws # 0 /\ g = p.ws)
    <3>1. e[g] = d[g] BY <2>3, <1>4
    <3>2. g > p.generation + 1 => g > p.generation BY <2>1 DEF LinkSound
    <3> QED BY <3>1, <3>2, <2>1, <2>3, <1>3 DEF LinkSound
  <2> QED BY <2>2, <2>3
<1>6. LinkSound(q, e) BY <1>3, <1>4, <1>5 DEF LinkSound
<1> QED BY <1>1, <1>2, <1>6

\* What a change of the provider's wish or timer alone does.
LEMMA WishesKeep ==
  ASSUME NEW p, NEW d, LinkSound(p, d), NEW q,
         DOMAIN q = DOMAIN p, q.ws = p.ws, q.generation = p.generation,
         q.want = p.want \/ q.want = TRUE
  PROVE LinkSound(q, d)
BY DEF LinkSound

\* start, stop and restart.
LEMMA SwitchesKeep ==
  ASSUME LinkInv
  PROVE (Control!Start \/ Control!Stop \/ Control!Restart) => LinkInv'
<1>0. LinkSound(provider, dial) BY DEF LinkInv
<1>1. ASSUME UNCHANGED <<provider, dial>> PROVE LinkInv'
  BY <1>1 DEF LinkInv, LinkSound, LinkCovered
<1>2. ASSUME Control!Start, ~provider.want PROVE LinkInv'
  <2>1. PICK q : q = [provider EXCEPT !.want = TRUE] OBVIOUS
  <2>2. /\ DOMAIN q = DOMAIN provider /\ q.ws = provider.ws /\ q.generation = provider.generation
        /\ q.want = TRUE
    BY <2>1, <1>0 DEF LinkSound
  <2>3. LinkSound(q, dial) BY <2>2, <1>0, WishesKeep
  <2>4. Control!Connect(q, dial) BY <1>2, <2>1 DEF Control!Start
  <2> QED BY <2>3, <2>4, ConnectKeeps
<1>3. ASSUME Control!Restart, provider.want PROVE LinkInv'
  <2>1. Control!Connect(Control!Torn(provider), Control!TornDials(provider, dial))
    BY <1>3 DEF Control!Restart
  <2> QED BY <2>1, <1>0, ConnectKeeps, TearingKeeps
<1>4. ASSUME Control!Stop PROVE LinkInv'
  <2>1. PICK q : q = [provider EXCEPT !.want = FALSE, !.timer = FALSE] OBVIOUS
  <2>2. DOMAIN q = DOMAIN provider /\ q.ws = provider.ws /\ q.generation = provider.generation
        /\ q.want = FALSE
    BY <2>1, <1>0 DEF LinkSound
  <2>3. PICK e : e = Control!TornDials(provider, dial) OBVIOUS
  <2>4. provider' = Control!Torn(q) /\ dial' = e BY <1>4, <2>1, <2>3 DEF Control!Stop
  <2>5. /\ DOMAIN provider' = DOMAIN q /\ provider'.want = FALSE /\ provider'.ws = 0
        /\ provider'.generation = q.generation + 1
    BY <2>2, <2>4, <1>0 DEF Control!Torn, LinkSound
  <2>6. PICK u : u = Control!Torn(provider) /\ LinkSound(u, e) BY <2>3, <1>0, TearingKeeps
  <2>7. u.ws = 0 /\ DOMAIN e = Control!Dials /\ u.generation = provider.generation + 1
    BY <2>6, <1>0 DEF Control!Torn, LinkSound
  <2>8. ASSUME NEW g \in Control!Dials
        PROVE /\ g > provider.generation + 1 => e[g] = "none"
              /\ e[g] \notin {"connecting", "open"}
    <3>1. g # 0 BY DialNumbers
    <3>2. /\ g > u.generation => e[g] = "none"
          /\ e[g] \in {"connecting", "open"} => u.ws = g
      BY <2>6 DEF LinkSound
    <3> QED BY <3>1, <3>2, <2>7
  <2>9. LinkSound(provider, dial)'
    <3>1. /\ DOMAIN provider' = {"want", "ws", "generation", "timer"}
          /\ provider'.generation = provider.generation + 1 /\ provider.generation \in Nat
      BY <2>2, <2>5, <1>0 DEF LinkSound
    <3>2. provider'.generation \in Nat BY <3>1
    <3>3. dial' = e BY <2>4
    <3> QED BY <3>1, <3>2, <3>3, <2>5, <2>7, <2>8 DEF LinkSound
  <2>10. LinkCovered(provider, dial)' BY <2>5 DEF LinkCovered
  <2> QED BY <2>9, <2>10 DEF LinkInv
<1> QED BY <1>1, <1>2, <1>3, <1>4 DEF Control!Start, Control!Restart

\* The socket of one generation goes on as said, and the provider as it has to then.
LEMMA EventsKeep ==
  ASSUME LinkInv, NEW g \in Control!Dials
  PROVE (Control!Dialed(g) \/ Control!DialFails(g) \/ Control!Opened(g) \/ Control!Closed(g))
        => LinkInv'
<1>0. /\ LinkSound(provider, dial) /\ LinkCovered(provider, dial) /\ g \in Nat /\ g # 0
      /\ DOMAIN provider = {"want", "ws", "generation", "timer"} /\ DOMAIN dial = Control!Dials
      /\ provider.want \in BOOLEAN /\ provider.generation \in Nat
  BY DialNumbers DEF LinkInv, LinkSound
<1>1. ASSUME NEW what \in {"connecting", "open", "closed"}, dial' = [dial EXCEPT ![g] = what],
             DOMAIN provider' = DOMAIN provider,
             provider'.want = provider.want, provider'.generation = provider.generation,
             provider'.ws \in {0, provider.ws, g}, provider'.ws \in {0, provider.generation},
             what # "closed" => provider.want /\ provider'.ws = g,
             dial[g] # "none",
             \A h \in Control!Dials : h # g /\ dial[h] \in {"connecting", "open"}
                                      => provider'.ws = provider.ws,
             LinkCovered(provider, dial)'
      PROVE LinkInv'
  <2>1. DOMAIN dial' = Control!Dials
        /\ \A h \in Control!Dials : dial'[h] = IF h = g THEN what ELSE dial[h]
    BY <1>0, <1>1
  <2>2. ~(g > provider.generation) BY <1>0, <1>1 DEF LinkSound
  <2>3. ASSUME NEW h \in Control!Dials
        PROVE /\ h > provider.generation => dial'[h] = "none"
              /\ dial'[h] \in {"connecting", "open"} => provider.want /\ provider'.ws = h
    <3>1. CASE h = g BY <3>1, <2>1, <2>2, <1>1
    <3>2. CASE h # g BY <3>2, <2>1, <1>0, <1>1 DEF LinkSound
    <3> QED BY <3>1, <3>2
  <2>4. LinkSound(provider, dial)' BY <2>1, <2>3, <1>0, <1>1 DEF LinkSound
  <2> QED BY <2>4, <1>1 DEF LinkInv
<1>2. ASSUME Control!Dialed(g), Control!IsCurrent(g) PROVE LinkInv'
  <2>1. /\ provider' = [provider EXCEPT !.ws = g] /\ dial' = [dial EXCEPT ![g] = "connecting"]
        /\ provider.want /\ provider.ws = 0 /\ provider.generation = g /\ dial[g] = "dialing"
    BY <1>2 DEF Control!Dialed, Control!IsCurrent
  <2>2. /\ DOMAIN provider' = DOMAIN provider /\ provider'.want = provider.want
        /\ provider'.generation = provider.generation /\ provider'.ws = g
    BY <2>1, <1>0
  <2>3. \A h \in Control!Dials : dial[h] \notin {"connecting", "open"}
    BY <2>1, <1>0, DialNumbers DEF LinkSound
  <2>4. LinkCovered(provider, dial)' BY <2>2, <1>0 DEF LinkCovered
  <2> QED BY <2>1, <2>2, <2>3, <2>4, <1>1
<1>3. ASSUME Control!Dialed(g), ~Control!IsCurrent(g) PROVE LinkInv'
  <2>1. provider' = provider /\ dial' = [dial EXCEPT ![g] = "closed"] /\ dial[g] = "dialing"
    BY <1>3 DEF Control!Dialed
  <2>2. LinkCovered(provider, dial)'
    <3>1. SUFFICES ASSUME provider.want, provider.ws = 0, ~provider.timer
                   PROVE \E h \in Control!Dials : /\ dial'[h] = "dialing"
                                                  /\ provider.generation = h
      BY <2>1 DEF LinkCovered
    <3>2. PICK h \in Control!Dials : dial[h] = "dialing" /\ provider.generation = h
      BY <3>1, <1>0 DEF LinkCovered
    <3>3. h # g BY <3>1, <3>2, <1>3 DEF Control!IsCurrent
    <3> QED BY <3>2, <3>3, <2>1, <1>0
  <2> QED BY <2>1, <2>2, <1>0, <1>1 DEF LinkSound
<1>4. ASSUME Control!DialFails(g) PROVE LinkInv'
  <2>1. /\ provider' = Control!Schedule(provider) /\ dial' = [dial EXCEPT ![g] = "closed"]
        /\ dial[g] = "dialing"
    BY <1>4 DEF Control!DialFails
  <2>2. /\ DOMAIN provider' = DOMAIN provider /\ provider'.want = provider.want
        /\ provider'.generation = provider.generation /\ provider'.ws = provider.ws
        /\ provider.want => provider'.timer
    BY <2>1, <1>0 DEF Control!Schedule
  <2>3. LinkCovered(provider, dial)' BY <2>2 DEF LinkCovered
  <2> QED BY <2>1, <2>2, <2>3, <1>0, <1>1 DEF LinkSound
<1>5. ASSUME Control!Opened(g) PROVE LinkInv'
  <2>1. provider' = provider /\ dial' = [dial EXCEPT ![g] = "open"] /\ dial[g] = "connecting"
    BY <1>5 DEF Control!Opened
  <2>2. provider.want /\ provider.ws = g BY <2>1, <1>0 DEF LinkSound
  <2>3. LinkCovered(provider, dial)' BY <2>1, <2>2, <1>0 DEF LinkCovered
  <2> QED BY <2>1, <2>2, <2>3, <1>0, <1>1 DEF LinkSound
<1>6. ASSUME Control!Closed(g), provider.generation # g PROVE LinkInv'
  <2>1. /\ provider' = provider /\ dial' = [dial EXCEPT ![g] = "closed"]
        /\ dial[g] \in {"closing", "connecting", "open"}
    BY <1>6 DEF Control!Closed, Control!Live
  <2>2. LinkCovered(provider, dial)'
    <3>1. SUFFICES ASSUME provider.want, provider.ws = 0, ~provider.timer
                   PROVE \E h \in Control!Dials : /\ dial'[h] = "dialing"
                                                  /\ provider.generation = h
      BY <2>1 DEF LinkCovered
    <3>2. PICK h \in Control!Dials : dial[h] = "dialing" /\ provider.generation = h
      BY <3>1, <1>0 DEF LinkCovered
    <3> QED BY <3>2, <2>1, <1>0, <1>6
  <2> QED BY <2>1, <2>2, <1>0, <1>1 DEF LinkSound
<1>7. ASSUME Control!Closed(g), provider.generation = g PROVE LinkInv'
  <2>1. PICK q : q = [provider EXCEPT !.ws = 0] OBVIOUS
  <2>2. /\ provider' = Control!Schedule(q) /\ dial' = [dial EXCEPT ![g] = "closed"]
        /\ dial[g] \in {"closing", "connecting", "open"}
    BY <2>1, <1>7 DEF Control!Closed, Control!Live
  <2>3. DOMAIN q = DOMAIN provider /\ q.want = provider.want
        /\ q.generation = provider.generation /\ q.ws = 0
    BY <2>1, <1>0
  <2>4. /\ DOMAIN provider' = DOMAIN provider /\ provider'.want = provider.want
        /\ provider'.generation = provider.generation /\ provider'.ws = 0
        /\ provider.want => provider'.timer
    BY <2>2, <2>3, <1>0 DEF Control!Schedule
  <2>5. LinkCovered(provider, dial)' BY <2>4 DEF LinkCovered
  <2>6. \A h \in Control!Dials : dial[h] \in {"connecting", "open"} => h = g
    BY <1>0, <1>7, DialNumbers DEF LinkSound
  <2> QED BY <2>2, <2>4, <2>5, <2>6, <1>1
<1> QED BY <1>2, <1>3, <1>4, <1>5, <1>6, <1>7

\* What the worker, the popup and the tools do to the connection.
LEMMA ControlKeepsLink == LinkInv /\ Control!Next => LinkInv'
<1> SUFFICES ASSUME LinkInv, Control!Next PROVE LinkInv' OBVIOUS
<1>0. LinkSound(provider, dial) BY DEF LinkInv
<1>1. ASSUME UNCHANGED <<provider, dial>> PROVE LinkInv'
  BY <1>1 DEF LinkInv, LinkSound, LinkCovered
<1>2. Control!Boot => LinkInv'
  <2>1. Control!Boot => Control!Start \/ UNCHANGED <<provider, dial>> BY DEF Control!Boot
  <2> QED BY <2>1, <1>1, SwitchesKeep
<1>3. Control!ApplySettings => LinkInv'
  <2>1. Control!ApplySettings => Control!Restart \/ Control!Stop BY DEF Control!ApplySettings
  <2> QED BY <2>1, SwitchesKeep
<1>4. Control!Alarm => LinkInv'
  BY SwitchesKeep DEF Control!Alarm
<1>5. Control!Recycle => LinkInv'
  <2> SUFFICES ASSUME Control!Recycle PROVE LinkInv' OBVIOUS
  <2>1. /\ provider' = [provider EXCEPT !.want = FALSE, !.ws = 0, !.timer = FALSE]
        /\ dial' = [g \in Control!Dials |-> IF dial[g] = "none" THEN "none" ELSE "closed"]
    BY DEF Control!Recycle
  <2>2. /\ DOMAIN provider' = DOMAIN provider /\ provider'.want = FALSE
        /\ provider'.generation = provider.generation /\ provider'.ws = 0
    BY <2>1, <1>0 DEF LinkSound
  <2>3. LinkSound(provider, dial)' BY <2>1, <2>2, <1>0 DEF LinkSound
  <2>4. LinkCovered(provider, dial)' BY <2>2 DEF LinkCovered
  <2> QED BY <2>3, <2>4 DEF LinkInv
<1>6. Control!TimerFires => LinkInv'
  <2> SUFFICES ASSUME Control!TimerFires PROVE LinkInv' OBVIOUS
  <2>1. PICK q : q = [provider EXCEPT !.timer = FALSE] OBVIOUS
  <2>2. Control!Connect(q, dial) BY <2>1 DEF Control!TimerFires
  <2>3. DOMAIN q = DOMAIN provider /\ q.ws = provider.ws /\ q.generation = provider.generation
        /\ q.want = provider.want
    BY <2>1, <1>0 DEF LinkSound
  <2>4. LinkSound(q, dial) BY <2>3, <1>0, WishesKeep
  <2> QED BY <2>2, <2>4, ConnectKeeps
<1>7. ASSUME NEW t, NEW input, Control!SetTabBridge(t, input) PROVE LinkInv'
  BY <1>7, <1>1 DEF Control!SetTabBridge, Control!dialVars
<1>8. ASSUME NEW t, Control!StorePins(t) \/ Control!UserCloses(t) PROVE LinkInv'
  BY <1>8, <1>1 DEF Control!StorePins, Control!UserCloses, Control!dialVars
<1>9. ASSUME NEW on_, Control!SetSettings(on_) PROVE LinkInv'
  BY <1>9, <1>1 DEF Control!SetSettings
<1>10. ASSUME NEW h, Control!Tidied(h) PROVE LinkInv'
  BY <1>10, <1>1 DEF Control!Tidied, Control!UNCHANGEDBesides, Control!dialVars
<1>11. ASSUME NEW c, Control!ReadAgentTabs(c) \/ Control!SaveAgentTabs(c)
                     \/ Control!ListAgentTabs(c)
       PROVE LinkInv'
  BY <1>11, <1>1 DEF Control!ReadAgentTabs, Control!SaveAgentTabs, Control!ListAgentTabs,
                     Control!UNCHANGEDBesides, Control!dialVars
<1>12. ASSUME NEW c, NEW t, Control!OpenTab(c, t) \/ Control!EnableTab(c, t)
                            \/ Control!CloseTab(c, t) \/ Control!CloseAgentTab(c, t)
       PROVE LinkInv'
  BY <1>12, <1>1 DEF Control!OpenTab, Control!EnableTab, Control!CloseTab,
                     Control!CloseAgentTab, Control!UNCHANGEDBesides, Control!dialVars
<1> QED
  BY <1>2, <1>3, <1>4, <1>5, <1>6, <1>7, <1>8, <1>9, <1>10, <1>11, <1>12, EventsKeep
  DEF Control!Next

(***************************************************************************)
(* Ports and sockets of tabs.  Ports and provider ids are used one after   *)
(* the other; a path from a tab to a socket goes over the tab's Port and   *)
(* the provider's owner, and an announcement on its way names its own.     *)
(***************************************************************************)
IsEntry(e) ==
  DOMAIN e = {"listed", "wanted", "held", "ws", "live", "dials", "timer", "queued"}

\* One entry of OneSocketPerProvider.
SocketKnown(e) ==
  /\ IsEntry(e)
  /\ e.live = (IF e.ws = "none" THEN 0 ELSE 1)
  /\ e.ws \in {"connecting", "open"} => e.listed \/ e.held

UpMessages == [kind : {"hello", "open", "close", "rpc", "navigate"}, p : Nat]

PortsTyped ==
  /\ DOMAIN current = Tabs /\ DOMAIN mode = Tabs /\ DOMAIN saved = Tabs /\ DOMAIN op = Ops
  /\ DOMAIN page = Tab!Ports /\ DOMAIN tab = Tab!Ports /\ DOMAIN owner = Tab!Providers
  /\ transport \in [Tab!Ports -> Nat]
  /\ up \in [Tab!Ports -> Seq(UpMessages)]

EntriesSound == DOMAIN entry = Tab!Providers /\ \A p \in Tab!Providers : SocketKnown(entry[p])

PortsInOrder == \E n \in Nat : \A s \in Tab!Ports : page[s] # "none" <=> s <= n

ProvidersInOrder == \E n \in Nat : \A p \in Tab!Providers : owner[p] # 0 <=> p <= n

PathsLead ==
  /\ \A t \in Tabs : current[t] # 0 => /\ current[t] \in Tab!Ports /\ tab[current[t]] = t
                                       /\ page[current[t]] # "none"
  /\ \A p \in Tab!Providers : owner[p] # 0 => owner[p] \in Tab!Ports /\ page[owner[p]] # "none"
  /\ \A p \in Tab!Providers : owner[p] = 0 => ~entry[p].listed

Announces(owners, msg, s) ==
  msg.kind = "open" => msg.p \in Tab!Providers /\ owners[msg.p] = s

OwnAnnouncements ==
  /\ \A s \in Tab!Ports : \A i \in 1..Len(up[s]) : Announces(owner, up[s][i], s)
  /\ \A h \in handlers : Announces(owner, h, h.port) /\ h.port \in Tab!Ports

BootComesFirst == ~booted => handlers = {} /\ \A p \in Tab!Providers : ~entry[p].listed

\* A socket listed on a tab of an agent is one that setTabRoute is about to close.
AgentSocketsGo ==
  booted =>
    \A t \in Tabs, p \in Tab!Providers :
      ( /\ mode[t] = "agent" /\ current[t] # 0 /\ owner[p] = current[t]
        /\ entry[p].listed )
      => \E o \in Ops : op[o].pc = "teardown" /\ op[o].tab = t

TabInv ==
  /\ PortsTyped /\ EntriesSound /\ PortsInOrder /\ ProvidersInOrder
  /\ PathsLead /\ OwnAnnouncements /\ BootComesFirst /\ AgentSocketsGo

\* Ports and providers are numbered from 1.
LEMMA PortNumbers ==
  /\ MaxPorts \in Nat /\ Tab!Ports = 1..MaxPorts
  /\ MaxProviders \in Nat /\ Tab!Providers = 1..MaxProviders
BY Bounds DEF Tab!BoundsAreNumbers, Tab!Ports, Tab!Providers

\* The first unused number is the one the code takes next.
LEMMA NextIsUnused ==
  ASSUME NEW N \in Nat, NEW f, NEW none,
         \E n \in Nat : \A s \in 1..N : f[s] # none <=> s <= n,
         Cardinality({q \in 1..N : f[q] # none}) + 1 \in 1..N
  PROVE \E n \in Nat : /\ Cardinality({q \in 1..N : f[q] # none}) = n
                       /\ \A s \in 1..N : f[s] # none <=> s <= n
<1>1. PICK n \in Nat : \A s \in 1..N : f[s] # none <=> s <= n OBVIOUS
<1>2. PICK m \in Nat : m = IF n <= N THEN n ELSE N OBVIOUS
<1>3. {q \in 1..N : f[q] # none} = 1..m BY <1>1, <1>2
<1>4. Cardinality(1..m) = m BY FS_Interval
<1>5. \A s \in 1..N : f[s] # none <=> s <= m BY <1>1, <1>2
<1> QED BY <1>3, <1>4, <1>5

\* What adds no announcement, uses no number, lists no entry and drops no teardown
\* keeps the whole.
LEMMA TabsKeep ==
  ASSUME TabInv,
         booted' = booted, tab' = tab, owner' = owner,
         DOMAIN mode' = Tabs, \A t \in Tabs : mode'[t] = "agent" => mode[t] = "agent",
         DOMAIN saved' = Tabs,
         DOMAIN current' = Tabs, \A t \in Tabs : current'[t] \in {0, current[t]},
         DOMAIN page' = Tab!Ports,
         \A s \in Tab!Ports : page'[s] # "none" <=> page[s] # "none",
         transport' \in [Tab!Ports -> Nat],
         up' \in [Tab!Ports -> Seq(UpMessages)],
         OwnAnnouncements', ~booted => handlers' = {},
         DOMAIN entry' = Tab!Providers,
         \A p \in Tab!Providers : SocketKnown(entry'[p]) /\ (entry'[p].listed => entry[p].listed),
         DOMAIN op' = Ops,
         \A o \in Ops : op[o].pc = "teardown" => op'[o].pc = "teardown" /\ op'[o].tab = op[o].tab
  PROVE TabInv'
<1>1. PortsTyped' /\ EntriesSound' BY DEF TabInv, PortsTyped, EntriesSound
<1>2. PortsInOrder' /\ ProvidersInOrder' BY DEF TabInv, PortsInOrder, ProvidersInOrder
<1>3. PathsLead'
  <2>1. ASSUME NEW t \in Tabs, current'[t] # 0
        PROVE current'[t] \in Tab!Ports /\ tab'[current'[t]] = t /\ page'[current'[t]] # "none"
    BY <2>1 DEF TabInv, PathsLead
  <2>2. ASSUME NEW p \in Tab!Providers
        PROVE /\ owner'[p] # 0 => owner'[p] \in Tab!Ports /\ page'[owner'[p]] # "none"
              /\ owner'[p] = 0 => ~entry'[p].listed
    BY DEF TabInv, PathsLead
  <2> QED BY <2>1, <2>2 DEF PathsLead
<1>4. BootComesFirst' BY DEF TabInv, BootComesFirst
<1>5. AgentSocketsGo'
  <2>1. SUFFICES ASSUME booted, NEW t \in Tabs, NEW p \in Tab!Providers, mode'[t] = "agent",
                        current'[t] # 0, owner'[p] = current'[t], entry'[p].listed
                 PROVE \E o \in Ops : op'[o].pc = "teardown" /\ op'[o].tab = t
    BY DEF AgentSocketsGo
  <2>2. PICK o \in Ops : op[o].pc = "teardown" /\ op[o].tab = t
    BY <2>1 DEF TabInv, AgentSocketsGo
  <2> QED BY <2>2
<1> QED BY <1>1, <1>2, <1>3, <1>4, <1>5 DEF TabInv

\* The same where only entries and calls of handleUp that wait change.
LEMMA SocketsKeep ==
  ASSUME TabInv,
         UNCHANGED <<saved, booted, mode, current, page, tab, transport, up, owner, op>>,
         handlers' \subseteq handlers,
         DOMAIN entry' = Tab!Providers,
         \A p \in Tab!Providers : SocketKnown(entry'[p]) /\ (entry'[p].listed => entry[p].listed)
  PROVE TabInv'
<1>1. /\ PortsTyped /\ OwnAnnouncements /\ BootComesFirst BY DEF TabInv
<1>2. OwnAnnouncements' BY <1>1 DEF OwnAnnouncements, Announces
<1>3. ~booted => handlers' = {} BY <1>1 DEF BootComesFirst
<1>4. UNCHANGED booted /\ UNCHANGED tab /\ UNCHANGED owner /\ UNCHANGED page
      /\ UNCHANGED mode /\ UNCHANGED current /\ UNCHANGED op /\ UNCHANGED saved
      /\ UNCHANGED up /\ UNCHANGED transport
  OBVIOUS
<1>5. /\ DOMAIN mode' = Tabs /\ DOMAIN saved' = Tabs /\ DOMAIN current' = Tabs
      /\ DOMAIN page' = Tab!Ports /\ DOMAIN op' = Ops
      /\ transport' \in [Tab!Ports -> Nat] /\ up' \in [Tab!Ports -> Seq(UpMessages)]
  BY <1>1, <1>4 DEF PortsTyped
<1>6. \A t \in Tabs : current'[t] \in {0, current[t]} BY <1>4
<1> QED BY <1>2, <1>3, <1>4, <1>5, <1>6, TabsKeep

\* What the code's functions on one entry do.
LEMMA EntrySteps ==
  ASSUME NEW e, SocketKnown(e)
  PROVE /\ \A hold : SocketKnown(Tab!ConnectSocket(e, hold))
                     /\ Tab!ConnectSocket(e, hold).listed = e.listed
        /\ SocketKnown(Tab!CloseSocket(e)) /\ ~Tab!CloseSocket(e).listed
        /\ SocketKnown(Tab!SendToSocket(e)) /\ Tab!SendToSocket(e).listed = e.listed
<1>1. ASSUME NEW hold
      PROVE SocketKnown(Tab!ConnectSocket(e, hold)) /\ Tab!ConnectSocket(e, hold).listed = e.listed
  BY DEF Tab!ConnectSocket, SocketKnown, IsEntry
<1>2. SocketKnown(Tab!CloseSocket(e)) /\ ~Tab!CloseSocket(e).listed
  <2>1. CASE e.listed
    <3>1. PICK f : f = Tab!CloseSocket(e) OBVIOUS
    <3>2. /\ IsEntry(f) /\ f.listed = FALSE /\ f.held = e.held /\ f.live = e.live
          /\ f.ws = IF e.held \/ e.ws = "none" THEN e.ws ELSE "closing"
      BY <2>1, <3>1 DEF Tab!CloseSocket, SocketKnown, IsEntry
    <3> QED BY <3>1, <3>2 DEF SocketKnown
  <2>2. CASE ~e.listed BY <2>2 DEF Tab!CloseSocket
  <2> QED BY <2>1, <2>2
<1>3. SocketKnown(Tab!SendToSocket(e)) /\ Tab!SendToSocket(e).listed = e.listed
  <2>1. PICK f : f = Tab!SendToSocket(e) OBVIOUS
  <2>2. /\ IsEntry(f) /\ f.listed = e.listed /\ f.held = e.held /\ f.live = e.live
        /\ f.ws = e.ws
    BY <2>1 DEF Tab!SendToSocket, SocketKnown, IsEntry
  <2> QED BY <2>1, <2>2 DEF SocketKnown
<1> QED BY <1>1, <1>2, <1>3

\* closeAllSockets, for the Port s.
LEMMA ClosingKeeps ==
  ASSUME TabInv, NEW s, Tab!CloseAllSockets(s)
  PROVE /\ DOMAIN entry' = Tab!Providers
        /\ \A p \in Tab!Providers : SocketKnown(entry'[p]) /\ (entry'[p].listed => entry[p].listed)
        /\ \A p \in Tab!Providers : s # 0 /\ owner[p] = s => ~entry'[p].listed
<1>1. entry' = [p \in Tab!Providers |-> IF p \in Tab!Of(s) THEN Tab!CloseSocket(entry[p])
                                       ELSE entry[p]]
  BY DEF Tab!CloseAllSockets
<1>2. \A p \in Tab!Providers : SocketKnown(entry[p]) BY DEF TabInv, EntriesSound
<1>3. ASSUME NEW p \in Tab!Providers
      PROVE /\ SocketKnown(entry'[p]) /\ (entry'[p].listed => entry[p].listed)
            /\ s # 0 /\ owner[p] = s => ~entry'[p].listed
  <2>1. CASE p \in Tab!Of(s)
    <3>1. entry'[p] = Tab!CloseSocket(entry[p]) BY <1>1, <2>1
    <3> QED BY <3>1, <1>2, EntrySteps
  <2>2. CASE p \notin Tab!Of(s)
    <3>1. entry'[p] = entry[p] BY <1>1, <2>2
    <3> QED BY <3>1, <2>2, <1>2 DEF Tab!Of
  <2> QED BY <2>1, <2>2
<1> QED BY <1>1, <1>3

\* The steps of a socket and of a navigation.
LEMMA SocketStepsKeep ==
  ASSUME TabInv, NEW p \in Tab!Providers
  PROVE Tab!SocketStep(p) \/ Tab!NavStep(p) => TabInv'
<1>0. /\ DOMAIN entry = Tab!Providers /\ IsEntry(entry[p])
      /\ \A q \in Tab!Providers : SocketKnown(entry[q])
  BY DEF TabInv, EntriesSound, SocketKnown
<1>1. ASSUME NEW e, entry' = [entry EXCEPT ![p] = e], SocketKnown(e), e.listed => entry[p].listed,
             UNCHANGED <<saved, booted, mode, current, page, tab, transport, up, owner, op>>,
             handlers' = handlers
      PROVE TabInv'
  <2>1. /\ DOMAIN entry' = Tab!Providers
        /\ \A q \in Tab!Providers : entry'[q] = IF q = p THEN e ELSE entry[q]
    BY <1>0, <1>1
  <2>2. \A q \in Tab!Providers : SocketKnown(entry'[q]) /\ (entry'[q].listed => entry[q].listed)
    BY <2>1, <1>0, <1>1
  <2> QED BY <2>1, <2>2, <1>1, SocketsKeep
<1>2. ASSUME Tab!Dial(p) PROVE TabInv'
  <2>1. PICK e : e = [entry[p] EXCEPT !.dials = @ - 1] OBVIOUS
  <2>2. PICK f : f = IF Tab!Redial(e) THEN [e EXCEPT !.ws = "connecting", !.live = @ + 1] ELSE e
    OBVIOUS
  <2>3. /\ entry' = [entry EXCEPT ![p] = f] /\ handlers' = handlers
        /\ UNCHANGED <<saved, booted, mode, current, page, tab, transport, up, owner, op>>
    BY <1>2, <2>1, <2>2 DEF Tab!Dial, Tab!storage, Tab!pages
  <2>4. /\ IsEntry(e) /\ e.listed = entry[p].listed /\ e.ws = entry[p].ws
        /\ e.live = entry[p].live /\ e.held = entry[p].held
    BY <2>1, <1>0 DEF IsEntry
  <2>5. SocketKnown(f) /\ f.listed = e.listed
    <3>1. CASE Tab!Redial(e)
      <4>1. /\ IsEntry(f) /\ f.ws = "connecting" /\ f.listed = e.listed /\ e.listed
            /\ f.live = e.live + 1 /\ e.ws = "none"
        BY <2>2, <2>4, <3>1 DEF Tab!Redial, IsEntry
      <4>2. e.live = 0 BY <2>4, <4>1, <1>0 DEF SocketKnown
      <4> QED BY <4>1, <4>2 DEF SocketKnown
    <3>2. CASE ~Tab!Redial(e) BY <2>2, <2>4, <3>2, <1>0 DEF SocketKnown
    <3> QED BY <3>1, <3>2
  <2> QED BY <2>3, <2>4, <2>5, <1>1
<1>3. ASSUME Tab!SocketOpens(p) PROVE TabInv'
  <2>1. PICK f : f = [entry[p] EXCEPT !.ws = "open", !.queued = FALSE] OBVIOUS
  <2>2. /\ entry' = [entry EXCEPT ![p] = f] /\ handlers' = handlers /\ entry[p].ws = "connecting"
        /\ UNCHANGED <<saved, booted, mode, current, page, tab, transport, up, owner, op>>
    BY <1>3, <2>1, <1>0 DEF Tab!SocketOpens, Tab!storage, Tab!pages
  <2>3. /\ IsEntry(f) /\ f.listed = entry[p].listed /\ f.ws = "open"
        /\ f.live = entry[p].live /\ f.held = entry[p].held
    BY <2>1, <1>0 DEF IsEntry
  <2>4. SocketKnown(f) BY <2>2, <2>3, <1>0 DEF SocketKnown
  <2> QED BY <2>2, <2>3, <2>4, <1>1
<1>4. ASSUME Tab!SocketCloses(p) PROVE TabInv'
  <2>1. PICK f : f = [entry[p] EXCEPT !.ws = "none", !.live = @ - 1, !.queued = FALSE,
                        !.timer = @ \/ (entry[p].wanted /\ entry[p].listed)]
    OBVIOUS
  <2>2. /\ entry' = [entry EXCEPT ![p] = f] /\ handlers' = handlers
        /\ entry[p].ws \in {"closing", "connecting", "open"}
        /\ UNCHANGED <<saved, booted, mode, current, page, tab, transport, up, owner, op>>
    BY <1>4, <2>1, <1>0 DEF Tab!SocketCloses, Tab!storage, Tab!pages
  <2>3. /\ IsEntry(f) /\ f.listed = entry[p].listed /\ f.ws = "none"
        /\ f.live = entry[p].live - 1
    BY <2>1, <1>0 DEF IsEntry
  <2>4. SocketKnown(f)
    <3>1. entry[p].live = 1 BY <2>2, <1>0 DEF SocketKnown
    <3> QED BY <2>3, <3>1 DEF SocketKnown
  <2> QED BY <2>2, <2>3, <2>4, <1>1
<1>5. ASSUME Tab!Reconnect(p) PROVE TabInv'
  <2>1. PICK e : e = [entry[p] EXCEPT !.timer = FALSE] OBVIOUS
  <2>2. PICK hold : hold = holds[tab[owner[p]]] OBVIOUS
  <2>3. /\ entry' = [entry EXCEPT ![p] = Tab!ConnectSocket(e, hold)] /\ handlers' = handlers
        /\ UNCHANGED <<saved, booted, mode, current, page, tab, transport, up, owner, op>>
    BY <1>5, <2>1, <2>2 DEF Tab!Reconnect, Tab!storage, Tab!pages
  <2>4. /\ IsEntry(e) /\ e.listed = entry[p].listed /\ e.ws = entry[p].ws
        /\ e.live = entry[p].live /\ e.held = entry[p].held
    BY <2>1, <1>0 DEF IsEntry
  <2>5. SocketKnown(e) BY <2>4, <1>0 DEF SocketKnown
  <2> QED BY <2>3, <2>4, <2>5, <1>1, EntrySteps
<1>6. ASSUME NEW entries, DOMAIN entries = Tab!Providers,
             \A q \in Tab!Providers :
               SocketKnown(entries[q]) /\ entries[q].listed = entry[q].listed,
             Tab!LetGo(p, entries), handlers' = handlers,
             UNCHANGED <<saved, booted, mode, current, page, tab, transport, up, owner, op>>
      PROVE TabInv'
  <2>1. entry' = [q \in Tab!Providers |->
                    IF holds[tab[owner[p]]] = 1 /\ q \in Tab!Of(current[tab[owner[p]]])
                    THEN Tab!ConnectSocket(entries[q], 0) ELSE entries[q]]
    BY <1>6 DEF Tab!LetGo
  <2>2. ASSUME NEW q \in Tab!Providers
        PROVE SocketKnown(entry'[q]) /\ (entry'[q].listed => entry[q].listed)
    <3>1. entry'[q] \in {entries[q], Tab!ConnectSocket(entries[q], 0)} BY <2>1
    <3>2. SocketKnown(entries[q]) /\ entries[q].listed = entry[q].listed BY <1>6
    <3>3. /\ SocketKnown(Tab!ConnectSocket(entries[q], 0))
          /\ Tab!ConnectSocket(entries[q], 0).listed = entries[q].listed
      BY <3>2, EntrySteps
    <3> QED BY <3>1, <3>2, <3>3
  <2>3. DOMAIN entry' = Tab!Providers BY <2>1
  <2> QED BY <2>2, <2>3, <1>6, SocketsKeep
<1>7. ASSUME Tab!Release(p) PROVE TabInv'
  <2>0. /\ handlers' = handlers
        /\ UNCHANGED <<saved, booted, mode, current, page, tab, transport, up, owner, op>>
    BY <1>7 DEF Tab!Release, Tab!storage, Tab!pages
  <2>1. CASE entry[p].listed
    <3>1. PICK f : f = [entry[p] EXCEPT !.held = FALSE] OBVIOUS
    <3>2. PICK entries : entries = [entry EXCEPT ![p] = f] OBVIOUS
    <3>3. Tab!LetGo(p, entries) BY <1>7, <2>1, <3>1, <3>2, <1>0 DEF Tab!Release
    <3>4. /\ IsEntry(f) /\ f.listed = entry[p].listed /\ f.ws = entry[p].ws
          /\ f.live = entry[p].live
      BY <3>1, <1>0 DEF IsEntry
    <3>5. SocketKnown(f) BY <3>4, <2>1, <1>0 DEF SocketKnown
    <3>6. /\ DOMAIN entries = Tab!Providers
          /\ \A q \in Tab!Providers : SocketKnown(entries[q])
                                      /\ entries[q].listed = entry[q].listed
      BY <3>2, <3>4, <3>5, <1>0
    <3> QED BY <3>3, <3>6, <2>0, <1>6
  <2>2. CASE ~entry[p].listed
    <3>1. PICK f : f = [entry[p] EXCEPT !.held = FALSE,
                          !.ws = IF @ = "none" THEN @ ELSE "closing"]
      OBVIOUS
    <3>2. entry' = [entry EXCEPT ![p] = f] BY <1>7, <2>2, <3>1, <1>0 DEF Tab!Release
    <3>3. /\ IsEntry(f) /\ f.listed = entry[p].listed /\ f.live = entry[p].live
          /\ f.ws = IF entry[p].ws = "none" THEN "none" ELSE "closing"
      BY <3>1, <1>0 DEF IsEntry
    <3>4. SocketKnown(f) BY <3>3, <1>0 DEF SocketKnown
    <3> QED BY <3>2, <3>3, <3>4, <2>0, <1>1
  <2> QED BY <2>1, <2>2
<1>8. ASSUME Tab!SettleTimeout(p) PROVE TabInv'
  <2>1. /\ handlers' = handlers /\ entry' = entry
        /\ UNCHANGED <<saved, booted, mode, current, page, tab, transport, up, owner, op>>
    BY <1>8 DEF Tab!SettleTimeout, Tab!storage, Tab!pages
  <2> QED BY <2>1, <1>0, SocketsKeep
<1>9. ASSUME Tab!Finish(p) PROVE TabInv'
  <2>1. /\ handlers' = handlers /\ Tab!LetGo(p, entry)
        /\ UNCHANGED <<saved, booted, mode, current, page, tab, transport, up, owner, op>>
    BY <1>9 DEF Tab!Finish, Tab!storage, Tab!pages
  <2> QED BY <2>1, <1>0, <1>6
<1> QED
  BY <1>2, <1>3, <1>4, <1>5, <1>7, <1>8, <1>9 DEF Tab!SocketStep, Tab!NavStep

\* The steps of a call of handleUp that waited in isEnabled.
LEMMA HandlersKeep ==
  ASSUME TabInv, NEW h \in handlers
  PROVE Tab!HandlerStep(h) => TabInv'
<1>0. /\ DOMAIN entry = Tab!Providers /\ booted /\ PortsTyped /\ PathsLead /\ AgentSocketsGo
      /\ \A q \in Tab!Providers : SocketKnown(entry[q]) /\ IsEntry(entry[q])
  BY DEF TabInv, EntriesSound, SocketKnown, BootComesFirst
<1>1. ASSUME Tab!NotEnabled(h) \/ Tab!Greeted(h) PROVE TabInv'
  <2>1. /\ handlers' \subseteq handlers /\ entry' = entry
        /\ UNCHANGED <<saved, booted, mode, current, page, tab, transport, up, owner, op>>
    BY <1>1 DEF Tab!NotEnabled, Tab!Greeted, Tab!storage, Tab!pages
  <2> QED BY <2>1, <1>0, SocketsKeep
<1>2. ASSUME Tab!Hold(h) PROVE TabInv'
  <2>1. /\ handlers' \subseteq handlers
        /\ UNCHANGED <<saved, booted, mode, current, page, tab, transport, up, owner, op>>
    BY <1>2 DEF Tab!Hold, Tab!storage, Tab!pages
  <2>2. PICK f : f = [entry[h.p] EXCEPT !.held = TRUE] OBVIOUS
  <2>3. \/ entry' = entry
        \/ entry' = [entry EXCEPT ![h.p] = f]
    <3>1. CASE h.p \in Tab!Providers BY <3>1, <2>2, <1>2, <1>0 DEF Tab!Hold
    <3>2. CASE h.p \notin Tab!Providers
      <4>1. entry' = entry \/ entry' = [entry EXCEPT ![h.p].held = TRUE] BY <1>2 DEF Tab!Hold
      <4>2. DOMAIN entry' = DOMAIN entry /\ \A q \in Tab!Providers : entry'[q] = entry[q]
        BY <4>1, <3>2, <1>0
      <4> QED BY <4>1, <3>2, <1>0
    <3> QED BY <3>1, <3>2
  <2>4. /\ DOMAIN entry' = Tab!Providers
        /\ \A q \in Tab!Providers : entry'[q] = entry[q] \/ (q = h.p /\ entry'[q] = f)
    BY <2>3, <1>0
  <2>5. h.p \in Tab!Providers =>
          /\ IsEntry(f) /\ f.listed = entry[h.p].listed /\ f.ws = entry[h.p].ws
          /\ f.live = entry[h.p].live /\ f.held
    BY <2>2, <1>0 DEF IsEntry
  <2>6. \A q \in Tab!Providers : SocketKnown(entry'[q]) /\ (entry'[q].listed => entry[q].listed)
    BY <2>4, <2>5, <1>0 DEF SocketKnown
  <2> QED BY <2>1, <2>4, <2>6, SocketsKeep
<1>3. ASSUME Tab!Opened(h), mode[tab[h.port]] = "agent" PROVE TabInv'
  <2>1. /\ handlers' \subseteq handlers /\ entry' = entry
        /\ UNCHANGED <<saved, booted, mode, current, page, tab, transport, up, owner, op>>
    BY <1>3 DEF Tab!Opened, Tab!storage, Tab!pages
  <2> QED BY <2>1, <1>0, SocketsKeep
<1>4. ASSUME Tab!Opened(h), mode[tab[h.port]] # "agent" PROVE TabInv'
  <2>1. PICK hold : hold = holds[tab[h.port]] OBVIOUS
  <2>2. PICK e : e = [entry[h.p] EXCEPT !.listed = TRUE, !.wanted = TRUE] OBVIOUS
  <2>3. /\ handlers' \subseteq handlers /\ h.kind = "open"
        /\ entry' = [entry EXCEPT ![h.p] = Tab!ConnectSocket(e, hold)]
        /\ UNCHANGED <<saved, booted, mode, current, page, tab, transport, up, owner, op>>
    BY <1>4, <2>1, <2>2 DEF Tab!Opened, Tab!storage, Tab!pages
  <2>4. h.p \in Tab!Providers /\ owner[h.p] = h.port /\ h.port \in Tab!Ports
    BY <2>3 DEF TabInv, OwnAnnouncements, Announces
  <2>5. /\ IsEntry(e) /\ e.listed = TRUE /\ e.ws = entry[h.p].ws /\ e.live = entry[h.p].live
    BY <2>2, <2>4, <1>0 DEF IsEntry
  <2>6. SocketKnown(e) BY <2>4, <2>5, <1>0 DEF SocketKnown
  <2>7. /\ DOMAIN entry' = Tab!Providers
        /\ \A q \in Tab!Providers : q # h.p => entry'[q] = entry[q]
        /\ SocketKnown(entry'[h.p])
    BY <2>3, <2>4, <2>6, <1>0, EntrySteps
  <2>8. EntriesSound' BY <2>7, <1>0 DEF EntriesSound
  <2>9. PortsTyped' BY <2>3 DEF TabInv, PortsTyped
  <2>10. PortsInOrder' /\ ProvidersInOrder' BY <2>3 DEF TabInv, PortsInOrder, ProvidersInOrder
  <2>11. PathsLead'
    <3>1. h.port # 0 BY <2>4, PortNumbers
    <3> QED BY <2>3, <2>4, <2>7, <3>1, <1>0 DEF PathsLead
  <2>12. OwnAnnouncements' BY <2>3 DEF TabInv, OwnAnnouncements, Announces
  <2>13. BootComesFirst' BY <2>3, <1>0 DEF BootComesFirst
  <2>14. AgentSocketsGo'
    <3>1. SUFFICES ASSUME NEW t \in Tabs, NEW q \in Tab!Providers, mode[t] = "agent",
                          current[t] # 0, owner[q] = current[t], entry'[q].listed
                   PROVE \E o \in Ops : op[o].pc = "teardown" /\ op[o].tab = t
      BY <2>3 DEF AgentSocketsGo
    <3>2. tab[owner[q]] = t BY <3>1, <1>0 DEF PathsLead
    <3>3. q # h.p BY <3>1, <3>2, <2>4, <1>4
    <3>4. entry[q].listed BY <3>1, <3>3, <2>7
    <3> QED BY <3>1, <3>4, <1>0 DEF AgentSocketsGo
  <2> QED BY <2>8, <2>9, <2>10, <2>11, <2>12, <2>13, <2>14 DEF TabInv
<1> QED BY <1>1, <1>2, <1>3, <1>4 DEF Tab!HandlerStep

\* The up-messages of a Port lose their first, or get one more.
LEMMA MessagesMove ==
  ASSUME TabInv, NEW s \in Tab!Ports
  PROVE /\ up[s] # <<>> => [up EXCEPT ![s] = Tail(@)] \in [Tab!Ports -> Seq(UpMessages)]
        /\ \A msg \in UpMessages :
             [up EXCEPT ![s] = Append(@, msg)] \in [Tab!Ports -> Seq(UpMessages)]
BY DEF TabInv, PortsTyped

\* handleUp, up to its awaits.
LEMMA HandleUpKeeps ==
  ASSUME TabInv, NEW s \in Tab!Ports, Tab!HandleUp(s)
  PROVE TabInv'
<1>0. /\ DOMAIN entry = Tab!Providers /\ booted /\ PortsTyped /\ OwnAnnouncements
      /\ up[s] # <<>> /\ up[s] \in Seq(UpMessages)
      /\ \A q \in Tab!Providers : SocketKnown(entry[q]) /\ IsEntry(entry[q])
  BY DEF TabInv, EntriesSound, SocketKnown, PortsTyped, Tab!HandleUp
<1>1. PICK msg : msg = Head(up[s]) OBVIOUS
<1>2. /\ up' = [up EXCEPT ![s] = Tail(@)]
      /\ UNCHANGED <<saved, booted, mode, current, page, tab, transport, owner, op>>
  BY DEF Tab!HandleUp, Tab!storage, Tab!pages
<1>3. up' \in [Tab!Ports -> Seq(UpMessages)] BY <1>0, <1>2, MessagesMove
<1>4. \A r \in Tab!Ports : \A i \in 1..Len(up'[r]) : Announces(owner, up'[r][i], r)
  <2>1. ASSUME NEW r \in Tab!Ports, NEW i \in 1..Len(up'[r])
        PROVE Announces(owner, up'[r][i], r)
    <3>1. CASE r = s
      <4>1. up'[s] = Tail(up[s]) BY <1>0, <1>2 DEF PortsTyped
      <4>2. /\ Len(Tail(up[s])) = Len(up[s]) - 1
            /\ \A k \in 1..Len(Tail(up[s])) : Tail(up[s])[k] = up[s][k + 1]
        BY <1>0
      <4>3. Len(up[s]) \in Nat /\ i \in 1..(Len(up[s]) - 1)
        <5>1. Len(up[s]) \in Nat BY <1>0
        <5>2. Len(up'[r]) = Len(up[s]) - 1 BY <4>1, <4>2, <3>1
        <5>3. i \in 1..(Len(up[s]) - 1) BY <5>2
        <5> QED BY <5>1, <5>3
      <4>4. i + 1 \in 1..Len(up[s]) /\ up'[s][i] = up[s][i + 1] BY <4>1, <4>2, <4>3
      <4> QED BY <4>4, <3>1, <1>0 DEF OwnAnnouncements
    <3>2. CASE r # s
      <4>1. up'[r] = up[r] BY <3>2, <1>0, <1>2 DEF PortsTyped
      <4> QED BY <4>1, <2>1, <1>0 DEF OwnAnnouncements
    <3> QED BY <3>1, <3>2
  <2> QED BY <2>1
<1>5. Announces(owner, msg, s)
  <2>1. 1 \in 1..Len(up[s]) /\ msg = up[s][1] BY <1>0, <1>1
  <2> QED BY <2>1, <1>0 DEF OwnAnnouncements
<1>6. /\ \A r \in Tab!Ports : \A i \in 1..Len(up'[r]) : Announces(owner', up'[r][i], r)
      /\ \A h \in handlers : Announces(owner', h, h.port) /\ h.port \in Tab!Ports
      /\ Announces(owner', msg, s)
  BY <1>0, <1>2, <1>4, <1>5 DEF OwnAnnouncements, Announces
<1>7. ASSUME DOMAIN entry' = Tab!Providers,
             \A p \in Tab!Providers : SocketKnown(entry'[p])
                                      /\ (entry'[p].listed => entry[p].listed),
             OwnAnnouncements'
      PROVE TabInv'
  <2>1. /\ DOMAIN mode' = Tabs /\ DOMAIN saved' = Tabs /\ DOMAIN current' = Tabs
        /\ DOMAIN page' = Tab!Ports /\ DOMAIN op' = Ops /\ transport' \in [Tab!Ports -> Nat]
    BY <1>0, <1>2 DEF PortsTyped
  <2>2. \A t \in Tabs : current'[t] \in {0, current[t]} BY <1>2
  <2>3. ~booted => handlers' = {} BY <1>0
  <2>4. UNCHANGED booted /\ UNCHANGED tab /\ UNCHANGED owner /\ UNCHANGED page
        /\ UNCHANGED mode /\ UNCHANGED op
    BY <1>2
  <2> QED BY <2>1, <2>2, <2>3, <2>4, <1>3, <1>7, TabsKeep
<1>8. ASSUME handlers' = handlers PROVE OwnAnnouncements'
  BY <1>6, <1>8 DEF OwnAnnouncements
<1>9. CASE msg.kind \in {"hello", "open", "navigate"}
  <2>1. entry' = entry /\ handlers' = handlers \cup {[port |-> s, kind |-> msg.kind, p |-> msg.p]}
    BY <1>1, <1>9 DEF Tab!HandleUp
  <2>2. PICK h : h = [port |-> s, kind |-> msg.kind, p |-> msg.p] OBVIOUS
  <2>3. h.port = s /\ h.kind = msg.kind /\ h.p = msg.p BY <2>2
  <2>4. Announces(owner', h, h.port) BY <2>3, <1>6 DEF Announces
  <2>5. handlers' = handlers \cup {h} BY <2>1, <2>2
  <2>6. OwnAnnouncements' BY <2>3, <2>4, <2>5, <1>6 DEF OwnAnnouncements
  <2> QED BY <2>1, <2>6, <1>0, <1>7
<1>10. CASE msg.kind = "rpc"
  <2>1. /\ handlers' = handlers
        /\ entry' = entry \/ entry' = [entry EXCEPT ![msg.p] = Tab!SendToSocket(@)]
    BY <1>1, <1>10 DEF Tab!HandleUp
  <2>2. /\ DOMAIN entry' = Tab!Providers
        /\ \A q \in Tab!Providers : entry'[q] \in {entry[q], Tab!SendToSocket(entry[q])}
    BY <2>1, <1>0
  <2>3. \A q \in Tab!Providers : SocketKnown(entry'[q]) /\ (entry'[q].listed => entry[q].listed)
    BY <2>2, <1>0, EntrySteps
  <2> QED BY <2>1, <2>2, <2>3, <1>7, <1>8
<1>11. CASE msg.kind = "close"
  <2>1. /\ handlers' = handlers
        /\ entry' = entry \/ entry' = [entry EXCEPT ![msg.p] = Tab!CloseSocket(@)]
    BY <1>1, <1>11 DEF Tab!HandleUp
  <2>2. /\ DOMAIN entry' = Tab!Providers
        /\ \A q \in Tab!Providers : entry'[q] \in {entry[q], Tab!CloseSocket(entry[q])}
    BY <2>1, <1>0
  <2>3. \A q \in Tab!Providers : SocketKnown(entry'[q]) /\ (entry'[q].listed => entry[q].listed)
    BY <2>2, <1>0, EntrySteps
  <2> QED BY <2>1, <2>2, <2>3, <1>7, <1>8
<1> QED BY <1>1, <1>9, <1>10, <1>11 DEF Tab!HandleUp

\* The page works off a message; a transport it starts announces itself.
LEMMA PageHandlesKeeps ==
  ASSUME TabInv, NEW s \in Tab!Ports, Tab!PageHandles(s)
  PROVE TabInv'
<1>0. /\ DOMAIN entry = Tab!Providers /\ PortsTyped /\ OwnAnnouncements /\ PathsLead
      /\ up[s] \in Seq(UpMessages) /\ page[s] # "none" /\ transport[s] \in Nat
      /\ \A q \in Tab!Providers : SocketKnown(entry[q])
  BY DEF TabInv, EntriesSound, PortsTyped, Tab!PageHandles
<1>1. /\ UNCHANGED <<saved, booted, mode, current, page, tab, entry, handlers, op>>
      /\ DOMAIN mode' = Tabs /\ DOMAIN saved' = Tabs /\ DOMAIN current' = Tabs
      /\ DOMAIN page' = Tab!Ports /\ DOMAIN op' = Ops /\ DOMAIN tab' = Tab!Ports
  BY <1>0 DEF Tab!PageHandles, Tab!storage, PortsTyped
<1>2. PICK new : new = Cardinality({q \in Tab!Providers : owner[q] # 0}) + 1 OBVIOUS
<1>3. ASSUME owner' = owner, transport' \in [Tab!Ports -> Nat],
             \/ up' = up
             \/ \E kind \in {"close", "rpc", "navigate"} :
                  up' = [up EXCEPT ![s] = Append(@, [kind |-> kind, p |-> transport[s]])]
      PROVE TabInv'
  <2>1. up' \in [Tab!Ports -> Seq(UpMessages)]
        /\ \A r \in Tab!Ports : \A i \in 1..Len(up'[r]) : Announces(owner, up'[r][i], r)
    <3>1. CASE up' = up BY <3>1, <1>0 DEF PortsTyped, OwnAnnouncements
    <3>2. CASE up' # up
      <4>1. PICK kind \in {"close", "rpc", "navigate"} :
               up' = [up EXCEPT ![s] = Append(@, [kind |-> kind, p |-> transport[s]])]
        BY <1>3, <3>2
      <4>2. PICK msg : msg = [kind |-> kind, p |-> transport[s]] OBVIOUS
      <4>3. msg \in UpMessages /\ msg.kind # "open" BY <4>1, <4>2, <1>0 DEF UpMessages
      <4>4. up' = [up EXCEPT ![s] = Append(@, msg)] BY <4>1, <4>2
      <4>5. up' \in [Tab!Ports -> Seq(UpMessages)] BY <4>3, <4>4, MessagesMove
      <4>6. ASSUME NEW r \in Tab!Ports, NEW i \in 1..Len(up'[r])
            PROVE Announces(owner, up'[r][i], r)
        <5>1. CASE r = s
          <6>1. up'[s] = Append(up[s], msg) BY <4>4, <1>0 DEF PortsTyped
          <6>2. (i \in 1..Len(up[s]) /\ up'[s][i] = up[s][i]) \/ up'[s][i] = msg
            BY <6>1, <5>1, <4>6, <1>0
          <6> QED BY <6>2, <5>1, <4>3, <1>0 DEF OwnAnnouncements, Announces
        <5>2. CASE r # s
          <6>1. up'[r] = up[r] BY <5>2, <4>4, <1>0 DEF PortsTyped
          <6> QED BY <6>1, <4>6, <1>0 DEF OwnAnnouncements
        <5> QED BY <5>1, <5>2
      <4> QED BY <4>5, <4>6
    <3> QED BY <3>1, <3>2
  <2>2. OwnAnnouncements' BY <2>1, <1>0, <1>1, <1>3 DEF OwnAnnouncements, Announces
  <2>3. \A t \in Tabs : current'[t] \in {0, current[t]} BY <1>1
  <2>4. ~booted => handlers' = {} BY <1>1 DEF TabInv, BootComesFirst
  <2>5. UNCHANGED booted /\ UNCHANGED tab /\ UNCHANGED owner /\ UNCHANGED page
        /\ UNCHANGED mode /\ UNCHANGED op /\ UNCHANGED entry
    BY <1>1, <1>3
  <2> QED BY <2>1, <2>2, <2>3, <2>4, <2>5, <1>0, <1>1, <1>3, TabsKeep
<1>4. ASSUME new \in Tab!Providers,
             up' = [up EXCEPT ![s] = Append(@, [kind |-> "open", p |-> new])],
             transport' = [transport EXCEPT ![s] = new],
             owner' = [owner EXCEPT ![new] = s]
      PROVE TabInv'
  <2>1. PICK n \in Nat : /\ new = n + 1
                         /\ \A p \in Tab!Providers : owner[p] # 0 <=> p <= n
    <3>1. \E n \in Nat : \A p \in 1..MaxProviders : owner[p] # 0 <=> p <= n
      BY PortNumbers DEF TabInv, ProvidersInOrder
    <3>2. Cardinality({q \in 1..MaxProviders : owner[q] # 0}) + 1 \in 1..MaxProviders
      BY <1>2, <1>4, PortNumbers
    <3> QED BY <1>2, <3>1, <3>2, PortNumbers, NextIsUnused
  <2>2. /\ new \in Nat /\ n + 1 \in Nat /\ owner[new] = 0 /\ s # 0 /\ owner'[new] = s
        /\ DOMAIN owner' = Tab!Providers
        /\ \A p \in Tab!Providers : p # new => owner'[p] = owner[p]
    BY <2>1, <1>0, <1>4, PortNumbers DEF PortsTyped
  <2>3. ProvidersInOrder'
    <3>1. ASSUME NEW p \in Tab!Providers PROVE owner'[p] # 0 <=> p <= n + 1
      <4>1. p \in Nat BY PortNumbers
      <4> QED BY <4>1, <2>1, <2>2
    <3> QED BY <3>1, <2>2 DEF ProvidersInOrder
  <2>4. PICK msg : msg = [kind |-> "open", p |-> new] OBVIOUS
  <2>5. msg \in UpMessages /\ msg.p = new BY <2>2, <2>4 DEF UpMessages
  <2>6. up' = [up EXCEPT ![s] = Append(@, msg)] BY <2>4, <1>4
  <2>7. up' \in [Tab!Ports -> Seq(UpMessages)] BY <2>5, <2>6, MessagesMove
  <2>8. ASSUME NEW r, NEW m, Announces(owner, m, r), r \in Tab!Ports PROVE Announces(owner', m, r)
    <3>1. m.kind = "open" => m.p # new BY <2>2, <2>8, PortNumbers DEF Announces
    <3> QED BY <3>1, <2>2, <2>8 DEF Announces
  <2>9. Announces(owner', msg, s) BY <2>2, <2>5, <1>4 DEF Announces
  <2>10. ASSUME NEW r \in Tab!Ports, NEW i \in 1..Len(up'[r])
         PROVE Announces(owner', up'[r][i], r)
    <3>1. CASE r = s
      <4>1. up'[s] = Append(up[s], msg) BY <2>6, <1>0 DEF PortsTyped
      <4>2. (i \in 1..Len(up[s]) /\ up'[s][i] = up[s][i]) \/ up'[s][i] = msg
        BY <4>1, <3>1, <2>10, <1>0
      <4>3. CASE up'[s][i] = msg BY <4>3, <3>1, <2>9
      <4>4. CASE i \in 1..Len(up[s]) /\ up'[s][i] = up[s][i]
        <5>1. Announces(owner, up[s][i], s) BY <4>4, <1>0 DEF OwnAnnouncements
        <5>2. PICK m : m = up[s][i] OBVIOUS
        <5>3. Announces(owner', m, s) BY <5>1, <5>2, <2>8
        <5>4. up'[s][i] = m BY <5>2, <4>4
        <5> QED BY <5>3, <5>4, <3>1 DEF Announces
      <4> QED BY <4>2, <4>3, <4>4
    <3>2. CASE r # s
      <4>1. up'[r] = up[r] BY <3>2, <2>6, <1>0 DEF PortsTyped
      <4>2. PICK m : m = up[r][i] OBVIOUS
      <4>3. Announces(owner, m, r) BY <4>1, <4>2, <2>10, <1>0 DEF OwnAnnouncements
      <4>4. Announces(owner', m, r) BY <4>3, <2>8
      <4> QED BY <4>1, <4>2, <4>4 DEF Announces
    <3> QED BY <3>1, <3>2
  <2>11. ASSUME NEW h \in handlers' PROVE Announces(owner', h, h.port) /\ h.port \in Tab!Ports
    <3>1. h \in handlers BY <2>11, <1>1
    <3>2. Announces(owner, h, h.port) /\ h.port \in Tab!Ports BY <3>1, <1>0 DEF OwnAnnouncements
    <3>3. h.kind = "open" => h.p # new BY <3>2, <2>2, PortNumbers DEF Announces
    <3> QED BY <3>2, <3>3, <2>2 DEF Announces
  <2>12. OwnAnnouncements' BY <2>10, <2>11 DEF OwnAnnouncements
  <2>13. PortsTyped' BY <2>2, <2>7, <1>0, <1>1, <1>4 DEF PortsTyped
  <2>14. EntriesSound' /\ PortsInOrder' BY <1>1 DEF TabInv, EntriesSound, PortsInOrder
  <2>15. PathsLead' BY <2>2, <1>0, <1>1 DEF PathsLead
  <2>16. BootComesFirst' BY <1>1 DEF TabInv, BootComesFirst
  <2>17. AgentSocketsGo'
    <3>1. \A p \in Tab!Providers : entry[p].listed => owner'[p] = owner[p]
      BY <2>2, <1>0 DEF PathsLead
    <3> QED BY <3>1, <1>1 DEF TabInv, AgentSocketsGo
  <2> QED BY <2>3, <2>12, <2>13, <2>14, <2>15, <2>16, <2>17 DEF TabInv
<1>5. PICK msg : msg = Head(down[s]) OBVIOUS
<1>6. new = Tab!Cardinality({q \in Tab!Providers : owner[q] # 0}) + 1
  BY <1>2 DEF Cardinality, Tab!Cardinality
<1>7. \/ /\ new \in Tab!Providers
         /\ up' = [up EXCEPT ![s] = Append(@, [kind |-> "open", p |-> new])]
         /\ transport' = [transport EXCEPT ![s] = new] /\ owner' = [owner EXCEPT ![new] = s]
      \/ /\ owner' = owner /\ transport' \in {transport, [transport EXCEPT ![s] = 0]}
         /\ \/ up' = up
            \/ \E kind \in {"close", "rpc", "navigate"} :
                 up' = [up EXCEPT ![s] = Append(@, [kind |-> kind, p |-> transport[s]])]
  BY <1>5, <1>6 DEF Tab!PageHandles
<1>8. transport \in [Tab!Ports -> Nat] /\ [transport EXCEPT ![s] = 0] \in [Tab!Ports -> Nat]
  BY <1>0 DEF PortsTyped
<1>9. CASE owner' = owner /\ transport' \in {transport, [transport EXCEPT ![s] = 0]}
           /\ \/ up' = up
              \/ \E kind \in {"close", "rpc", "navigate"} :
                   up' = [up EXCEPT ![s] = Append(@, [kind |-> kind, p |-> transport[s]])]
  BY <1>8, <1>9, <1>3
<1> QED BY <1>4, <1>7, <1>9

\* Content scripts that connect, leave and are gone.
LEMMA PortsKeep ==
  ASSUME TabInv
  PROVE /\ \A t \in Tabs : Tab!Connect(t) => TabInv'
        /\ \A s \in Tab!Ports : Tab!Unload(s) => TabInv'
        /\ \A s \in Tab!Ports : Tab!OnDisconnect(s) => TabInv'
        /\ \A o \in Ops, t \in Tabs : Tab!TabRemoved(o, t) => TabInv'
<1>0. /\ PortsTyped /\ OwnAnnouncements /\ PathsLead /\ BootComesFirst
      /\ DOMAIN entry = Tab!Providers
      /\ \A q \in Tab!Providers : SocketKnown(entry[q])
  BY DEF TabInv, EntriesSound
<1>1. ASSUME NEW t \in Tabs, Tab!Connect(t) PROVE TabInv'
  <2>1. PICK s : s = Cardinality({q \in Tab!Ports : page[q] # "none"}) + 1 OBVIOUS
  <2>2. s = Tab!Cardinality({q \in Tab!Ports : page[q] # "none"}) + 1
    BY <2>1 DEF Cardinality, Tab!Cardinality
  <2>3. /\ s \in Tab!Ports /\ page' = [page EXCEPT ![s] = "live"] /\ tab' = [tab EXCEPT ![s] = t]
        /\ up' = [up EXCEPT ![s] = <<[kind |-> "hello", p |-> 0]>>]
        /\ current' = [current EXCEPT ![t] = s]
        /\ Tab!CloseAllSockets(current[t])
        /\ UNCHANGED <<saved, booted, mode, transport, owner, handlers, op>>
    BY <1>1, <2>2 DEF Tab!Connect, Tab!ContentConnects, Tab!storage
  <2>4. PICK n \in Nat : s = n + 1 /\ \A q \in Tab!Ports : page[q] # "none" <=> q <= n
    <3>1. \E n \in Nat : \A q \in 1..MaxPorts : page[q] # "none" <=> q <= n
      BY PortNumbers DEF TabInv, PortsInOrder
    <3>2. Cardinality({q \in 1..MaxPorts : page[q] # "none"}) + 1 \in 1..MaxPorts
      BY <2>1, <2>3, PortNumbers
    <3> QED BY <2>1, <3>1, <3>2, PortNumbers, NextIsUnused
  <2>5. /\ s \in Nat /\ n + 1 \in Nat /\ page[s] = "none" /\ page'[s] = "live" /\ tab'[s] = t
        /\ current'[t] = s
        /\ DOMAIN page' = Tab!Ports /\ DOMAIN tab' = Tab!Ports /\ DOMAIN current' = Tabs
        /\ \A q \in Tab!Ports : q # s => page'[q] = page[q] /\ tab'[q] = tab[q]
        /\ \A u \in Tabs : u # t => current'[u] = current[u]
    BY <2>3, <2>4, <1>0, PortNumbers DEF PortsTyped
  <2>6. /\ DOMAIN entry' = Tab!Providers
        /\ \A p \in Tab!Providers : SocketKnown(entry'[p])
                                    /\ (entry'[p].listed => entry[p].listed)
    BY <2>3, ClosingKeeps
  <2>7. PICK msg : msg = [kind |-> "hello", p |-> 0] OBVIOUS
  <2>8. msg \in UpMessages /\ msg.kind # "open" BY <2>7 DEF UpMessages
  <2>9. <<msg>> \in Seq(UpMessages) /\ Len(<<msg>>) = 1 /\ <<msg>>[1] = msg BY <2>8
  <2>10. /\ up' \in [Tab!Ports -> Seq(UpMessages)] /\ up'[s] = <<msg>>
         /\ \A q \in Tab!Ports : q # s => up'[q] = up[q]
    BY <2>3, <2>7, <2>9, <1>0 DEF PortsTyped
  <2>11. OwnAnnouncements'
    <3>1. ASSUME NEW q \in Tab!Ports, NEW i \in 1..Len(up'[q]) PROVE Announces(owner, up'[q][i], q)
      <4>1. CASE q = s
        <5>1. up'[q] = <<msg>> /\ i = 1 BY <4>1, <3>1, <2>9, <2>10
        <5> QED BY <5>1, <2>8, <2>9 DEF Announces
      <4>2. CASE q # s BY <4>2, <3>1, <2>10, <1>0 DEF OwnAnnouncements
      <4> QED BY <4>1, <4>2
    <3> QED BY <3>1, <2>3, <1>0 DEF OwnAnnouncements
  <2>12. PortsTyped' BY <2>3, <2>5, <2>10, <1>0 DEF PortsTyped
  <2>13. EntriesSound' BY <2>6 DEF EntriesSound
  <2>14. PortsInOrder'
    <3>1. ASSUME NEW q \in Tab!Ports PROVE page'[q] # "none" <=> q <= n + 1
      <4>1. q \in Nat BY PortNumbers
      <4> QED BY <4>1, <2>4, <2>5
    <3> QED BY <3>1, <2>5 DEF PortsInOrder
  <2>15. ProvidersInOrder' BY <2>3 DEF TabInv, ProvidersInOrder
  <2>16. PathsLead'
    <3>1. ASSUME NEW u \in Tabs, current'[u] # 0
          PROVE current'[u] \in Tab!Ports /\ tab'[current'[u]] = u /\ page'[current'[u]] # "none"
      <4>1. CASE u = t BY <4>1, <2>3, <2>5
      <4>2. CASE u # t
        <5>1. current[u] \in Tab!Ports /\ tab[current[u]] = u /\ page[current[u]] # "none"
          BY <4>2, <3>1, <2>5, <1>0 DEF PathsLead
        <5> QED BY <5>1, <4>2, <2>5
      <4> QED BY <4>1, <4>2
    <3>2. ASSUME NEW p \in Tab!Providers
          PROVE /\ owner'[p] # 0 => owner'[p] \in Tab!Ports /\ page'[owner'[p]] # "none"
                /\ owner'[p] = 0 => ~entry'[p].listed
      BY <2>3, <2>5, <2>6, <1>0 DEF PathsLead
    <3> QED BY <3>1, <3>2 DEF PathsLead
  <2>17. BootComesFirst' BY <2>3, <2>6, <1>0 DEF BootComesFirst
  <2>18. AgentSocketsGo'
    <3>1. SUFFICES ASSUME booted, NEW u \in Tabs, NEW p \in Tab!Providers, mode[u] = "agent",
                          current'[u] # 0, owner[p] = current'[u], entry'[p].listed
                   PROVE \E o \in Ops : op[o].pc = "teardown" /\ op[o].tab = u
      BY <2>3 DEF AgentSocketsGo
    <3>2. page[owner[p]] # "none" BY <3>1, <2>3, <2>5, <1>0, PortNumbers DEF PathsLead
    <3>3. u # t BY <3>1, <3>2, <2>5
    <3> QED BY <3>1, <3>3, <2>5, <2>6 DEF TabInv, AgentSocketsGo
  <2> QED BY <2>11, <2>12, <2>13, <2>14, <2>15, <2>16, <2>17, <2>18 DEF TabInv
<1>2. ASSUME NEW s \in Tab!Ports, Tab!Unload(s) PROVE TabInv'
  <2>1. /\ page' = [q \in Tab!Ports |-> IF q \in {s} /\ page[q] = "live" THEN "left" ELSE page[q]]
        /\ transport' = [q \in Tab!Ports |-> IF q \in {s} THEN 0 ELSE transport[q]]
        /\ UNCHANGED <<saved, booted, mode, current, tab, up, owner, entry, handlers, op>>
    BY <1>2 DEF Tab!Unload, Tab!ContentDisconnects, Tab!storage
  <2>2. DOMAIN page' = Tab!Ports /\ \A q \in Tab!Ports : page'[q] # "none" <=> page[q] # "none"
    BY <2>1
  <2>3. transport' \in [Tab!Ports -> Nat] BY <2>1, <1>0 DEF PortsTyped
  <2>4. OwnAnnouncements' BY <2>1, <1>0 DEF OwnAnnouncements, Announces
  <2>5. /\ DOMAIN mode' = Tabs /\ DOMAIN saved' = Tabs /\ DOMAIN current' = Tabs /\ DOMAIN op' = Ops
        /\ up' \in [Tab!Ports -> Seq(UpMessages)] /\ (~booted => handlers' = {})
        /\ \A t \in Tabs : current'[t] \in {0, current[t]}
    BY <2>1, <1>0 DEF PortsTyped, BootComesFirst
  <2>6. /\ UNCHANGED booted /\ UNCHANGED tab /\ UNCHANGED owner
        /\ \A u \in Tabs : mode'[u] = "agent" => mode[u] = "agent"
        /\ \A k \in Ops : op[k].pc = "teardown" => /\ op'[k].pc = "teardown"
                                                   /\ op'[k].tab = op[k].tab
        /\ DOMAIN entry' = Tab!Providers
        /\ \A p \in Tab!Providers : SocketKnown(entry'[p])
                                    /\ (entry'[p].listed => entry[p].listed)
    BY <2>1, <1>0
  <2> QED BY <2>2, <2>3, <2>4, <2>5, <2>6, TabsKeep
<1>3. ASSUME NEW s \in Tab!Ports, Tab!OnDisconnect(s) PROVE TabInv'
  <2>1. /\ current' = [current EXCEPT ![tab[s]] = 0] /\ Tab!CloseAllSockets(s)
        /\ UNCHANGED <<saved, booted, mode, page, tab, transport, up, owner, handlers, op>>
    BY <1>3 DEF Tab!OnDisconnect, Tab!storage, Tab!pages
  <2>2. DOMAIN current' = Tabs /\ \A t \in Tabs : current'[t] \in {0, current[t]}
    BY <2>1, <1>0 DEF PortsTyped
  <2>3. /\ DOMAIN entry' = Tab!Providers
        /\ \A p \in Tab!Providers : SocketKnown(entry'[p])
                                    /\ (entry'[p].listed => entry[p].listed)
    BY <2>1, ClosingKeeps
  <2>4. OwnAnnouncements' BY <2>1, <1>0 DEF OwnAnnouncements, Announces
  <2>5. /\ DOMAIN mode' = Tabs /\ DOMAIN saved' = Tabs /\ DOMAIN page' = Tab!Ports
        /\ DOMAIN op' = Ops /\ transport' \in [Tab!Ports -> Nat]
        /\ up' \in [Tab!Ports -> Seq(UpMessages)] /\ (~booted => handlers' = {})
    BY <2>1, <1>0 DEF PortsTyped, BootComesFirst
  <2>6. /\ UNCHANGED booted /\ UNCHANGED tab /\ UNCHANGED owner
        /\ \A u \in Tabs : mode'[u] = "agent" => mode[u] = "agent"
        /\ \A k \in Ops : op[k].pc = "teardown" => /\ op'[k].pc = "teardown"
                                                   /\ op'[k].tab = op[k].tab
        /\ \A q \in Tab!Ports : page'[q] # "none" <=> page[q] # "none"
    BY <2>1
  <2> QED BY <2>2, <2>3, <2>4, <2>5, <2>6, TabsKeep
<1>4. ASSUME NEW o \in Ops, NEW t \in Tabs, Tab!TabRemoved(o, t) PROVE TabInv'
  <2>1. PICK s : s = current[t] OBVIOUS
  <2>2. PICK r : r = [Tab!Idle EXCEPT !.pc = "unread", !.kind = "removed", !.tab = t] OBVIOUS
  <2>3. /\ s # 0 /\ op[o].pc = "idle" /\ op' = [op EXCEPT ![o] = r]
        /\ page' = [page EXCEPT ![s] = "closed"] /\ up' = [up EXCEPT ![s] = <<>>]
        /\ transport' = [transport EXCEPT ![s] = 0] /\ current' = [current EXCEPT ![t] = 0]
        /\ Tab!CloseAllSockets(s)
        /\ UNCHANGED <<saved, booted, mode, tab, owner, handlers>>
    BY <1>4, <2>1, <2>2 DEF Tab!TabRemoved, Tab!storage
  <2>4. s \in Tab!Ports /\ page[s] # "none" BY <2>1, <2>3, <1>0 DEF PathsLead
  <2>5. /\ DOMAIN current' = Tabs /\ \A u \in Tabs : current'[u] \in {0, current[u]}
        /\ DOMAIN page' = Tab!Ports
        /\ \A q \in Tab!Ports : page'[q] # "none" <=> page[q] # "none"
        /\ transport' \in [Tab!Ports -> Nat]
        /\ DOMAIN op' = Ops
        /\ \A k \in Ops : op[k].pc = "teardown" => /\ op'[k].pc = "teardown"
                                                   /\ op'[k].tab = op[k].tab
    BY <2>3, <2>4, <1>0 DEF PortsTyped
  <2>6. /\ DOMAIN entry' = Tab!Providers
        /\ \A p \in Tab!Providers : SocketKnown(entry'[p])
                                    /\ (entry'[p].listed => entry[p].listed)
    BY <2>3, ClosingKeeps
  <2>7. <<>> \in Seq(UpMessages) /\ Len(<<>>) = 0 OBVIOUS
  <2>8. /\ up' \in [Tab!Ports -> Seq(UpMessages)] /\ up'[s] = <<>>
        /\ \A q \in Tab!Ports : q # s => up'[q] = up[q]
    BY <2>3, <2>4, <2>7, <1>0 DEF PortsTyped
  <2>9. OwnAnnouncements'
    <3>1. ASSUME NEW q \in Tab!Ports, NEW i \in 1..Len(up'[q]) PROVE Announces(owner, up'[q][i], q)
      <4>1. CASE q = s
        <5>1. i \in 1..0 BY <4>1, <3>1, <2>7, <2>8
        <5> QED BY <5>1
      <4>2. CASE q # s BY <4>2, <3>1, <2>8, <1>0 DEF OwnAnnouncements
      <4> QED BY <4>1, <4>2
    <3> QED BY <3>1, <2>3, <1>0 DEF OwnAnnouncements
  <2>10. /\ DOMAIN mode' = Tabs /\ DOMAIN saved' = Tabs /\ (~booted => handlers' = {})
    BY <2>3, <1>0 DEF PortsTyped, BootComesFirst
  <2>11. /\ UNCHANGED booted /\ UNCHANGED tab /\ UNCHANGED owner
         /\ \A u \in Tabs : mode'[u] = "agent" => mode[u] = "agent"
    BY <2>3
  <2> QED BY <2>5, <2>6, <2>8, <2>9, <2>10, <2>11, TabsKeep
<1> QED BY <1>1, <1>2, <1>3, <1>4

\* The popup's requests.
LEMMA RequestsKeep ==
  ASSUME TabInv, NEW o \in Ops
  PROVE /\ Tab!OpStep(o) => TabInv'
        /\ \A t \in Tabs : Tab!StartDisable(o, t) => TabInv'
        /\ \A kind, m : \A t \in Tabs : Tab!StartRequest(o, kind, t, m) => TabInv'
<1>0. /\ PortsTyped /\ OwnAnnouncements /\ PathsLead /\ BootComesFirst /\ AgentSocketsGo
      /\ DOMAIN entry = Tab!Providers
      /\ \A q \in Tab!Providers : SocketKnown(entry[q])
  BY DEF TabInv, EntriesSound
<1>1. ASSUME UNCHANGED <<booted, current, page, tab, transport, up, owner, handlers>>,
             DOMAIN mode' = Tabs, \A t \in Tabs : mode'[t] = "agent" => mode[t] = "agent",
             DOMAIN saved' = Tabs, DOMAIN op' = Ops,
             \A k \in Ops : op[k].pc = "teardown" =>
                              op'[k].pc = "teardown" /\ op'[k].tab = op[k].tab,
             DOMAIN entry' = Tab!Providers,
             \A p \in Tab!Providers : SocketKnown(entry'[p])
                                      /\ (entry'[p].listed => entry[p].listed)
      PROVE TabInv'
  <2>1. OwnAnnouncements' BY <1>0, <1>1 DEF OwnAnnouncements, Announces
  <2>2. /\ DOMAIN current' = Tabs /\ \A t \in Tabs : current'[t] \in {0, current[t]}
        /\ DOMAIN page' = Tab!Ports /\ transport' \in [Tab!Ports -> Nat]
        /\ \A s \in Tab!Ports : page'[s] # "none" <=> page[s] # "none"
        /\ up' \in [Tab!Ports -> Seq(UpMessages)]
    BY <1>0, <1>1 DEF PortsTyped
  <2>3. ~booted => handlers' = {} BY <1>0, <1>1 DEF BootComesFirst
  <2>4. UNCHANGED booted /\ UNCHANGED tab /\ UNCHANGED owner BY <1>1
  <2> QED BY <1>1, <2>1, <2>2, <2>3, <2>4, TabsKeep
<1>2. ASSUME UNCHANGED <<booted, mode, current, page, tab, transport, up, owner, entry, handlers>>,
             DOMAIN saved' = Tabs, NEW r, op' = [op EXCEPT ![o] = r], op[o].pc # "teardown"
      PROVE TabInv'
  <2>1. DOMAIN op' = Ops /\ \A k \in Ops : k # o => op'[k] = op[k] BY <1>0, <1>2 DEF PortsTyped
  <2>2. \A k \in Ops : op[k].pc = "teardown" => op'[k].pc = "teardown" /\ op'[k].tab = op[k].tab
    BY <2>1, <1>2
  <2>3. DOMAIN mode' = Tabs /\ \A t \in Tabs : mode'[t] = "agent" => mode[t] = "agent"
    BY <1>0, <1>2 DEF PortsTyped
  <2>4. /\ DOMAIN entry' = Tab!Providers
        /\ \A p \in Tab!Providers : SocketKnown(entry'[p]) /\ (entry'[p].listed => entry[p].listed)
    BY <1>0, <1>2
  <2>5. UNCHANGED <<booted, current, page, tab, transport, up, owner, handlers>> BY <1>2
  <2> QED BY <2>1, <2>2, <2>3, <2>4, <2>5, <1>1, <1>2
<1>3. ASSUME NEW pc, Tab!Goes(o, pc) PROVE \E r : op' = [op EXCEPT ![o] = r]
  <2>1. op' = [op EXCEPT ![o] = [op[o] EXCEPT !.pc = pc]] BY <1>3, <1>0 DEF Tab!Goes, PortsTyped
  <2> QED BY <2>1
<1>4. ASSUME Tab!Teardown(o) PROVE TabInv'
  <2>1. PICK s : s = current[op[o].tab] OBVIOUS
  <2>2. /\ Tab!CloseAllSockets(s) /\ op' = [op EXCEPT ![o].pc = "reactivate", ![o].port = s]
        /\ UNCHANGED <<saved, booted, mode, current, page, tab, transport, up, owner, handlers>>
    BY <1>4, <2>1 DEF Tab!Teardown, Tab!storage, Tab!pages
  <2>3. op' = [op EXCEPT ![o] = [op[o] EXCEPT !.pc = "reactivate", !.port = s]]
    BY <2>2, <1>0 DEF PortsTyped
  <2>4. DOMAIN op' = Ops /\ \A k \in Ops : k # o => op'[k] = op[k]
    BY <2>3, <1>0 DEF PortsTyped
  <2>5. /\ DOMAIN entry' = Tab!Providers
        /\ \A p \in Tab!Providers : SocketKnown(entry'[p]) /\ (entry'[p].listed => entry[p].listed)
        /\ \A p \in Tab!Providers : s # 0 /\ owner[p] = s => ~entry'[p].listed
    BY <2>2, ClosingKeeps
  <2>6. PortsTyped' BY <2>2, <2>4, <1>0 DEF PortsTyped
  <2>7. EntriesSound' BY <2>5 DEF EntriesSound
  <2>8. PortsInOrder' /\ ProvidersInOrder' BY <2>2 DEF TabInv, PortsInOrder, ProvidersInOrder
  <2>9. PathsLead' BY <2>2, <2>5, <1>0 DEF PathsLead
  <2>10. OwnAnnouncements' BY <2>2, <1>0 DEF OwnAnnouncements, Announces
  <2>11. BootComesFirst' BY <2>2, <2>5, <1>0 DEF BootComesFirst
  <2>12. AgentSocketsGo'
    <3>1. SUFFICES ASSUME booted, NEW t \in Tabs, NEW p \in Tab!Providers, mode[t] = "agent",
                          current[t] # 0, owner[p] = current[t], entry'[p].listed
                   PROVE \E k \in Ops : op'[k].pc = "teardown" /\ op'[k].tab = t
      BY <2>2 DEF AgentSocketsGo
    <3>2. PICK k \in Ops : op[k].pc = "teardown" /\ op[k].tab = t
      BY <3>1, <2>5, <1>0 DEF AgentSocketsGo
    <3>3. k # o BY <3>1, <3>2, <2>1, <2>5
    <3> QED BY <3>2, <3>3, <2>4
  <2> QED BY <2>6, <2>7, <2>8, <2>9, <2>10, <2>11, <2>12 DEF TabInv
<1>5. ASSUME Tab!Reactivate(o) \/ Tab!FindTab(o) \/ Tab!FindNoTab(o) PROVE TabInv'
  <2>1. /\ saved' = saved /\ op[o].pc # "teardown"
        /\ UNCHANGED <<booted, mode, current, page, tab, transport, up, owner, entry, handlers>>
    BY <1>5 DEF Tab!Reactivate, Tab!FindTab, Tab!FindNoTab, Tab!storage, Tab!pages
  <2>2. PICK r : op' = [op EXCEPT ![o] = r]
    <3>1. CASE Tab!Reactivate(o)
      <4>1. PICK pc : pc = IF op[o].kind = "enable" THEN "read" ELSE "idle" OBVIOUS
      <4>2. op' = [op EXCEPT ![o].pc = pc, ![o].port = 0] BY <3>1, <4>1 DEF Tab!Reactivate
      <4>3. op' = [op EXCEPT ![o] = [op[o] EXCEPT !.pc = pc, !.port = 0]]
        BY <4>2, <1>0 DEF PortsTyped
      <4> QED BY <4>3
    <3>2. CASE ~Tab!Reactivate(o)
      BY <1>5, <1>3, <3>2 DEF Tab!FindTab, Tab!FindNoTab
    <3> QED BY <3>1, <3>2
  <2>3. op[o].pc # "teardown" /\ DOMAIN saved' = Tabs
    BY <1>5, <1>0 DEF Tab!Reactivate, Tab!FindTab, Tab!FindNoTab, Tab!storage, PortsTyped
  <2> QED BY <2>1, <2>2, <2>3, <1>2
<1>6. ASSUME Tab!ReadEnabled(o) PROVE TabInv'
  <2>1. PICK r : r = [op[o] EXCEPT !.set = enabled,
                                   !.pc = IF @ = "read" THEN "write" ELSE "unwrite"]
    OBVIOUS
  <2>2. /\ op' = [op EXCEPT ![o] = r] /\ op[o].pc # "teardown" /\ DOMAIN saved' = Tabs
        /\ UNCHANGED <<booted, mode, current, page, tab, transport, up, owner, entry, handlers>>
    BY <1>6, <2>1, <1>0 DEF Tab!ReadEnabled, Tab!storage, Tab!pages, PortsTyped
  <2> QED BY <2>2, <1>2
<1>7. ASSUME Tab!WriteEnabled(o) PROVE TabInv'
  <2>1. /\ op[o].pc # "teardown" /\ DOMAIN saved' = Tabs
        /\ UNCHANGED <<booted, mode, current, page, tab, transport, up, owner, entry, handlers>>
    BY <1>7, <1>0 DEF Tab!WriteEnabled, Tab!pages, PortsTyped
  <2>2. \E pc : Tab!Goes(o, pc) BY <1>7 DEF Tab!WriteEnabled
  <2>3. PICK r : op' = [op EXCEPT ![o] = r] BY <2>2, <1>3
  <2> QED BY <2>1, <2>3, <1>2
<1>8. ASSUME Tab!Deactivate(o) \/ Tab!DropRoute(o) PROVE TabInv'
  <2>1. /\ op[o].pc # "teardown" /\ DOMAIN saved' = Tabs /\ DOMAIN mode' = Tabs
        /\ \A t \in Tabs : mode'[t] = "agent" => mode[t] = "agent"
        /\ UNCHANGED <<booted, current, page, tab, transport, up, owner, handlers>>
    BY <1>8, <1>0 DEF Tab!Deactivate, Tab!DropRoute, Tab!storage, Tab!pages, PortsTyped
  <2>2. \E pc : Tab!Goes(o, pc) BY <1>8 DEF Tab!Deactivate, Tab!DropRoute
  <2>3. PICK r : op' = [op EXCEPT ![o] = r] BY <2>2, <1>3
  <2>4. /\ DOMAIN op' = Ops
        /\ \A k \in Ops : op[k].pc = "teardown" =>
                            op'[k].pc = "teardown" /\ op'[k].tab = op[k].tab
    BY <2>1, <2>3, <1>0 DEF PortsTyped
  <2>5. entry' = entry \/ \E s : Tab!CloseAllSockets(s)
    BY <1>8 DEF Tab!Deactivate, Tab!DropRoute
  <2>6. /\ DOMAIN entry' = Tab!Providers
        /\ \A p \in Tab!Providers : SocketKnown(entry'[p])
                                    /\ (entry'[p].listed => entry[p].listed)
    BY <2>5, <1>0, ClosingKeeps
  <2> QED BY <2>1, <2>4, <2>6, <1>1
<1>9. ASSUME NEW t \in Tabs, Tab!StartDisable(o, t) PROVE TabInv'
  <2>1. PICK r : op' = [op EXCEPT ![o] = r] BY <1>9 DEF Tab!StartDisable
  <2>2. /\ op[o].pc # "teardown" /\ DOMAIN saved' = Tabs
        /\ UNCHANGED <<booted, mode, current, page, tab, transport, up, owner, entry, handlers>>
    BY <1>9, <1>0 DEF Tab!StartDisable, Tab!storage, Tab!pages, PortsTyped
  <2> QED BY <2>1, <2>2, <1>2
<1>10. ASSUME NEW kind, NEW m, NEW t \in Tabs, Tab!StartRequest(o, kind, t, m) PROVE TabInv'
  <2>1. PICK pc : pc = IF mode[t] # m THEN "teardown"
                       ELSE IF kind = "enable" THEN "read" ELSE "idle"
    OBVIOUS
  <2>2. PICK r : r = [pc |-> pc, kind |-> kind, tab |-> t, mode |-> m, set |-> {}, port |-> 0]
    OBVIOUS
  <2>3. /\ op[o].pc = "idle" /\ op' = [op EXCEPT ![o] = r] /\ mode' = [mode EXCEPT ![t] = m]
        /\ saved' = [saved EXCEPT ![t] = m]
        /\ UNCHANGED <<booted, current, page, tab, transport, up, owner, entry, handlers>>
    BY <1>10, <2>1, <2>2 DEF Tab!StartRequest, Tab!pages
  <2>4. /\ DOMAIN op' = Ops /\ DOMAIN mode' = Tabs /\ DOMAIN saved' = Tabs
        /\ op'[o].pc = pc /\ op'[o].tab = t /\ mode'[t] = m
        /\ \A k \in Ops : k # o => op'[k] = op[k]
        /\ \A u \in Tabs : u # t => mode'[u] = mode[u]
    BY <2>2, <2>3, <1>0 DEF PortsTyped
  <2>5. PortsTyped' BY <2>3, <2>4, <1>0 DEF PortsTyped
  <2>6. EntriesSound' /\ PortsInOrder' /\ ProvidersInOrder'
    BY <2>3 DEF TabInv, EntriesSound, PortsInOrder, ProvidersInOrder
  <2>7. PathsLead' BY <2>3, <1>0 DEF PathsLead
  <2>8. OwnAnnouncements' BY <2>3, <1>0 DEF OwnAnnouncements, Announces
  <2>9. BootComesFirst' BY <2>3, <1>0 DEF BootComesFirst
  <2>10. AgentSocketsGo'
    <3>1. SUFFICES ASSUME booted, NEW u \in Tabs, NEW p \in Tab!Providers, mode'[u] = "agent",
                          current[u] # 0, owner[p] = current[u], entry[p].listed
                   PROVE \E k \in Ops : op'[k].pc = "teardown" /\ op'[k].tab = u
      BY <2>3 DEF AgentSocketsGo
    <3>2. CASE u = t /\ mode[t] # m BY <3>2, <2>1, <2>4
    <3>3. CASE ~(u = t /\ mode[t] # m)
      <4>1. mode[u] = "agent" BY <3>1, <3>3, <2>4
      <4>2. PICK k \in Ops : op[k].pc = "teardown" /\ op[k].tab = u
        BY <3>1, <4>1, <1>0 DEF AgentSocketsGo
      <4>3. k # o BY <4>2, <2>3
      <4> QED BY <4>2, <4>3, <2>4
    <3> QED BY <3>2, <3>3
  <2> QED BY <2>5, <2>6, <2>7, <2>8, <2>9, <2>10 DEF TabInv
<1> QED BY <1>4, <1>5, <1>6, <1>7, <1>8, <1>9, <1>10 DEF Tab!OpStep

\* The bridge, the alarm, another bridge, and the worker that is recycled.
LEMMA WorkerKeeps ==
  ASSUME TabInv
  PROVE /\ \A p, kind : Tab!BridgeAsks(p, kind) => TabInv'
        /\ Tab!KeepAlive => TabInv'
        /\ \A t \in Tabs : Tab!BounceTabSockets(t) => TabInv'
        /\ Tab!Recycled => TabInv'
        /\ Tab!Booted => TabInv'
<1>0. /\ PortsTyped /\ OwnAnnouncements /\ PathsLead /\ BootComesFirst /\ AgentSocketsGo
      /\ DOMAIN entry = Tab!Providers
      /\ \A q \in Tab!Providers : SocketKnown(entry[q]) /\ IsEntry(entry[q])
  BY DEF TabInv, EntriesSound, SocketKnown
<1>1. ASSUME NEW p, NEW kind, Tab!BridgeAsks(p, kind) PROVE TabInv'
  <2>1. /\ UNCHANGED <<saved, booted, mode, current, page, tab, transport, up, owner, op>>
        /\ entry' = entry /\ handlers' \subseteq handlers
    BY <1>1 DEF Tab!BridgeAsks, Tab!storage, Tab!pages
  <2> QED BY <2>1, <1>0, SocketsKeep
<1>2. ASSUME Tab!KeepAlive PROVE TabInv'
  <2>1. /\ UNCHANGED <<saved, booted, mode, current, page, tab, transport, up, owner, op>>
        /\ handlers' \subseteq handlers /\ DOMAIN entry' = Tab!Providers
    BY <1>2 DEF Tab!KeepAlive, Tab!storage, Tab!pages
  <2>2. ASSUME NEW p \in Tab!Providers
        PROVE SocketKnown(entry'[p]) /\ (entry'[p].listed => entry[p].listed)
    <3>1. PICK hold : hold = holds[tab[owner[p]]] OBVIOUS
    <3>2. PICK e : e = [entry[p] EXCEPT !.timer = FALSE] OBVIOUS
    <3>3. entry'[p] \in {entry[p], Tab!ConnectSocket(e, hold)}
      BY <1>2, <3>1, <3>2 DEF Tab!KeepAlive
    <3>4. /\ IsEntry(e) /\ e.listed = entry[p].listed /\ e.ws = entry[p].ws
          /\ e.live = entry[p].live /\ e.held = entry[p].held
      BY <3>2, <1>0 DEF IsEntry
    <3>5. SocketKnown(e) BY <3>4, <1>0 DEF SocketKnown
    <3>6. SocketKnown(Tab!ConnectSocket(e, hold)) /\ Tab!ConnectSocket(e, hold).listed = e.listed
      BY <3>5, EntrySteps
    <3> QED BY <3>3, <3>4, <3>6, <1>0
  <2> QED BY <2>1, <2>2, SocketsKeep
<1>3. ASSUME NEW t \in Tabs, Tab!BounceTabSockets(t) PROVE TabInv'
  <2>1. /\ UNCHANGED <<saved, booted, mode, current, page, tab, transport, up, owner, op>>
        /\ handlers' \subseteq handlers /\ DOMAIN entry' = Tab!Providers
    BY <1>3 DEF Tab!BounceTabSockets, Tab!storage, Tab!pages
  <2>2. ASSUME NEW p \in Tab!Providers
        PROVE SocketKnown(entry'[p]) /\ (entry'[p].listed => entry[p].listed)
    <3>1. PICK e : e = [entry[p] EXCEPT !.ws = "closing"] OBVIOUS
    <3>2. \/ entry'[p] = entry[p]
          \/ entry'[p] = e /\ entry[p].listed /\ entry[p].ws # "none"
      BY <1>3, <3>1 DEF Tab!BounceTabSockets
    <3>3. /\ IsEntry(e) /\ e.listed = entry[p].listed /\ e.ws = "closing"
          /\ e.live = entry[p].live
      BY <3>1, <1>0 DEF IsEntry
    <3>4. entry[p].ws # "none" => SocketKnown(e) BY <3>3, <1>0 DEF SocketKnown
    <3> QED BY <3>2, <3>3, <3>4, <1>0
  <2> QED BY <2>1, <2>2, SocketsKeep
<1>4. SocketKnown(Tab!Unused) /\ ~Tab!Unused.listed
  BY DEF Tab!Unused, SocketKnown, IsEntry
<1>5. ASSUME Tab!Recycled PROVE TabInv'
  <2>1. /\ booted' = FALSE /\ mode' = [t \in Tabs |-> "daemon"] /\ current' = [t \in Tabs |-> 0]
        /\ page' = [s \in Tab!Ports |->
                      IF s \in Tab!Ports /\ page[s] = "live" THEN "left" ELSE page[s]]
        /\ transport' = [s \in Tab!Ports |-> IF s \in Tab!Ports THEN 0 ELSE transport[s]]
        /\ up' = [s \in Tab!Ports |-> <<>>]
        /\ entry' = [p \in Tab!Providers |-> Tab!Unused]
        /\ handlers' = {} /\ op' = [o \in Ops |-> Tab!Idle]
        /\ UNCHANGED <<saved, tab, owner>>
    BY <1>5 DEF Tab!Recycled, Tab!ContentDisconnects, Tab!storage
  <2>2. <<>> \in Seq(UpMessages) /\ Len(<<>>) = 0 OBVIOUS
  <2>3. PortsTyped' BY <2>1, <2>2, <1>0 DEF PortsTyped
  <2>4. EntriesSound' BY <2>1, <1>4 DEF EntriesSound
  <2>5. \A s \in Tab!Ports : page'[s] # "none" <=> page[s] # "none" BY <2>1
  <2>6. PortsInOrder' /\ ProvidersInOrder'
    BY <2>1, <2>5 DEF TabInv, PortsInOrder, ProvidersInOrder
  <2>7. PathsLead' BY <2>1, <2>5, <1>0, <1>4 DEF PathsLead
  <2>8. OwnAnnouncements'
    <3>1. ASSUME NEW s \in Tab!Ports, NEW i \in 1..Len(up'[s]) PROVE FALSE
      <4>1. i \in 1..0 BY <3>1, <2>1, <2>2
      <4> QED BY <4>1
    <3> QED BY <3>1, <2>1 DEF OwnAnnouncements
  <2>9. BootComesFirst' BY <2>1, <1>4 DEF BootComesFirst
  <2>10. AgentSocketsGo' BY <2>1 DEF AgentSocketsGo
  <2> QED BY <2>3, <2>4, <2>6, <2>7, <2>8, <2>9, <2>10 DEF TabInv
<1>6. ASSUME Tab!Booted PROVE TabInv'
  <2>1. /\ ~booted /\ mode' = saved
        /\ UNCHANGED <<saved, current, page, tab, transport, up, owner, entry, handlers, op>>
    BY <1>6 DEF Tab!Booted, Tab!storage, Tab!pages
  <2>2. PortsTyped' BY <2>1, <1>0 DEF PortsTyped
  <2>3. EntriesSound' /\ PortsInOrder' /\ ProvidersInOrder'
    BY <2>1 DEF TabInv, EntriesSound, PortsInOrder, ProvidersInOrder
  <2>4. PathsLead' BY <2>1, <1>0 DEF PathsLead
  <2>5. OwnAnnouncements' BY <2>1, <1>0 DEF OwnAnnouncements, Announces
  <2>6. \A p \in Tab!Providers : ~entry'[p].listed BY <2>1, <1>0 DEF BootComesFirst
  <2>7. handlers' = {} BY <2>1, <1>0 DEF BootComesFirst
  <2>8. BootComesFirst' /\ AgentSocketsGo' BY <2>6, <2>7 DEF BootComesFirst, AgentSocketsGo
  <2> QED BY <2>2, <2>3, <2>4, <2>5, <2>8 DEF TabInv
<1> QED BY <1>1, <1>2, <1>3, <1>5, <1>6

\* The worker's tabs keep their invariant.
LEMMA TabsStaySound == (Init => TabInv) /\ (TabInv /\ [Next]_extensionVars => TabInv')
<1>1. ASSUME Init PROVE TabInv
  <2>1. /\ saved = [t \in Tabs |-> "daemon"] /\ mode = [t \in Tabs |-> "daemon"]
        /\ current = [t \in Tabs |-> 0] /\ page = [s \in Tab!Ports |-> "none"]
        /\ tab = [s \in Tab!Ports |-> CHOOSE t \in Tabs : TRUE]
        /\ transport = [s \in Tab!Ports |-> 0] /\ up = [s \in Tab!Ports |-> <<>>]
        /\ owner = [p \in Tab!Providers |-> 0] /\ entry = [p \in Tab!Providers |-> Tab!Unused]
        /\ handlers = {} /\ op = [o \in Ops |-> Tab!Idle]
    BY <1>1 DEF Init, Tab!Init
  <2>2. SocketKnown(Tab!Unused) /\ ~Tab!Unused.listed
    BY DEF Tab!Unused, SocketKnown, IsEntry
  <2>3. <<>> \in Seq(UpMessages) /\ Len(<<>>) = 0 OBVIOUS
  <2>4. PortsTyped BY <2>1, <2>3 DEF PortsTyped
  <2>5. EntriesSound BY <2>1, <2>2 DEF EntriesSound
  <2>6. PortsInOrder /\ ProvidersInOrder
    <3>1. \A s \in Tab!Ports : page[s] # "none" <=> s <= 0 BY <2>1, PortNumbers
    <3>2. \A p \in Tab!Providers : owner[p] # 0 <=> p <= 0 BY <2>1, PortNumbers
    <3> QED BY <3>1, <3>2 DEF PortsInOrder, ProvidersInOrder
  <2>7. PathsLead BY <2>1, <2>2 DEF PathsLead
  <2>8. OwnAnnouncements
    <3>1. ASSUME NEW s \in Tab!Ports, NEW i \in 1..Len(up[s]) PROVE FALSE
      <4>1. i \in 1..0 BY <3>1, <2>1, <2>3
      <4> QED BY <4>1
    <3> QED BY <3>1, <2>1 DEF OwnAnnouncements
  <2>9. BootComesFirst /\ AgentSocketsGo BY <2>1, <2>2 DEF BootComesFirst, AgentSocketsGo
  <2> QED BY <2>4, <2>5, <2>6, <2>7, <2>8, <2>9 DEF TabInv
<1>2. ASSUME TabInv, [Next]_extensionVars PROVE TabInv'
  <2>1. CASE UNCHANGED tabPart
    <3>1. /\ UNCHANGED saved /\ UNCHANGED booted /\ UNCHANGED mode /\ UNCHANGED current
          /\ UNCHANGED page /\ UNCHANGED tab /\ UNCHANGED transport /\ UNCHANGED up
          /\ UNCHANGED owner /\ UNCHANGED entry /\ UNCHANGED handlers /\ UNCHANGED op
      BY <2>1 DEF tabPart
    <3>2. \A q \in Tab!Providers : SocketKnown(entry'[q]) /\ (entry'[q].listed => entry[q].listed)
      BY <3>1, <1>2 DEF TabInv, EntriesSound
    <3>3. DOMAIN entry' = Tab!Providers BY <3>1, <1>2 DEF TabInv, EntriesSound
    <3>4. TabInv BY <1>2
    <3> QED BY <3>1, <3>2, <3>3, <3>4, SocketsKeep
  <2>2. CASE Tab!Next
    <3>0. TabInv BY <1>2
    <3>1. ASSUME NEW p \in Tab!Providers, Tab!SocketStep(p) \/ Tab!NavStep(p) PROVE TabInv'
      BY <3>0, <3>1, SocketStepsKeep
    <3>2. ASSUME NEW s \in Tab!Ports, Tab!PortStep(s) \/ Tab!Unload(s) PROVE TabInv'
      BY <3>0, <3>2, PortsKeep, PageHandlesKeeps, HandleUpKeeps DEF Tab!PortStep
    <3>3. ASSUME NEW h \in handlers, Tab!HandlerStep(h) PROVE TabInv'
      BY <3>0, <3>3, HandlersKeep
    <3>4. ASSUME NEW o \in Ops, Tab!OpStep(o) PROVE TabInv'
      BY <3>0, <3>4, RequestsKeep
    <3>5. ASSUME NEW o \in Ops, NEW t \in Tabs, Tab!StartDisable(o, t) \/ Tab!TabRemoved(o, t)
          PROVE TabInv'
      BY <3>0, <3>5, RequestsKeep, PortsKeep
    <3>6. ASSUME NEW o \in Ops, NEW kind, NEW t \in Tabs, NEW m, Tab!StartRequest(o, kind, t, m)
          PROVE TabInv'
      BY <3>0, <3>6, RequestsKeep
    <3>7. ASSUME NEW t \in Tabs, Tab!Connect(t) \/ Tab!BounceTabSockets(t) PROVE TabInv'
      BY <3>0, <3>7, PortsKeep, WorkerKeeps
    <3>8. ASSUME NEW p, NEW kind, Tab!BridgeAsks(p, kind) PROVE TabInv'
      BY <3>0, <3>8, WorkerKeeps
    <3>9. Tab!KeepAlive \/ Tab!Recycled \/ Tab!Booted => TabInv' BY <3>0, WorkerKeeps
    <3> QED BY <3>1, <3>2, <3>3, <3>4, <3>5, <3>6, <3>7, <3>8, <3>9, <2>2 DEF Tab!Next
  <2> QED BY <2>1, <2>2, <1>2 DEF Next, extensionVars
<1> QED BY <1>1, <1>2

\* Whatever dials, timers, switches of the route, navigations and late events overlap, the
\* bridge sees at most one connection per page and one of the browser: an entry knows its
\* socket, and the only socket of the browser provider that is alive is its current one.
THEOREM ConnectionsAreSingle == Spec => []OneSocketPerProvider
<1>1. Init => LinkInv
  <2> SUFFICES ASSUME Init PROVE LinkInv OBVIOUS
  <2>1. /\ provider = [want |-> FALSE, ws |-> 0, generation |-> 0, timer |-> FALSE]
        /\ dial = [g \in Control!Dials |-> "none"]
    BY DEF Init, Control!Init
  <2>2. LinkSound(provider, dial) BY <2>1 DEF LinkSound
  <2>3. LinkCovered(provider, dial) BY <2>1 DEF LinkCovered
  <2> QED BY <2>2, <2>3 DEF LinkInv
<1>2. LinkInv /\ [Next]_extensionVars => LinkInv'
  <2> SUFFICES ASSUME LinkInv, [Next]_extensionVars PROVE LinkInv' OBVIOUS
  <2>1. CASE UNCHANGED controlPart
    <3>1. provider' = provider /\ dial' = dial BY <2>1 DEF controlPart
    <3> QED BY <3>1 DEF LinkInv, LinkSound, LinkCovered
  <2>2. CASE Control!Next BY <2>2, ControlKeepsLink
  <2> QED BY <2>1, <2>2 DEF Next, extensionVars
<1>3. LinkInv => Control!OneBrowserConnection
  BY DEF LinkInv, LinkSound, LinkCovered, Control!OneBrowserConnection, Control!Live,
         Control!IsCurrent
<1>4. TabInv => Tab!OneSocketPerProvider
  BY DEF TabInv, EntriesSound, SocketKnown, Tab!OneSocketPerProvider
<1>5. TabInv /\ LinkInv => OneSocketPerProvider BY <1>3, <1>4 DEF OneSocketPerProvider
<1>6. (Init => TabInv) /\ (TabInv /\ [Next]_extensionVars => TabInv') BY TabsStaySound
<1> QED BY <1>1, <1>2, <1>5, <1>6, PTL DEF Spec

\* A tab that serves a web agent has no socket listed once its route is settled, so no
\* dial, timer, alarm or restart of the worker makes it reach for the daemon.
THEOREM AgentTabsStayOff == Spec => []AgentTabsDialNobody
<1>1. TabInv => AgentTabsDialNobody
  BY DEF TabInv, AgentSocketsGo, AgentTabsDialNobody, Tab!AgentTabsDialNobody
<1>2. (Init => TabInv) /\ (TabInv /\ [Next]_extensionVars => TabInv') BY TabsStaySound
<1> QED BY <1>1, <1>2, PTL DEF Spec

(***************************************************************************)
(* Navigations that owe a reply. A hold is of a navigation of its tab, and *)
(* begins only while the page that asked for it is the tab's last.         *)
(***************************************************************************)
Navigating(t) == {p \in Tab!Providers : nav[p] # "none" /\ tab[owner[p]] = t}

\* What a page has sent and nobody has worked off, and what it has been asked.
OnItsWay(kind, q) ==
  \/ \E s \in Tab!Ports : \E i \in 1..Len(up[s]) : up[s][i].kind = kind /\ up[s][i].p = q
  \/ \E h \in handlers : h.kind = kind /\ h.p = q
Requested(q) ==
  \E s \in Tab!Ports : \E i \in 1..Len(down[s]) : down[s][i].kind = "goto" /\ down[s][i].p = q

DownMessages == [kind : {"activate", "deactivate", "close", "ask", "goto"}, p : Nat]

Waiting == [port : Tab!Ports, kind : {"hello", "open", "navigate"}, p : Nat]

\* A live page is its tab's, what a tab has is the last that it had, and a page runs
\* what is its own.
PagesInv ==
  /\ \A s \in Tab!Ports : page[s] # "none" => tab[s] \in Tabs
  /\ \A s \in Tab!Ports : page[s] = "live" => current[tab[s]] = s
  /\ \A t \in Tabs : current[t] # 0 =>
       \A s \in Tab!Ports : page[s] # "none" /\ tab[s] = t => s <= current[t]
  /\ \A s \in Tab!Ports : transport[s] # 0 =>
       transport[s] \in Tab!Providers /\ owner[transport[s]] = s

\* A page is asked, and asks, for navigations of its own.
AsksItsOwn ==
  /\ down \in [Tab!Ports -> Seq(DownMessages)] /\ handlers \subseteq Waiting
  /\ \A s \in Tab!Ports : \A i \in 1..Len(down[s]) :
       down[s][i].kind = "goto" => down[s][i].p \in Tab!Providers /\ owner[down[s][i].p] = s
  /\ \A s \in Tab!Ports : \A i \in 1..Len(up[s]) :
       up[s][i].kind = "navigate" => up[s][i].p \in Tab!Providers /\ owner[up[s][i].p] = s
  /\ \A h \in handlers : h.kind = "navigate" => h.p \in Tab!Providers /\ owner[h.p] = h.port

\* A provider is announced once, before it is listed and asked for anything.
OpensOnce ==
  /\ \A s \in Tab!Ports : \A i, j \in 1..Len(up[s]) :
       up[s][i].kind = "open" /\ up[s][j].kind = "open" /\ up[s][i].p = up[s][j].p => i = j
  /\ \A s \in Tab!Ports : \A i \in 1..Len(up[s]) : \A h \in handlers :
       up[s][i].kind = "open" /\ h.kind = "open" => h.p # up[s][i].p
OpensFirst ==
  \A q \in Tab!Providers : OnItsWay("open", q) =>
    ~entry[q].listed /\ ~OnItsWay("navigate", q) /\ ~Requested(q)

\* A socket that a navigation may still hold is of the page that the tab has.
AskedByTheLast ==
  \A q \in Tab!Providers : OnItsWay("navigate", q) /\ entry[q].listed =>
    current[tab[owner[q]]] = owner[q]

MessagesInv == AsksItsOwn /\ OpensOnce /\ OpensFirst /\ AskedByTheLast

\* Every navigation under way holds its tab, and a page that came after the one that
\* asked for it does not dial.
HoldsCover ==
  /\ DOMAIN holds = Tabs /\ DOMAIN nav = Tab!Providers
  /\ \A t \in Tabs : holds[t] \in Nat /\ Cardinality(Navigating(t)) <= holds[t]
UnusedAreIdle ==
  \A p \in Tab!Providers : owner[p] = 0 => nav[p] = "none" /\ entry[p].dials = 0
LaterOnesWait ==
  \A p, q \in Tab!Providers :
    ( nav[q] # "none" /\ owner[q] \in 1..(owner[p] - 1) /\ tab[owner[q]] = tab[owner[p]] )
    => entry[p].dials = 0

WaitsInv == HoldsCover /\ UnusedAreIdle /\ LaterOnesWait

HoldInv == PagesInv /\ MessagesInv /\ WaitsInv

\* Where no Port is new, none comes alive and no transport starts.
LEMMA PagesKept ==
  ASSUME TabInv, PagesInv, UNCHANGED <<tab, owner>>,
         \A s \in Tab!Ports : /\ page'[s] # "none" <=> page[s] # "none"
                              /\ page'[s] = "live" =>
                                   page[s] = "live" /\ current'[tab[s]] = current[tab[s]]
                              /\ transport'[s] \in {0, transport[s]},
         \A t \in Tabs : current'[t] \in {0, current[t]}
  PROVE  PagesInv'
BY DEF PagesInv

\* Where nothing is announced, asked or listed anew.
LEMMA MessagesKept ==
  ASSUME TabInv, MessagesInv, UNCHANGED owner, handlers' \subseteq handlers,
         down' \in [Tab!Ports -> Seq(DownMessages)],
         \A s \in Tab!Ports : \A i \in 1..Len(down'[s]) : down'[s][i].kind = "goto" =>
           \E j \in 1..Len(down[s]) : down[s][j] = down'[s][i],
         \A s \in Tab!Ports : \A i \in 1..Len(up'[s]) : up'[s][i].kind \in {"open", "navigate"} =>
           i \in 1..Len(up[s]) /\ up[s][i] = up'[s][i],
         \A q \in Tab!Providers : entry'[q].listed =>
           entry[q].listed /\ (current[tab[owner[q]]] = owner[q] =>
                                 current'[tab'[owner[q]]] = owner[q])
  PROVE  MessagesInv'
<1> USE DEF MessagesInv
<1>1. AsksItsOwn'
  <2>1. handlers' \subseteq Waiting
        /\ \A h \in handlers' : h.kind = "navigate" =>
             h.p \in Tab!Providers /\ owner'[h.p] = h.port
    BY DEF AsksItsOwn
  <2>2. \A s \in Tab!Ports : \A i \in 1..Len(down'[s]) : down'[s][i].kind = "goto" =>
          down'[s][i].p \in Tab!Providers /\ owner'[down'[s][i].p] = s
    BY DEF AsksItsOwn
  <2>3. \A s \in Tab!Ports : \A i \in 1..Len(up'[s]) : up'[s][i].kind = "navigate" =>
          up'[s][i].p \in Tab!Providers /\ owner'[up'[s][i].p] = s
    <3>1. ASSUME NEW s \in Tab!Ports, NEW i \in 1..Len(up'[s]), up'[s][i].kind = "navigate"
          PROVE  up'[s][i].p \in Tab!Providers /\ owner'[up'[s][i].p] = s
      <4>1. i \in 1..Len(up[s]) /\ up[s][i] = up'[s][i] /\ up[s][i].kind = "navigate"
        BY <3>1
      <4> QED BY <4>1 DEF AsksItsOwn
    <3> QED BY <3>1
  <2> QED BY <2>1, <2>2, <2>3 DEF AsksItsOwn
<1>2. OpensOnce'
  <2>1. \A s \in Tab!Ports : \A i, j \in 1..Len(up'[s]) :
          up'[s][i].kind = "open" /\ up'[s][j].kind = "open" /\ up'[s][i].p = up'[s][j].p
            => i = j
    BY DEF OpensOnce
  <2>2. \A s \in Tab!Ports : \A i \in 1..Len(up'[s]) : \A h \in handlers' :
          up'[s][i].kind = "open" /\ h.kind = "open" => h.p # up'[s][i].p
    BY DEF OpensOnce
  <2> QED BY <2>1, <2>2 DEF OpensOnce
<1>3. \A q : \A kind \in {"open", "navigate"} : OnItsWay(kind, q)' => OnItsWay(kind, q)
  BY DEF OnItsWay
<1>4. \A q : Requested(q)' => Requested(q)
  BY DEF Requested
<1>5. OpensFirst'
  BY <1>3, <1>4 DEF OpensFirst
<1>6. AskedByTheLast'
  BY <1>3 DEF AskedByTheLast
<1> QED BY <1>1, <1>2, <1>5, <1>6

\* Navigations are of providers, and those are finitely many.
LEMMA NavigationsAreFew == \A t : IsFiniteSet(Navigating(t))
<1>1. IsFiniteSet(Tab!Providers)
  BY PortNumbers, FS_Interval
<1>2. \A t : Navigating(t) \subseteq Tab!Providers
  BY DEF Navigating
<1> QED BY <1>1, <1>2, FS_Subset

\* Where no hold begins or ends: who starts to dial is on a tab that nothing holds.
LEMMA WaitsKept ==
  ASSUME TabInv, WaitsInv, UNCHANGED holds, DOMAIN nav' = Tab!Providers,
         \A p \in Tab!Providers : nav'[p] = "none" <=> nav[p] = "none",
         \A p \in Tab!Providers : owner'[p] = 0 => entry'[p].dials = 0 /\ owner[p] = 0,
         \A p \in Tab!Providers :
           \/ owner'[p] = owner[p] /\ tab'[owner[p]] = tab[owner[p]]
           \/ nav[p] = "none" /\ entry'[p].dials = 0,
         \A p \in Tab!Providers :
           \/ entry'[p].dials = entry[p].dials \/ entry[p].dials # 0
           \/ owner[p] # 0 /\ tab[owner[p]] \in Tabs /\ holds[tab[owner[p]]] = 0
  PROVE  WaitsInv'
<1> USE DEF WaitsInv
<1>1. \A t : Navigating(t)' = Navigating(t)
  BY DEF Navigating
<1>2. HoldsCover'
  BY <1>1 DEF HoldsCover
<1>3. UnusedAreIdle'
  BY DEF UnusedAreIdle
<1>4. ASSUME NEW p \in Tab!Providers, NEW q \in Tab!Providers, nav'[q] # "none",
             owner'[q] \in 1..(owner'[p] - 1), tab'[owner'[q]] = tab'[owner'[p]],
             entry'[p].dials # 0
      PROVE  FALSE
  <2>1. /\ owner'[q] = owner[q] /\ tab'[owner[q]] = tab[owner[q]]
        /\ owner'[p] = owner[p] /\ tab'[owner[p]] = tab[owner[p]]
    BY <1>4
  <2>2. entry[p].dials = 0
    BY <1>4, <2>1 DEF LaterOnesWait
  <2>3. tab[owner[p]] \in Tabs /\ holds[tab[owner[p]]] = 0
    BY <1>4, <2>2
  <2>4. q \in Navigating(tab[owner[p]])
    BY <1>4, <2>1 DEF Navigating
  <2>5. IsFiniteSet(Navigating(tab[owner[p]]))
    BY NavigationsAreFew
  <2>6. Cardinality(Navigating(tab[owner[p]])) # 0
    BY <2>4, <2>5, FS_EmptySet
  <2>7. Cardinality(Navigating(tab[owner[p]])) \in Nat
    BY <2>5, FS_CardinalityType
  <2> QED BY <2>3, <2>6, <2>7 DEF HoldsCover
<1>5. LaterOnesWait'
  BY <1>4 DEF LaterOnesWait
<1> QED BY <1>2, <1>3, <1>5

\* A tab that nothing holds has no navigation, and one that is held once has one at most.
LEMMA HoldsCount ==
  ASSUME HoldsCover, NEW t \in Tabs, NEW p \in Navigating(t)
  PROVE  /\ holds[t] # 0
         /\ holds[t] = 1 => Navigating(t) = {p}
         /\ IsFiniteSet(Navigating(t)) /\ Cardinality(Navigating(t)) \in Nat
         /\ Cardinality(Navigating(t) \ {p}) = Cardinality(Navigating(t)) - 1
<1>1. IsFiniteSet(Navigating(t))
  BY NavigationsAreFew
<1>2. /\ Cardinality(Navigating(t)) \in Nat
      /\ IsFiniteSet(Navigating(t) \ {p})
      /\ Cardinality(Navigating(t) \ {p}) = Cardinality(Navigating(t)) - 1
      /\ Cardinality(Navigating(t) \ {p}) \in Nat
  BY <1>1, FS_CardinalityType, FS_RemoveElement
<1>3. holds[t] \in Nat /\ Cardinality(Navigating(t)) <= holds[t]
  BY DEF HoldsCover
<1>4. ASSUME holds[t] = 1 PROVE Navigating(t) = {p}
  <2>1. Cardinality(Navigating(t) \ {p}) = 0
    BY <1>2, <1>3, <1>4
  <2>2. Navigating(t) \ {p} = {}
    BY <1>2, <2>1, FS_EmptySet
  <2> QED BY <2>2
<1> QED BY <1>1, <1>2, <1>3, <1>4

\* What is told to the page now, besides what it was told, is no request to navigate.
NothingAsked ==
  /\ down' \in [Tab!Ports -> Seq(DownMessages)]
  /\ \A s \in Tab!Ports : \A i \in 1..Len(down'[s]) : down'[s][i].kind = "goto" =>
       \E j \in 1..Len(down[s]) : down[s][j] = down'[s][i]

\* Control messages and closings are no requests to navigate.
LEMMA TellingAsksNothing ==
  ASSUME MessagesInv
  PROVE  /\ UNCHANGED down => NothingAsked
         /\ \A s \in Tab!Ports, msgs \in Seq(DownMessages) :
              (Tab!Tell(s, msgs) /\ \A i \in 1..Len(msgs) : msgs[i].kind # "goto")
                => NothingAsked
<1>1. down \in [Tab!Ports -> Seq(DownMessages)]
  BY DEF MessagesInv, AsksItsOwn
<1>2. UNCHANGED down => NothingAsked
  BY <1>1 DEF NothingAsked
<1>3. ASSUME NEW s \in Tab!Ports, NEW msgs \in Seq(DownMessages), Tab!Tell(s, msgs),
             \A i \in 1..Len(msgs) : msgs[i].kind # "goto"
      PROVE  NothingAsked
  <2>1. /\ down' = [down EXCEPT ![s] = down[s] \o msgs] /\ down[s] \in Seq(DownMessages)
        /\ down[s] \o msgs \in Seq(DownMessages)
    BY <1>1, <1>3 DEF Tab!Tell
  <2>2. down' \in [Tab!Ports -> Seq(DownMessages)]
    BY <1>1, <2>1
  <2>3. ASSUME NEW i \in 1..Len(down[s] \o msgs), (down[s] \o msgs)[i].kind = "goto"
        PROVE  \E j \in 1..Len(down[s]) : down[s][j] = (down[s] \o msgs)[i]
    <3>1. /\ Len(down[s]) \in Nat /\ Len(msgs) \in Nat
          /\ Len(down[s] \o msgs) = Len(down[s]) + Len(msgs)
          /\ (down[s] \o msgs)[i] = IF i <= Len(down[s]) THEN down[s][i]
                                    ELSE msgs[i - Len(down[s])]
      BY <2>1
    <3>2. i <= Len(down[s])
      BY <1>3, <2>3, <3>1
    <3> QED BY <3>1, <3>2
  <2>4. \A u \in Tab!Ports : down'[u] = IF u = s THEN down[s] \o msgs ELSE down[u]
    BY <1>1, <2>1
  <2>5. \A u \in Tab!Ports : \A i \in 1..Len(down'[u]) : down'[u][i].kind = "goto" =>
          \E j \in 1..Len(down[u]) : down[u][j] = down'[u][i]
    BY <2>3, <2>4
  <2> QED BY <2>2, <2>5 DEF NothingAsked
<1> QED BY <1>2, <1>3

\* What is told of sockets that are closed is that, and where their providers are.
LEMMA ClosingsAreTold ==
  ASSUME NEW s
  PROVE  /\ Tab!Closings(s) \in Seq(DownMessages)
         /\ \A i \in 1..Len(Tab!Closings(s)) : Tab!Closings(s)[i].kind # "goto"
<1>1. PICK which : which = {p \in Tab!Of(s) : entry[p].listed /\ ~entry[p].held}
  OBVIOUS
<1>2. which \subseteq Tab!Providers /\ IsFiniteSet(Tab!Providers)
  BY <1>1, PortNumbers, FS_Interval DEF Tab!Of
<1>3. IsFiniteSet(which) /\ Cardinality(which) \in Nat
  BY <1>2, FS_Subset, FS_CardinalityType
<1>4. PICK f : f \in Bijection(1..Cardinality(which), which)
  BY <1>3, FS_CardinalityType DEF ExistsBijection
<1>5. \E g \in [1..Cardinality(which) -> which] : Tab!IsInjective(g)
  BY <1>4 DEF Bijection, Injection, IsInjective, Tab!IsInjective
<1>6. PICK order : order = Tab!SetToSeq(which)
  OBVIOUS
<1>7. order \in [1..Cardinality(which) -> which]
  BY <1>5, <1>6 DEF Tab!SetToSeq, Tab!Cardinality, Cardinality
<1>8. Tab!Closings(s) = [i \in 1..Cardinality(which) |-> [kind |-> "close", p |-> order[i]]]
  BY <1>1, <1>6, <1>7 DEF Tab!Closings
<1>9. \A i \in 1..Cardinality(which) : [kind |-> "close", p |-> order[i]] \in DownMessages
  <2>1. \A q \in which : q \in Nat
    BY <1>2, PortNumbers
  <2>2. \A i \in 1..Cardinality(which) : order[i] \in which
    BY <1>7
  <2>3. \A i \in 1..Cardinality(which) : order[i] \in Nat
    BY <2>1, <2>2
  <2> QED BY <2>3 DEF DownMessages
<1>10. [i \in 1..Cardinality(which) |-> [kind |-> "close", p |-> order[i]]] \in Seq(DownMessages)
  BY <1>3, <1>9
<1> QED BY <1>3, <1>8, <1>10

\* What the code's functions on one entry do to its place and its dials.
LEMMA EntryDials ==
  ASSUME NEW e, IsEntry(e)
  PROVE  /\ \A hold : /\ Tab!ConnectSocket(e, hold).listed = e.listed
                      /\ \/ Tab!ConnectSocket(e, hold).dials = e.dials
                         \/ hold = 0 /\ e.listed
         /\ ~Tab!CloseSocket(e).listed /\ Tab!CloseSocket(e).dials = e.dials
         /\ Tab!SendToSocket(e).listed = e.listed /\ Tab!SendToSocket(e).dials = e.dials
<1>1. ASSUME NEW hold
      PROVE  /\ Tab!ConnectSocket(e, hold).listed = e.listed
             /\ Tab!ConnectSocket(e, hold).dials = e.dials \/ (hold = 0 /\ e.listed)
  BY DEF Tab!ConnectSocket, IsEntry
<1>2. ~Tab!CloseSocket(e).listed /\ Tab!CloseSocket(e).dials = e.dials
  <2>1. CASE e.listed
    BY <2>1 DEF Tab!CloseSocket, IsEntry
  <2>2. CASE ~e.listed
    BY <2>2 DEF Tab!CloseSocket
  <2> QED BY <2>1, <2>2
<1>3. Tab!SendToSocket(e).listed = e.listed /\ Tab!SendToSocket(e).dials = e.dials
  BY DEF Tab!SendToSocket, IsEntry
<1> QED BY <1>1, <1>2, <1>3

\* Steps of the worker that begin and end no hold, and list nothing.
LEMMA WorkerHolds ==
  ASSUME TabInv, HoldInv, NothingAsked, handlers' \subseteq handlers,
         UNCHANGED <<page, tab, transport, up, owner, holds>>,
         \A t \in Tabs : current'[t] \in {0, current[t]},
         \A s \in Tab!Ports : page[s] = "live" => current'[tab[s]] = current[tab[s]],
         DOMAIN nav' = Tab!Providers,
         \A p \in Tab!Providers : nav'[p] = "none" <=> nav[p] = "none",
         \A p \in Tab!Providers :
           /\ entry'[p].listed => entry[p].listed /\ (current[tab[owner[p]]] = owner[p] =>
                                                        current'[tab[owner[p]]] = owner[p])
           /\ \/ entry'[p].dials = entry[p].dials \/ entry[p].dials # 0
              \/ entry[p].listed /\ holds[tab[owner[p]]] = 0
  PROVE  HoldInv'
<1>1. PagesInv'
  BY PagesKept DEF HoldInv
<1>2. MessagesInv'
  BY MessagesKept DEF HoldInv, NothingAsked
<1>3. \A p \in Tab!Providers :
        /\ owner[p] # 0 => tab[owner[p]] \in Tabs
        /\ entry[p].listed => owner[p] # 0
        /\ owner[p] = 0 => entry[p].dials = 0 /\ nav[p] = "none"
  BY DEF TabInv, PathsLead, HoldInv, PagesInv, WaitsInv, UnusedAreIdle
<1>4. WaitsInv'
  <2>1. \A p \in Tab!Providers :
          \/ entry'[p].dials = entry[p].dials \/ entry[p].dials # 0
          \/ owner[p] # 0 /\ tab[owner[p]] \in Tabs /\ holds[tab[owner[p]]] = 0
    BY <1>3
  <2>2. \A p \in Tab!Providers : owner'[p] = 0 => entry'[p].dials = 0 /\ owner[p] = 0
    BY <1>3
  <2>3. \A p \in Tab!Providers : owner'[p] = owner[p] /\ tab'[owner[p]] = tab[owner[p]]
    OBVIOUS
  <2> QED BY <2>1, <2>2, <2>3, WaitsKept DEF HoldInv
<1> QED BY <1>1, <1>2, <1>4 DEF HoldInv

\* The steps of a socket, and of a navigation whose socket is about to close.
LEMMA SocketsHold ==
  ASSUME TabInv, HoldInv, NEW p \in Tab!Providers
  PROVE  /\ Tab!SocketStep(p) => HoldInv'
         /\ Tab!SettleTimeout(p) => HoldInv'
         /\ Tab!Release(p) /\ ~entry[p].listed => HoldInv'
<1> USE DEF Tab!storage, Tab!pages
<1>0. /\ DOMAIN entry = Tab!Providers /\ IsEntry(entry[p]) /\ DOMAIN nav = Tab!Providers
      /\ UNCHANGED down => NothingAsked
  BY TellingAsksNothing DEF TabInv, EntriesSound, SocketKnown, HoldInv, WaitsInv, HoldsCover
<1>1. ASSUME NEW e, entry' = [entry EXCEPT ![p] = e], e.listed = entry[p].listed,
             \/ e.dials = entry[p].dials \/ entry[p].dials # 0
             \/ entry[p].listed /\ holds[tab[owner[p]]] = 0,
             DOMAIN nav' = Tab!Providers,
             \A q \in Tab!Providers : nav'[q] = "none" <=> nav[q] = "none",
             UNCHANGED <<page, tab, transport, current, up, down, owner, holds, handlers>>
      PROVE  HoldInv'
  <2>1. \A q \in Tab!Providers : entry'[q] = IF q = p THEN e ELSE entry[q]
    BY <1>0, <1>1
  <2>2. \A q \in Tab!Providers :
          /\ entry'[q].listed => entry[q].listed
          /\ \/ entry'[q].dials = entry[q].dials \/ entry[q].dials # 0
             \/ entry[q].listed /\ holds[tab[owner[q]]] = 0
    BY <1>1, <2>1
  <2>3. handlers' \subseteq handlers /\ UNCHANGED current /\ NothingAsked
    BY <1>0, <1>1
  <2> QED BY <1>1, <2>2, <2>3, WorkerHolds
<1>2. ASSUME Tab!Dial(p) PROVE HoldInv'
  <2>1. PICK e : e = [entry[p] EXCEPT !.dials = @ - 1]
    OBVIOUS
  <2>2. PICK f : f = IF Tab!Redial(e) THEN [e EXCEPT !.ws = "connecting", !.live = @ + 1] ELSE e
    OBVIOUS
  <2>3. /\ entry' = [entry EXCEPT ![p] = f] /\ entry[p].dials > 0 /\ UNCHANGED nav
        /\ UNCHANGED <<page, tab, transport, current, up, down, owner, holds, handlers>>
    BY <1>2, <2>1, <2>2 DEF Tab!Dial
  <2>4. f.listed = entry[p].listed
    BY <1>0, <2>1, <2>2 DEF IsEntry
  <2>5. entry[p].dials # 0
    BY <2>3
  <2> QED BY <1>0, <1>1, <2>3, <2>4, <2>5
<1>3. ASSUME Tab!SocketOpens(p) PROVE HoldInv'
  <2>1. PICK f : f = [entry[p] EXCEPT !.ws = "open", !.queued = FALSE]
    OBVIOUS
  <2>2. /\ entry' = [entry EXCEPT ![p] = f] /\ UNCHANGED nav
        /\ UNCHANGED <<page, tab, transport, current, up, down, owner, holds, handlers>>
    BY <1>0, <1>3, <2>1 DEF Tab!SocketOpens
  <2>3. f.listed = entry[p].listed /\ f.dials = entry[p].dials
    BY <1>0, <2>1 DEF IsEntry
  <2> QED BY <1>0, <1>1, <2>2, <2>3
<1>4. ASSUME Tab!SocketCloses(p) PROVE HoldInv'
  <2>1. PICK f : f = [entry[p] EXCEPT !.ws = "none", !.live = @ - 1, !.queued = FALSE,
                        !.timer = @ \/ (entry[p].wanted /\ entry[p].listed)]
    OBVIOUS
  <2>2. /\ entry' = [entry EXCEPT ![p] = f]
        /\ nav' = [nav EXCEPT ![p] = IF @ = "waiting" THEN "settled" ELSE @]
        /\ UNCHANGED <<page, tab, transport, current, up, down, owner, holds, handlers>>
    BY <1>0, <1>4, <2>1 DEF Tab!SocketCloses
  <2>3. f.listed = entry[p].listed /\ f.dials = entry[p].dials
    BY <1>0, <2>1 DEF IsEntry
  <2>4. DOMAIN nav' = Tab!Providers
        /\ \A q \in Tab!Providers : nav'[q] = "none" <=> nav[q] = "none"
    BY <1>0, <2>2
  <2> QED BY <1>1, <2>2, <2>3, <2>4
<1>5. ASSUME Tab!Reconnect(p) PROVE HoldInv'
  <2>1. PICK e : e = [entry[p] EXCEPT !.timer = FALSE]
    OBVIOUS
  <2>2. PICK f : f = Tab!ConnectSocket(e, holds[tab[owner[p]]])
    OBVIOUS
  <2>3. /\ entry' = [entry EXCEPT ![p] = f] /\ UNCHANGED nav
        /\ UNCHANGED <<page, tab, transport, current, up, down, owner, holds, handlers>>
    BY <1>5, <2>1, <2>2 DEF Tab!Reconnect
  <2>4. IsEntry(e) /\ e.listed = entry[p].listed /\ e.dials = entry[p].dials
    BY <1>0, <2>1 DEF IsEntry
  <2>5. f.listed = e.listed /\ (f.dials = e.dials \/ (holds[tab[owner[p]]] = 0 /\ e.listed))
    BY <2>2, <2>4, EntryDials
  <2> QED BY <1>0, <1>1, <2>3, <2>4, <2>5
<1>6. ASSUME Tab!SettleTimeout(p) PROVE HoldInv'
  <2>1. /\ nav[p] = "waiting" /\ nav' = [nav EXCEPT ![p] = "settled"] /\ UNCHANGED entry
        /\ UNCHANGED <<page, tab, transport, current, up, down, owner, holds, handlers>>
    BY <1>6 DEF Tab!SettleTimeout
  <2>2. DOMAIN nav' = Tab!Providers
        /\ \A q \in Tab!Providers : nav'[q] = "none" <=> nav[q] = "none"
    BY <1>0, <2>1
  <2>3. NothingAsked /\ handlers' \subseteq handlers
    BY <1>0, <2>1
  <2> QED BY <2>1, <2>2, <2>3, WorkerHolds
<1>7. ASSUME Tab!Release(p), ~entry[p].listed PROVE HoldInv'
  <2>1. PICK f : f = [entry[p] EXCEPT !.held = FALSE, !.ws = IF @ = "none" THEN @ ELSE "closing"]
    OBVIOUS
  <2>2. /\ nav[p] = "running" /\ nav' = [nav EXCEPT ![p] = "waiting"]
        /\ entry' = [entry EXCEPT ![p] = f]
        /\ UNCHANGED <<page, tab, transport, current, up, down, owner, holds, handlers>>
    BY <1>0, <1>7, <2>1 DEF Tab!Release
  <2>3. f.listed = entry[p].listed /\ f.dials = entry[p].dials
    BY <1>0, <2>1 DEF IsEntry
  <2>4. DOMAIN nav' = Tab!Providers
        /\ \A q \in Tab!Providers : nav'[q] = "none" <=> nav[q] = "none"
    BY <1>0, <2>2
  <2> QED BY <1>1, <2>2, <2>3, <2>4
<1> QED BY <1>2, <1>3, <1>4, <1>5, <1>6, <1>7 DEF Tab!SocketStep

\* The last hold of a tab to go lets the page dial that the tab has then.
LEMMA LettingGoHolds ==
  ASSUME TabInv, HoldInv, NEW p \in Tab!Providers, nav[p] # "none", NEW entries,
         \A q \in Tab!Providers : IsEntry(entries[q]) /\ entries[q].listed = entry[q].listed
                                  /\ entries[q].dials = entry[q].dials,
         Tab!LetGo(p, entries),
         UNCHANGED <<page, tab, transport, current, up, down, owner, handlers>>
  PROVE  HoldInv'
<1>1. PICK t : t = tab[owner[p]]
  OBVIOUS
<1>2. /\ holds' = [holds EXCEPT ![t] = @ - 1] /\ nav' = [nav EXCEPT ![p] = "none"]
      /\ entry' = [q \in Tab!Providers |->
           IF holds[t] = 1 /\ q \in Tab!Of(current[t])
           THEN Tab!ConnectSocket(entries[q], 0) ELSE entries[q]]
  BY <1>1 DEF Tab!LetGo
<1>3. HoldsCover /\ UnusedAreIdle /\ LaterOnesWait
  BY DEF HoldInv, WaitsInv
<1>4. owner[p] # 0 /\ t \in Tabs /\ p \in Navigating(t)
  BY <1>1, <1>3 DEF UnusedAreIdle, TabInv, PathsLead, HoldInv, PagesInv, Navigating
<1>5. /\ holds[t] # 0 /\ (holds[t] = 1 => Navigating(t) = {p})
      /\ Cardinality(Navigating(t)) \in Nat
      /\ Cardinality(Navigating(t) \ {p}) = Cardinality(Navigating(t)) - 1
      /\ holds[t] \in Nat /\ Cardinality(Navigating(t)) <= holds[t]
  BY <1>3, <1>4, HoldsCount DEF HoldsCover
<1>6. \A q \in Tab!Providers : nav'[q] = IF q = p THEN "none" ELSE nav[q]
  BY <1>2, <1>3 DEF HoldsCover
<1>7. Navigating(t)' = Navigating(t) \ {p}
  BY <1>6 DEF Navigating
<1>8. \A u : u # t => Navigating(u)' = Navigating(u)
  BY <1>1, <1>6 DEF Navigating
<1>9. HoldsCover'
  <2>1. DOMAIN holds' = Tabs /\ DOMAIN nav' = Tab!Providers
    BY <1>2, <1>3 DEF HoldsCover
  <2>2. \A u \in Tabs : holds'[u] = IF u = t THEN holds[t] - 1 ELSE holds[u]
    BY <1>2, <1>3 DEF HoldsCover
  <2>3. holds'[t] \in Nat /\ Cardinality(Navigating(t)') <= holds'[t]
    BY <1>4, <1>5, <1>7, <2>2
  <2>4. \A u \in Tabs : u # t => holds'[u] \in Nat /\ Cardinality(Navigating(u)') <= holds'[u]
    BY <1>3, <1>8, <2>2 DEF HoldsCover
  <2> QED BY <2>1, <2>3, <2>4 DEF HoldsCover
<1>10. \A q \in Tab!Providers :
         /\ entry'[q].listed = entry[q].listed
         /\ \/ entry'[q].dials = entry[q].dials
            \/ holds[t] = 1 /\ entry[q].listed /\ owner[q] = current[t] /\ current[t] # 0
  BY <1>2, EntryDials DEF Tab!Of
<1>11. UnusedAreIdle'
  BY <1>3, <1>6, <1>10 DEF UnusedAreIdle
<1>12. ASSUME NEW r \in Tab!Providers, NEW q \in Tab!Providers, nav'[q] # "none",
              owner[q] \in 1..(owner[r] - 1), tab[owner[q]] = tab[owner[r]]
       PROVE  entry'[r].dials = 0
  <2>1. q # p /\ nav[q] # "none"
    BY <1>6, <1>12
  <2>2. entry[r].dials = 0
    BY <1>3, <1>12, <2>1 DEF LaterOnesWait
  <2>3. CASE entry'[r].dials = entry[r].dials
    BY <2>2, <2>3
  <2>4. CASE holds[t] = 1 /\ owner[r] = current[t] /\ current[t] # 0
    <3>1. tab[owner[r]] = t
      BY <1>4, <2>4 DEF TabInv, PathsLead
    <3>2. q \in Navigating(t)
      BY <1>12, <2>1, <3>1 DEF Navigating
    <3> QED BY <1>5, <2>1, <2>4, <3>2
  <2> QED BY <1>10, <2>3, <2>4
<1>13. LaterOnesWait'
  BY <1>12 DEF LaterOnesWait
<1>14. PagesInv'
  BY PagesKept DEF HoldInv
<1>15. MessagesInv'
  <2>1. NothingAsked /\ MessagesInv
    BY TellingAsksNothing DEF HoldInv
  <2>2. \A q \in Tab!Providers : entry'[q].listed =>
          entry[q].listed /\ (current[tab[owner[q]]] = owner[q] =>
                                current'[tab'[owner[q]]] = owner[q])
    BY <1>10
  <2> QED BY <2>1, <2>2, MessagesKept DEF NothingAsked
<1> QED BY <1>9, <1>11, <1>13, <1>14, <1>15 DEF HoldInv, WaitsInv

\* A navigation that is over.
LEMMA NavigationsHold ==
  ASSUME TabInv, HoldInv, NEW p \in Tab!Providers
  PROVE  Tab!NavStep(p) => HoldInv'
<1> USE DEF Tab!storage, Tab!pages
<1>0. DOMAIN entry = Tab!Providers /\ \A q \in Tab!Providers : IsEntry(entry[q])
  BY DEF TabInv, EntriesSound, SocketKnown
<1>1. ASSUME Tab!Release(p), entry[p].listed PROVE HoldInv'
  <2>1. PICK f : f = [entry[p] EXCEPT !.held = FALSE]
    OBVIOUS
  <2>2. IsEntry(f) /\ f.listed = entry[p].listed /\ f.dials = entry[p].dials
    BY <1>0, <2>1 DEF IsEntry
  <2>3. PICK entries : entries = [entry EXCEPT ![p] = f]
    OBVIOUS
  <2>4. [entry EXCEPT ![p].held = FALSE] = entries
    BY <1>0, <2>1, <2>3
  <2>5. /\ nav[p] # "none" /\ Tab!LetGo(p, entries)
        /\ UNCHANGED <<page, tab, transport, current, up, down, owner, handlers>>
    BY <1>1, <2>4 DEF Tab!Release
  <2>6. \A q \in Tab!Providers : IsEntry(entries[q]) /\ entries[q].listed = entry[q].listed
                                 /\ entries[q].dials = entry[q].dials
    BY <1>0, <2>2, <2>3
  <2> QED BY <2>5, <2>6, LettingGoHolds
<1>2. ASSUME Tab!Finish(p) PROVE HoldInv'
  <2>1. /\ nav[p] # "none" /\ Tab!LetGo(p, entry)
        /\ UNCHANGED <<page, tab, transport, current, up, down, owner, handlers>>
    BY <1>2 DEF Tab!Finish
  <2> QED BY <1>0, <2>1, LettingGoHolds
<1> QED BY <1>1, <1>2, SocketsHold DEF Tab!NavStep

\* Handlers that go on: who is announced may dial if nothing holds the tab, and a hold
\* begins only on the socket of the page that the tab has.
LEMMA HandlersHold ==
  ASSUME TabInv, HoldInv, NEW h \in handlers
  PROVE  Tab!HandlerStep(h) => HoldInv'
<1> USE DEF Tab!storage, Tab!pages
<1>0. /\ DOMAIN entry = Tab!Providers /\ \A q \in Tab!Providers : IsEntry(entry[q])
      /\ DOMAIN nav = Tab!Providers /\ MessagesInv /\ PagesInv /\ WaitsInv
  BY DEF TabInv, EntriesSound, SocketKnown, HoldInv, WaitsInv, HoldsCover
<1>1. h \in Waiting /\ handlers \subseteq Waiting
  BY <1>0 DEF MessagesInv, AsksItsOwn
<1>2. h.port \in Tab!Ports
  BY <1>1 DEF Waiting
<1>3. ASSUME Tab!NotEnabled(h) \/ Tab!Greeted(h) PROVE HoldInv'
  <2>1. NothingAsked
    <3>1. CASE Tab!NotEnabled(h)
      BY <1>0, <3>1, TellingAsksNothing DEF Tab!NotEnabled
    <3>2. CASE Tab!Greeted(h)
      <4>1. PICK msg : msg = [kind |-> "activate", p |-> 0]
        OBVIOUS
      <4>2. msg \in DownMessages /\ msg.kind # "goto"
        BY <4>1 DEF DownMessages
      <4>3. Tab!Tell(h.port, <<msg>>)
        BY <3>2, <4>1 DEF Tab!Greeted
      <4>4. <<msg>> \in Seq(DownMessages) /\ \A i \in 1..Len(<<msg>>) : <<msg>>[i].kind # "goto"
        BY <4>2
      <4> QED BY <1>0, <1>2, <4>3, <4>4, TellingAsksNothing
    <3> QED BY <1>3, <3>1, <3>2
  <2>2. /\ handlers' \subseteq handlers
        /\ UNCHANGED <<page, tab, transport, current, up, owner, holds, entry, nav>>
    BY <1>3 DEF Tab!NotEnabled, Tab!Greeted
  <2> QED BY <1>0, <2>1, <2>2, WorkerHolds
<1>4. ASSUME Tab!Hold(h) PROVE HoldInv'
  <2>1. CASE ~(entry[h.p].listed /\ entry[h.p].ws = "open")
    <3>1. /\ handlers' \subseteq handlers /\ UNCHANGED down
          /\ UNCHANGED <<page, tab, transport, current, up, owner, holds, entry, nav>>
      BY <1>4, <2>1 DEF Tab!Hold
    <3>2. NothingAsked
      BY <1>0, <3>1, TellingAsksNothing
    <3> QED BY <1>0, <3>1, <3>2, WorkerHolds
  <2>2. CASE entry[h.p].listed /\ entry[h.p].ws = "open"
    <3>1. PICK p : p = h.p
      OBVIOUS
    <3>2. PICK t : t = tab[h.port]
      OBVIOUS
    <3>3. /\ entry' = [entry EXCEPT ![p].held = TRUE] /\ holds' = [holds EXCEPT ![t] = @ + 1]
          /\ nav' = [nav EXCEPT ![p] = "running"] /\ handlers' = handlers \ {h}
          /\ UNCHANGED <<page, tab, transport, current, up, down, owner>>
      BY <1>4, <2>2, <3>1, <3>2 DEF Tab!Hold
    <3>4. h.kind = "navigate" /\ p \in Tab!Providers /\ owner[p] = h.port
      BY <1>0, <1>4, <3>1 DEF Tab!Hold, MessagesInv, AsksItsOwn
    <3>5. tab[owner[p]] = t /\ t \in Tabs /\ owner[p] # 0
      BY <1>0, <1>2, <3>2, <3>4, PortNumbers DEF TabInv, PathsLead, PagesInv
    <3>6. OnItsWay("navigate", p)
      BY <3>1, <3>4 DEF OnItsWay
    <3>7. current[t] = owner[p]
      BY <1>0, <2>2, <3>1, <3>4, <3>5, <3>6 DEF MessagesInv, AskedByTheLast
    <3>8. \A q \in Tab!Providers : /\ entry'[q].listed = entry[q].listed
                                   /\ entry'[q].dials = entry[q].dials
                                   /\ nav'[q] = IF q = p THEN "running" ELSE nav[q]
      BY <1>0, <3>3, <3>4 DEF IsEntry
    <3>9. HoldsCover'
      <4>1. /\ DOMAIN holds' = Tabs /\ DOMAIN nav' = Tab!Providers
            /\ \A u \in Tabs : holds[u] \in Nat /\ Cardinality(Navigating(u)) <= holds[u]
            /\ \A u \in Tabs : holds'[u] = IF u = t THEN holds[t] + 1 ELSE holds[u]
        BY <1>0, <3>3, <3>5 DEF WaitsInv, HoldsCover
      <4>2. \A u : u # t => Navigating(u)' = Navigating(u)
        BY <3>3, <3>5, <3>8 DEF Navigating
      <4>3. Navigating(t)' = Navigating(t) \cup {p}
        BY <3>3, <3>4, <3>5, <3>8 DEF Navigating
      <4>4. IsFiniteSet(Navigating(t))
        BY NavigationsAreFew
      <4>5. /\ Cardinality(Navigating(t)) \in Nat
            /\ Cardinality(Navigating(t) \cup {p}) <= Cardinality(Navigating(t)) + 1
            /\ Cardinality(Navigating(t) \cup {p}) \in Nat
        <5>1. Cardinality(Navigating(t)) \in Nat
          BY <4>4, FS_CardinalityType
        <5>2. CASE p \in Navigating(t)
          <6>1. Navigating(t) \cup {p} = Navigating(t)
            BY <5>2
          <6>2. PICK n : n = Cardinality(Navigating(t))
            OBVIOUS
          <6>3. n \in Nat /\ Cardinality(Navigating(t) \cup {p}) = n
            BY <5>1, <6>1, <6>2
          <6>4. n <= n + 1
            BY <6>3
          <6> QED BY <6>2, <6>3, <6>4
        <5>3. CASE p \notin Navigating(t)
          <6>1. Cardinality(Navigating(t) \cup {p}) = Cardinality(Navigating(t)) + 1
            BY <4>4, <5>3, FS_AddElement
          <6> QED BY <5>1, <6>1
        <5> QED BY <5>2, <5>3
      <4>6. holds'[t] \in Nat /\ Cardinality(Navigating(t)') <= holds'[t]
        BY <3>5, <4>1, <4>3, <4>5
      <4> QED BY <4>1, <4>2, <4>6 DEF HoldsCover
    <3>10. UnusedAreIdle'
      BY <1>0, <3>3, <3>5, <3>8 DEF WaitsInv, UnusedAreIdle
    <3>11. ASSUME NEW r \in Tab!Providers, NEW q \in Tab!Providers, nav'[q] # "none",
                  owner[q] \in 1..(owner[r] - 1), tab[owner[q]] = tab[owner[r]]
           PROVE  entry'[r].dials = 0
      <4>1. CASE q # p
        BY <1>0, <3>8, <3>11, <4>1 DEF WaitsInv, LaterOnesWait
      <4>2. CASE q = p
        <5>1. CASE owner[r] = 0
          BY <1>0, <3>8, <5>1 DEF WaitsInv, UnusedAreIdle
        <5>2. CASE owner[r] # 0
          <6>1. owner[r] \in Tab!Ports /\ page[owner[r]] # "none" /\ tab[owner[r]] = t
            BY <3>5, <3>11, <4>2, <5>2 DEF TabInv, PathsLead
          <6>2. owner[r] <= owner[p] /\ owner[p] \in Nat /\ owner[r] \in Nat
            BY <1>0, <1>2, <3>4, <3>5, <3>7, <6>1, PortNumbers DEF PagesInv
          <6> QED BY <3>11, <4>2, <6>2
        <5> QED BY <5>1, <5>2
      <4> QED BY <4>1, <4>2
    <3>12. LaterOnesWait'
      BY <3>3, <3>11 DEF LaterOnesWait
    <3>13. PagesInv'
      BY <1>0, <3>3, PagesKept
    <3>14. MessagesInv'
      <4>1. NothingAsked
        BY <1>0, <3>3, TellingAsksNothing
      <4>2. handlers' \subseteq handlers
        BY <3>3
      <4> QED BY <1>0, <3>3, <3>8, <4>1, <4>2, MessagesKept DEF NothingAsked
    <3> QED BY <3>9, <3>10, <3>12, <3>13, <3>14 DEF HoldInv, WaitsInv
  <2> QED BY <2>1, <2>2
<1>5. ASSUME Tab!Opened(h) PROVE HoldInv'
  <2>1. /\ h.kind = "open" /\ handlers' = handlers \ {h}
        /\ UNCHANGED <<page, tab, transport, current, up, down, owner, holds, nav>>
    BY <1>5 DEF Tab!Opened
  <2>2. PICK p : p = h.p
    OBVIOUS
  <2>3. p \in Tab!Providers /\ owner[p] = h.port
    BY <2>1, <2>2 DEF TabInv, OwnAnnouncements, Announces
  <2>4. OnItsWay("open", p)
    BY <2>1, <2>2 DEF OnItsWay
  <2>5. ~OnItsWay("navigate", p) /\ ~Requested(p)
    BY <1>0, <2>3, <2>4 DEF MessagesInv, OpensFirst
  <2>6. PICK e : e = [entry[p] EXCEPT !.listed = TRUE, !.wanted = TRUE]
    OBVIOUS
  <2>7. IsEntry(e) /\ e.listed /\ e.dials = entry[p].dials
    BY <1>0, <2>3, <2>6 DEF IsEntry
  <2>8. UNCHANGED entry \/ entry' = [entry EXCEPT ![p] = Tab!ConnectSocket(e, holds[tab[h.port]])]
    BY <1>5, <2>2, <2>6 DEF Tab!Opened
  <2>9. \A q \in Tab!Providers :
          /\ q # p => entry'[q].listed = entry[q].listed
          /\ \/ entry'[q].dials = entry[q].dials
             \/ q = p /\ holds[tab[owner[p]]] = 0
    BY <1>0, <2>3, <2>7, <2>8, EntryDials
  <2>10. owner[p] # 0 /\ tab[owner[p]] \in Tabs
    BY <1>0, <1>2, <2>3, PortNumbers DEF TabInv, PathsLead, PagesInv
  <2>11. WaitsInv'
    <3>1. \A q \in Tab!Providers : owner'[q] = 0 => entry'[q].dials = 0 /\ owner[q] = 0
      BY <1>0, <2>1, <2>9, <2>10 DEF WaitsInv, UnusedAreIdle
    <3>2. \A q \in Tab!Providers :
            \/ entry'[q].dials = entry[q].dials \/ entry[q].dials # 0
            \/ owner[q] # 0 /\ tab[owner[q]] \in Tabs /\ holds[tab[owner[q]]] = 0
      BY <2>9, <2>10
    <3>3. \A q \in Tab!Providers : owner'[q] = owner[q] /\ tab'[owner[q]] = tab[owner[q]]
      BY <2>1
    <3> QED BY <1>0, <2>1, <3>1, <3>2, <3>3, WaitsKept
  <2>12. PagesInv'
    BY <1>0, <2>1, PagesKept
  <2>13. AsksItsOwn' /\ OpensOnce'
    BY <1>0, <2>1 DEF MessagesInv, AsksItsOwn, OpensOnce
  <2>14. /\ \A q, kind : OnItsWay(kind, q)' => OnItsWay(kind, q)
         /\ \A q : Requested(q)' => Requested(q)
    BY <2>1 DEF OnItsWay, Requested
  <2>15. ~OnItsWay("open", p)'
    <3>1. ASSUME NEW g \in handlers', g.kind = "open", g.p = p PROVE FALSE
      <4>1. g \in Waiting /\ g.port = h.port
        BY <1>1, <2>1, <2>3, <3>1 DEF TabInv, OwnAnnouncements, Announces
      <4>2. g = h
        BY <1>1, <2>1, <2>2, <3>1, <4>1 DEF Waiting
      <4> QED BY <2>1, <3>1, <4>2
    <3>2. \A s \in Tab!Ports : \A i \in 1..Len(up[s]) : up[s][i].kind = "open" => up[s][i].p # p
      BY <1>0, <2>1, <2>2 DEF MessagesInv, OpensOnce
    <3> QED BY <2>1, <3>1, <3>2 DEF OnItsWay
  <2>16. OpensFirst'
    <3> SUFFICES ASSUME NEW q \in Tab!Providers, OnItsWay("open", q)'
                 PROVE  ~entry'[q].listed /\ ~OnItsWay("navigate", q)' /\ ~Requested(q)'
      BY DEF OpensFirst
    <3>1. q # p /\ OnItsWay("open", q)
      BY <2>14, <2>15
    <3> QED BY <1>0, <2>9, <2>14, <3>1 DEF MessagesInv, OpensFirst
  <2>17. AskedByTheLast'
    <3> SUFFICES ASSUME NEW q \in Tab!Providers, OnItsWay("navigate", q)', entry'[q].listed
                 PROVE  current'[tab'[owner'[q]]] = owner'[q]
      BY DEF AskedByTheLast
    <3>1. q # p /\ OnItsWay("navigate", q)
      BY <2>5, <2>14
    <3> QED BY <1>0, <2>1, <2>9, <3>1 DEF MessagesInv, AskedByTheLast
  <2> QED BY <2>11, <2>12, <2>13, <2>16, <2>17 DEF HoldInv, MessagesInv
<1> QED BY <1>3, <1>4, <1>5 DEF Tab!HandlerStep

\* Where no more is announced, asked or listed than was, and no tab loses its page.
LEMMA MessagesGo ==
  ASSUME MessagesInv, UNCHANGED <<tab, owner, current>>, AsksItsOwn', OpensOnce',
         \A q : \A kind \in {"open", "navigate"} : OnItsWay(kind, q)' => OnItsWay(kind, q),
         \A q : Requested(q)' => Requested(q),
         \A q \in Tab!Providers : entry'[q].listed => entry[q].listed
  PROVE  MessagesInv'
<1>1. OpensFirst'
  BY DEF MessagesInv, OpensFirst
<1>2. AskedByTheLast'
  BY DEF MessagesInv, AskedByTheLast
<1> QED BY <1>1, <1>2 DEF MessagesInv

\* Where a sequence loses its first, the others stay in their order.
LEMMA FirstTaken ==
  ASSUME NEW S, NEW queue \in Seq(S), queue # <<>>
  PROVE  /\ Len(queue) \in Nat /\ 1 \in 1..Len(queue) /\ Head(queue) = queue[1]
         /\ \A i \in 1..Len(Tail(queue)) :
              i + 1 \in 1..Len(queue) /\ Tail(queue)[i] = queue[i + 1] /\ i + 1 # 1
<1>1. /\ Len(queue) \in Nat /\ Len(queue) # 0 /\ Head(queue) = queue[1]
      /\ Len(Tail(queue)) = Len(queue) - 1
  OBVIOUS
<1>2. ASSUME NEW i \in 1..Len(Tail(queue))
      PROVE  i + 1 \in 1..Len(queue) /\ Tail(queue)[i] = queue[i + 1] /\ i + 1 # 1
  BY <1>1
<1> QED BY <1>1, <1>2

\* handleUp takes the first message and may wait with it.
LEMMA HandleUpHolds ==
  ASSUME TabInv, HoldInv, NEW s \in Tab!Ports, Tab!HandleUp(s)
  PROVE  HoldInv'
<1>0. /\ MessagesInv /\ PagesInv /\ WaitsInv /\ up[s] \in Seq(UpMessages) /\ up[s] # <<>>
      /\ DOMAIN entry = Tab!Providers /\ \A q \in Tab!Providers : IsEntry(entry[q])
      /\ DOMAIN up = Tab!Ports
  BY DEF HoldInv, TabInv, PortsTyped, EntriesSound, SocketKnown, Tab!HandleUp
<1>1. PICK msg : msg = Head(up[s])
  OBVIOUS
<1>2. /\ up' = [up EXCEPT ![s] = Tail(@)]
      /\ UNCHANGED <<page, tab, transport, current, owner, holds, nav>>
  BY DEF Tab!HandleUp, Tab!storage, Tab!pages
<1>3. /\ Len(up[s]) \in Nat /\ 1 \in 1..Len(up[s]) /\ msg = up[s][1]
      /\ \A i \in 1..Len(Tail(up[s])) :
           i + 1 \in 1..Len(up[s]) /\ Tail(up[s])[i] = up[s][i + 1] /\ i + 1 # 1
  BY <1>0, <1>1, FirstTaken
<1>4. msg \in UpMessages
  BY <1>0, <1>3
<1>5. \A r \in Tab!Ports : up'[r] = IF r = s THEN Tail(up[s]) ELSE up[r]
  BY <1>0, <1>2
<1>6. \A r \in Tab!Ports : \A i \in 1..Len(up'[r]) : \E j \in 1..Len(up[r]) :
        up'[r][i] = up[r][j] /\ (r = s => j = i + 1 /\ j # 1) /\ (r # s => j = i)
  <2>1. ASSUME NEW r \in Tab!Ports, NEW i \in 1..Len(up'[r])
        PROVE  \E j \in 1..Len(up[r]) :
                 up'[r][i] = up[r][j] /\ (r = s => j = i + 1 /\ j # 1) /\ (r # s => j = i)
    <3>1. CASE r = s
      BY <1>3, <1>5, <2>1, <3>1
    <3>2. CASE r # s
      BY <1>5, <2>1, <3>2
    <3> QED BY <3>1, <3>2
  <2> QED BY <2>1
<1>7. \A r \in Tab!Ports : \A i, j \in 1..Len(up'[r]) :
        up'[r][i].kind = "open" /\ up'[r][j].kind = "open" /\ up'[r][i].p = up'[r][j].p => i = j
  <2> SUFFICES ASSUME NEW r \in Tab!Ports, NEW i \in 1..Len(up'[r]), NEW j \in 1..Len(up'[r]),
                      up'[r][i].kind = "open", up'[r][j].kind = "open",
                      up'[r][i].p = up'[r][j].p
               PROVE  i = j
    OBVIOUS
  <2>1. PICK k \in 1..Len(up[r]) :
          up'[r][i] = up[r][k] /\ (r = s => k = i + 1) /\ (r # s => k = i)
    BY <1>6
  <2>2. PICK l \in 1..Len(up[r]) :
          up'[r][j] = up[r][l] /\ (r = s => l = j + 1) /\ (r # s => l = j)
    BY <1>6
  <2>3. k = l
    BY <1>0, <2>1, <2>2 DEF MessagesInv, OpensOnce
  <2> QED BY <2>1, <2>2, <2>3
<1>8. ASSUME UNCHANGED handlers, down' \in [Tab!Ports -> Seq(DownMessages)], NothingAsked,
             \A q \in Tab!Providers : (entry'[q].listed => entry[q].listed)
                                      /\ entry'[q].dials = entry[q].dials
      PROVE  HoldInv'
  <2>1. AsksItsOwn'
    <3>1. \A r \in Tab!Ports : \A i \in 1..Len(down'[r]) : down'[r][i].kind = "goto" =>
            down'[r][i].p \in Tab!Providers /\ owner[down'[r][i].p] = r
      BY <1>0, <1>8 DEF NothingAsked, MessagesInv, AsksItsOwn
    <3>2. \A r \in Tab!Ports : \A i \in 1..Len(up'[r]) : up'[r][i].kind = "navigate" =>
            up'[r][i].p \in Tab!Providers /\ owner[up'[r][i].p] = r
      BY <1>0, <1>6 DEF MessagesInv, AsksItsOwn
    <3> QED BY <1>0, <1>2, <1>8, <3>1, <3>2 DEF MessagesInv, AsksItsOwn
  <2>2. OpensOnce'
    <3>1. \A r \in Tab!Ports : \A i \in 1..Len(up'[r]) : \A h \in handlers :
            up'[r][i].kind = "open" /\ h.kind = "open" => h.p # up'[r][i].p
      BY <1>0, <1>6 DEF MessagesInv, OpensOnce
    <3> QED BY <1>7, <1>8, <3>1 DEF OpensOnce
  <2>3. \A q : \A kind \in {"open", "navigate"} : OnItsWay(kind, q)' => OnItsWay(kind, q)
    BY <1>6, <1>8 DEF OnItsWay
  <2>4. \A q : Requested(q)' => Requested(q)
    BY <1>8 DEF Requested, NothingAsked
  <2>5. MessagesInv'
    BY <1>0, <1>2, <1>8, <2>1, <2>2, <2>3, <2>4, MessagesGo
  <2>6. PagesInv'
    BY <1>0, <1>2, PagesKept
  <2>7. WaitsInv'
    <3>1. \A p \in Tab!Providers :
            /\ owner'[p] = 0 => entry'[p].dials = 0 /\ owner[p] = 0
            /\ entry'[p].dials = entry[p].dials
            /\ owner'[p] = owner[p] /\ tab'[owner[p]] = tab[owner[p]]
            /\ nav'[p] = nav[p]
      BY <1>0, <1>2, <1>8 DEF WaitsInv, UnusedAreIdle
    <3>2. DOMAIN nav' = Tab!Providers /\ UNCHANGED holds
      BY <1>0, <1>2 DEF WaitsInv, HoldsCover
    <3> QED BY <1>0, <3>1, <3>2, WaitsKept
  <2> QED BY <2>5, <2>6, <2>7 DEF HoldInv
<1>9. CASE msg.kind \in {"hello", "open", "navigate"}
  <2>1. UNCHANGED <<entry, down>>
        /\ handlers' = handlers \cup {[port |-> s, kind |-> msg.kind, p |-> msg.p]}
    BY <1>1, <1>9 DEF Tab!HandleUp
  <2>2. PICK h : h = [port |-> s, kind |-> msg.kind, p |-> msg.p]
    OBVIOUS
  <2>3. h \in Waiting /\ h.port = s /\ h.kind = msg.kind /\ h.p = msg.p
        /\ handlers' = handlers \cup {h}
    BY <1>4, <1>9, <2>1, <2>2 DEF Waiting, UpMessages
  <2>4. AsksItsOwn'
    <3>1. \A r \in Tab!Ports : \A i \in 1..Len(up'[r]) : up'[r][i].kind = "navigate" =>
            up'[r][i].p \in Tab!Providers /\ owner[up'[r][i].p] = r
      BY <1>0, <1>6 DEF MessagesInv, AsksItsOwn
    <3>2. h.kind = "navigate" => h.p \in Tab!Providers /\ owner[h.p] = h.port
      <4>1. AsksItsOwn
        BY <1>0 DEF MessagesInv
      <4>2. up[s][1].kind = "navigate" =>
              up[s][1].p \in Tab!Providers /\ owner[up[s][1].p] = s
        BY <1>3, <4>1 DEF AsksItsOwn
      <4>3. msg.kind = "navigate" => msg.p \in Tab!Providers /\ owner[msg.p] = s
        BY <1>3, <4>2
      <4> QED BY <2>3, <4>3
    <3>3. handlers' \subseteq Waiting
          /\ \A g \in handlers' : g.kind = "navigate" =>
               g.p \in Tab!Providers /\ owner[g.p] = g.port
      BY <1>0, <2>3, <3>2 DEF MessagesInv, AsksItsOwn
    <3> QED BY <1>0, <1>2, <2>1, <3>1, <3>3 DEF MessagesInv, AsksItsOwn
  <2>5. OpensOnce'
    <3>1. ASSUME NEW r \in Tab!Ports, NEW i \in 1..Len(up'[r]), NEW g \in handlers',
                 up'[r][i].kind = "open", g.kind = "open", g.p = up'[r][i].p
          PROVE  FALSE
      <4>1. PICK j \in 1..Len(up[r]) : up'[r][i] = up[r][j] /\ (r = s => j # 1)
        BY <1>6, <3>1
      <4>2. CASE g \in handlers
        BY <1>0, <3>1, <4>1, <4>2 DEF MessagesInv, OpensOnce
      <4>3. CASE g = h
        <5>1. Announces(owner, up[r][j], r) /\ Announces(owner, up[s][1], s)
          BY <1>3, <4>1 DEF TabInv, OwnAnnouncements
        <5>2. r = s
          BY <1>3, <2>3, <3>1, <4>1, <4>3, <5>1 DEF Announces
        <5>3. up[s][j].kind = "open" /\ up[s][1].kind = "open" /\ up[s][j].p = up[s][1].p
          BY <1>3, <2>3, <3>1, <4>1, <4>3, <5>2
        <5> QED BY <1>0, <1>3, <4>1, <5>2, <5>3 DEF MessagesInv, OpensOnce
      <4> QED BY <2>3, <4>2, <4>3
    <3> QED BY <1>7, <3>1 DEF OpensOnce
  <2>6. \A q : \A kind \in {"open", "navigate"} : OnItsWay(kind, q)' => OnItsWay(kind, q)
    <3>1. ASSUME NEW q, NEW kind \in {"open", "navigate"}, OnItsWay(kind, q)'
          PROVE  OnItsWay(kind, q)
      <4>1. CASE \E r \in Tab!Ports : \E i \in 1..Len(up'[r]) :
                   up'[r][i].kind = kind /\ up'[r][i].p = q
        BY <1>6, <4>1 DEF OnItsWay
      <4>2. CASE \E g \in handlers' : g.kind = kind /\ g.p = q
        <5>1. PICK g \in handlers' : g.kind = kind /\ g.p = q
          BY <4>2
        <5>2. CASE g \in handlers
          BY <5>1, <5>2 DEF OnItsWay
        <5>3. CASE g = h
          BY <1>3, <2>3, <5>1, <5>3 DEF OnItsWay
        <5> QED BY <2>3, <5>2, <5>3
      <4> QED BY <3>1, <4>1, <4>2 DEF OnItsWay
    <3> QED BY <3>1
  <2>7. \A q : Requested(q)' => Requested(q)
    BY <2>1 DEF Requested
  <2>8. MessagesInv'
    BY <1>0, <1>2, <2>1, <2>4, <2>5, <2>6, <2>7, MessagesGo
  <2>9. PagesInv'
    BY <1>0, <1>2, PagesKept
  <2>10. WaitsInv'
    <3>1. \A p \in Tab!Providers :
            /\ owner'[p] = 0 => entry'[p].dials = 0 /\ owner[p] = 0
            /\ entry'[p].dials = entry[p].dials
            /\ owner'[p] = owner[p] /\ tab'[owner[p]] = tab[owner[p]]
            /\ nav'[p] = nav[p]
      BY <1>0, <1>2, <2>1 DEF WaitsInv, UnusedAreIdle
    <3>2. DOMAIN nav' = Tab!Providers /\ UNCHANGED holds
      BY <1>0, <1>2 DEF WaitsInv, HoldsCover
    <3> QED BY <1>0, <3>1, <3>2, WaitsKept
  <2> QED BY <2>8, <2>9, <2>10 DEF HoldInv
<1>10. CASE msg.kind \in {"rpc", "close"}
  <2>1. PICK p : p = msg.p
    OBVIOUS
  <2>2. /\ UNCHANGED handlers
        /\ \/ UNCHANGED entry \/ entry' = [entry EXCEPT ![p] = Tab!SendToSocket(@)]
           \/ entry' = [entry EXCEPT ![p] = Tab!CloseSocket(@)]
        /\ UNCHANGED down \/ Tab!Tell(s, <<[kind |-> "close", p |-> p]>>)
    BY <1>1, <1>10, <2>1 DEF Tab!HandleUp
  <2>3. PICK word : word = [kind |-> "close", p |-> p]
    OBVIOUS
  <2>4. word \in DownMessages /\ word.kind # "goto"
    BY <1>4, <2>1, <2>3 DEF UpMessages, DownMessages
  <2>5. <<word>> \in Seq(DownMessages) /\ \A i \in 1..Len(<<word>>) : <<word>>[i].kind # "goto"
    BY <2>4
  <2>6. NothingAsked
    BY <1>0, <2>2, <2>3, <2>5, TellingAsksNothing
  <2>7. \A q \in Tab!Providers :
          entry'[q] \in {entry[q], Tab!SendToSocket(entry[q]), Tab!CloseSocket(entry[q])}
    BY <1>0, <2>2
  <2>8. \A q \in Tab!Providers : (entry'[q].listed => entry[q].listed)
                                 /\ entry'[q].dials = entry[q].dials
    BY <1>0, <2>7, EntryDials
  <2> QED BY <1>8, <2>2, <2>6, <2>8 DEF NothingAsked
<1> QED BY <1>4, <1>9, <1>10 DEF UpMessages

\* A page works off a message: a transport it starts takes a number that nobody has
\* used, and it asks only for navigations that it was asked for.
LEMMA PageHandlesHolds ==
  ASSUME TabInv, HoldInv, NEW s \in Tab!Ports, Tab!PageHandles(s)
  PROVE  HoldInv'
<1>0. /\ MessagesInv /\ PagesInv /\ WaitsInv /\ up[s] \in Seq(UpMessages)
      /\ DOMAIN up = Tab!Ports /\ DOMAIN owner = Tab!Providers /\ DOMAIN nav = Tab!Providers
      /\ down \in [Tab!Ports -> Seq(DownMessages)] /\ down[s] # <<>>
      /\ transport \in [Tab!Ports -> Nat] /\ s # 0
      /\ page[s] = "live" /\ current[tab[s]] = s
  <2>1. MessagesInv /\ PagesInv /\ WaitsInv /\ PortsTyped
    BY DEF HoldInv, TabInv
  <2>2. /\ up \in [Tab!Ports -> Seq(UpMessages)] /\ DOMAIN owner = Tab!Providers
        /\ transport \in [Tab!Ports -> Nat]
    BY <2>1 DEF PortsTyped
  <2>3. DOMAIN nav = Tab!Providers /\ down \in [Tab!Ports -> Seq(DownMessages)]
    BY <2>1 DEF WaitsInv, HoldsCover, MessagesInv, AsksItsOwn
  <2>4. down[s] # <<>> /\ page[s] = "live"
    BY DEF Tab!PageHandles
  <2>5. s # 0
    BY PortNumbers
  <2>6. current[tab[s]] = s
    BY <2>1, <2>4 DEF PagesInv
  <2> QED BY <2>1, <2>2, <2>3, <2>4, <2>5, <2>6
<1>1. PICK msg : msg = Head(down[s])
  OBVIOUS
<1>2. PICK p : p = transport[s]
  OBVIOUS
<1>3. /\ down' = [down EXCEPT ![s] = Tail(@)]
      /\ UNCHANGED <<page, tab, current, holds, entry, nav, handlers>>
  BY DEF Tab!PageHandles, Tab!storage
<1>4. /\ 1 \in 1..Len(down[s]) /\ msg = down[s][1] /\ Tail(down[s]) \in Seq(DownMessages)
      /\ \A i \in 1..Len(Tail(down[s])) :
           i + 1 \in 1..Len(down[s]) /\ Tail(down[s])[i] = down[s][i + 1]
  BY <1>0, <1>1, FirstTaken
<1>5. /\ down' \in [Tab!Ports -> Seq(DownMessages)]
      /\ \A r \in Tab!Ports : \A i \in 1..Len(down'[r]) : \E j \in 1..Len(down[r]) :
           down'[r][i] = down[r][j]
  <2>1. down' \in [Tab!Ports -> Seq(DownMessages)]
        /\ \A r \in Tab!Ports : down'[r] = IF r = s THEN Tail(down[s]) ELSE down[r]
    BY <1>0, <1>3, <1>4
  <2>2. ASSUME NEW r \in Tab!Ports, NEW i \in 1..Len(down'[r])
        PROVE  \E j \in 1..Len(down[r]) : down'[r][i] = down[r][j]
    <3>1. CASE r = s
      BY <1>4, <2>1, <2>2, <3>1
    <3>2. CASE r # s
      BY <2>1, <2>2, <3>2
    <3> QED BY <3>1, <3>2
  <2> QED BY <2>1, <2>2
<1>6. \A q : Requested(q)' => Requested(q)
  BY <1>5 DEF Requested
<1>7. ASSUME NEW post \in UpMessages, up' = [up EXCEPT ![s] = Append(@, post)]
      PROVE  \A r \in Tab!Ports : \A i \in 1..Len(up'[r]) :
               \/ i \in 1..Len(up[r]) /\ up'[r][i] = up[r][i]
               \/ r = s /\ i = Len(up[s]) + 1 /\ up'[r][i] = post
  <2>1. /\ up'[s] = Append(up[s], post) /\ Len(up[s]) \in Nat
        /\ Len(Append(up[s], post)) = Len(up[s]) + 1
        /\ \A i \in 1..(Len(up[s]) + 1) :
             Append(up[s], post)[i] = IF i = Len(up[s]) + 1 THEN post ELSE up[s][i]
    BY <1>0, <1>7
  <2>2. \A r \in Tab!Ports : r # s => up'[r] = up[r]
    BY <1>0, <1>7
  <2>3. \A i \in 1..Len(up'[s]) : \/ i \in 1..Len(up[s]) /\ up'[s][i] = up[s][i]
                                  \/ i = Len(up[s]) + 1 /\ up'[s][i] = post
    BY <2>1
  <2> QED BY <2>2, <2>3
<1>8. /\ \A r \in Tab!Ports : \A i \in 1..Len(up[r]) :
           up[r][i].kind = "open" => up[r][i].p \in Tab!Providers /\ owner[up[r][i].p] = r
      /\ \A h \in handlers :
           h.kind = "open" => h.p \in Tab!Providers /\ owner[h.p] = h.port /\ h.port \in Tab!Ports
  BY DEF TabInv, OwnAnnouncements, Announces
<1>9. \A r \in Tab!Ports : \A i \in 1..Len(down'[r]) : down'[r][i].kind = "goto" =>
        down'[r][i].p \in Tab!Providers /\ owner[down'[r][i].p] = r
  BY <1>0, <1>5 DEF MessagesInv, AsksItsOwn
<1>10. \A h \in handlers : h \in Waiting
         /\ (h.kind = "navigate" => h.p \in Tab!Providers /\ owner[h.p] = h.port)
  BY <1>0 DEF MessagesInv, AsksItsOwn
<1>11. ASSUME UNCHANGED owner, transport' \in {transport, [transport EXCEPT ![s] = 0]},
              \/ UNCHANGED up
              \/ \E kind \in {"close", "rpc", "navigate"} :
                   /\ up' = [up EXCEPT ![s] = Append(@, [kind |-> kind, p |-> p])]
                   /\ kind = "navigate" =>
                        p \in Tab!Providers /\ owner[p] = s /\ Requested(p)
       PROVE  HoldInv'
  <2>1. PICK post \in UpMessages :
          /\ UNCHANGED up \/ up' = [up EXCEPT ![s] = Append(@, post)]
          /\ post.kind # "open"
          /\ post.kind = "navigate" =>
               post.p \in Tab!Providers /\ owner[post.p] = s /\ Requested(post.p)
    <3>1. CASE UNCHANGED up
      <4>1. PICK m : m = [kind |-> "rpc", p |-> 0]
        OBVIOUS
      <4>2. m \in UpMessages /\ m.kind = "rpc"
        BY <4>1 DEF UpMessages
      <4> QED BY <3>1, <4>2
    <3>2. CASE ~UNCHANGED up
      <4>1. PICK kind \in {"close", "rpc", "navigate"} :
              /\ up' = [up EXCEPT ![s] = Append(@, [kind |-> kind, p |-> p])]
              /\ kind = "navigate" => p \in Tab!Providers /\ owner[p] = s /\ Requested(p)
        BY <1>11, <3>2
      <4>2. PICK m : m = [kind |-> kind, p |-> p]
        OBVIOUS
      <4>3. m \in UpMessages /\ m.kind = kind /\ m.p = p
        BY <1>0, <1>2, <4>1, <4>2 DEF UpMessages
      <4>4. up' = [up EXCEPT ![s] = Append(@, m)]
        BY <4>1, <4>2
      <4> QED BY <4>1, <4>3, <4>4
    <3> QED BY <3>1, <3>2
  <2>2. \A r \in Tab!Ports : \A i \in 1..Len(up'[r]) :
          \/ i \in 1..Len(up[r]) /\ up'[r][i] = up[r][i]
          \/ r = s /\ i = Len(up[s]) + 1 /\ up'[r][i] = post
    BY <1>7, <2>1
  <2>3. AsksItsOwn'
    <3>1. \A r \in Tab!Ports : \A i \in 1..Len(up'[r]) : up'[r][i].kind = "navigate" =>
            up'[r][i].p \in Tab!Providers /\ owner[up'[r][i].p] = r
      <4>1. \A r \in Tab!Ports : \A i \in 1..Len(up[r]) : up[r][i].kind = "navigate" =>
              up[r][i].p \in Tab!Providers /\ owner[up[r][i].p] = r
        BY <1>0 DEF MessagesInv, AsksItsOwn
      <4> QED BY <2>1, <2>2, <4>1
    <3> QED BY <1>3, <1>5, <1>9, <1>10, <1>11, <3>1 DEF AsksItsOwn
  <2>4. OpensOnce'
    <3>1. \A r \in Tab!Ports : \A i \in 1..Len(up'[r]) : up'[r][i].kind = "open" =>
            i \in 1..Len(up[r]) /\ up'[r][i] = up[r][i]
      BY <2>1, <2>2
    <3>2. \A r \in Tab!Ports : \A i, j \in 1..Len(up'[r]) :
            up'[r][i].kind = "open" /\ up'[r][j].kind = "open" /\ up'[r][i].p = up'[r][j].p
              => i = j
      BY <1>0, <3>1 DEF MessagesInv, OpensOnce
    <3>3. \A r \in Tab!Ports : \A i \in 1..Len(up'[r]) : \A h \in handlers :
            up'[r][i].kind = "open" /\ h.kind = "open" => h.p # up'[r][i].p
      <4>1. \A r \in Tab!Ports : \A i \in 1..Len(up[r]) : \A h \in handlers :
              up[r][i].kind = "open" /\ h.kind = "open" => h.p # up[r][i].p
        BY <1>0 DEF MessagesInv, OpensOnce
      <4> QED BY <3>1, <4>1
    <3> QED BY <1>3, <3>2, <3>3 DEF OpensOnce
  <2>5. /\ \A q : OnItsWay("open", q)' => OnItsWay("open", q)
        /\ \A q : OnItsWay("navigate", q)' =>
             OnItsWay("navigate", q) \/ (q \in Tab!Providers /\ owner[q] = s /\ Requested(q))
    BY <1>3, <2>1, <2>2 DEF OnItsWay
  <2>6. OpensFirst'
    BY <1>0, <1>3, <1>6, <2>5 DEF MessagesInv, OpensFirst
  <2>7. AskedByTheLast'
    BY <1>0, <1>3, <1>11, <2>5 DEF MessagesInv, AskedByTheLast
  <2>8. PagesInv'
    <3>1. /\ \A r \in Tab!Ports : transport'[r] \in {0, transport[r]}
          /\ \A r \in Tab!Ports : (page'[r] # "none" <=> page[r] # "none")
               /\ (page'[r] = "live" =>
                     page[r] = "live" /\ current'[tab[r]] = current[tab[r]])
          /\ \A t \in Tabs : current'[t] \in {0, current[t]}
          /\ UNCHANGED <<tab, owner>>
      BY <1>0, <1>3, <1>11
    <3> QED BY <1>0, <3>1, PagesKept
  <2>9. WaitsInv'
    <3>1. \A q \in Tab!Providers :
            /\ owner'[q] = 0 => entry'[q].dials = 0 /\ owner[q] = 0
            /\ entry'[q].dials = entry[q].dials
            /\ owner'[q] = owner[q] /\ tab'[owner[q]] = tab[owner[q]]
            /\ nav'[q] = nav[q]
      BY <1>0, <1>3, <1>11 DEF WaitsInv, UnusedAreIdle
    <3>2. DOMAIN nav' = Tab!Providers /\ UNCHANGED holds
      BY <1>0, <1>3
    <3> QED BY <1>0, <3>1, <3>2, WaitsKept
  <2> QED BY <2>3, <2>4, <2>6, <2>7, <2>8, <2>9 DEF HoldInv, MessagesInv
<1>12. PICK new : new = Cardinality({q \in Tab!Providers : owner[q] # 0}) + 1
  OBVIOUS
<1>13. ASSUME new \in Tab!Providers,
              up' = [up EXCEPT ![s] = Append(@, [kind |-> "open", p |-> new])],
              transport' = [transport EXCEPT ![s] = new],
              owner' = [owner EXCEPT ![new] = s]
       PROVE  HoldInv'
  <2>1. owner[new] = 0
    <3>1. \E n \in Nat : \A q \in 1..MaxProviders : owner[q] # 0 <=> q <= n
      BY PortNumbers DEF TabInv, ProvidersInOrder
    <3>2. Cardinality({q \in 1..MaxProviders : owner[q] # 0}) + 1 \in 1..MaxProviders
      BY <1>12, <1>13, PortNumbers
    <3>3. PICK n \in Nat : new = n + 1 /\ \A q \in 1..MaxProviders : owner[q] # 0 <=> q <= n
      BY <1>12, <3>1, <3>2, PortNumbers, NextIsUnused
    <3> QED BY <1>13, <3>3, PortNumbers
  <2>2. PICK post : post = [kind |-> "open", p |-> new]
    OBVIOUS
  <2>3. post \in UpMessages /\ post.kind = "open" /\ post.p = new
        /\ up' = [up EXCEPT ![s] = Append(@, post)]
    BY <1>13, <2>2, PortNumbers DEF UpMessages
  <2>4. \A r \in Tab!Ports : \A i \in 1..Len(up'[r]) :
          \/ i \in 1..Len(up[r]) /\ up'[r][i] = up[r][i]
          \/ r = s /\ i = Len(up[s]) + 1 /\ up'[r][i] = post
    BY <1>7, <2>3
  <2>5. \A q \in Tab!Providers : owner'[q] = IF q = new THEN s ELSE owner[q]
    BY <1>0, <1>13
  <2>6. \A r \in Tab!Ports : r # 0
    BY PortNumbers
  <2>7. /\ ~OnItsWay("open", new) /\ ~OnItsWay("navigate", new) /\ ~Requested(new)
    <3>1. ~OnItsWay("open", new)
      BY <1>8, <2>1, <2>6 DEF OnItsWay
    <3>2. ~OnItsWay("navigate", new)
      BY <1>0, <1>10, <2>1, <2>6 DEF OnItsWay, MessagesInv, AsksItsOwn, Waiting
    <3>3. ~Requested(new)
      BY <1>0, <2>1, <2>6 DEF Requested, MessagesInv, AsksItsOwn
    <3> QED BY <3>1, <3>2, <3>3
  <2>8. ~entry[new].listed /\ nav[new] = "none" /\ entry[new].dials = 0
    BY <1>0, <1>13, <2>1 DEF TabInv, PathsLead, WaitsInv, UnusedAreIdle
  <2>9. AsksItsOwn'
    <3>1. \A r \in Tab!Ports : \A i \in 1..Len(down'[r]) : down'[r][i].kind = "goto" =>
            down'[r][i].p \in Tab!Providers /\ owner'[down'[r][i].p] = r
      BY <1>9, <2>1, <2>5, <2>6
    <3>2. \A r \in Tab!Ports : \A i \in 1..Len(up[r]) : up[r][i].kind = "navigate" =>
            up[r][i].p \in Tab!Providers /\ owner'[up[r][i].p] = r
      BY <1>0, <2>1, <2>5, <2>6 DEF MessagesInv, AsksItsOwn
    <3>3. \A r \in Tab!Ports : \A i \in 1..Len(up'[r]) : up'[r][i].kind = "navigate" =>
            up'[r][i].p \in Tab!Providers /\ owner'[up'[r][i].p] = r
      BY <2>3, <2>4, <3>2
    <3>4. \A h \in handlers : h.kind = "navigate" =>
            h.p \in Tab!Providers /\ owner'[h.p] = h.port
      BY <1>10, <2>1, <2>5, <2>6 DEF Waiting
    <3> QED BY <1>3, <1>5, <1>10, <3>1, <3>3, <3>4 DEF AsksItsOwn
  <2>10. OpensOnce'
    <3>1. \A r \in Tab!Ports : \A i \in 1..Len(up[r]) : up[r][i].kind = "open" => up[r][i].p # new
      BY <2>7 DEF OnItsWay
    <3>2. ASSUME NEW r \in Tab!Ports, NEW i \in 1..Len(up'[r]), NEW j \in 1..Len(up'[r]),
                 up'[r][i].kind = "open", up'[r][j].kind = "open", up'[r][i].p = up'[r][j].p
          PROVE  i = j
      <4>1. CASE i \in 1..Len(up[r]) /\ up'[r][i] = up[r][i]
        <5>1. j \in 1..Len(up[r]) /\ up'[r][j] = up[r][j]
          BY <2>3, <2>4, <3>1, <3>2, <4>1
        <5> QED BY <1>0, <3>2, <4>1, <5>1 DEF MessagesInv, OpensOnce
      <4>2. CASE r = s /\ i = Len(up[s]) + 1 /\ up'[r][i] = post
        BY <2>3, <2>4, <3>1, <3>2, <4>2
      <4> QED BY <2>4, <4>1, <4>2
    <3>3. ASSUME NEW r \in Tab!Ports, NEW i \in 1..Len(up'[r]), NEW h \in handlers,
                 up'[r][i].kind = "open", h.kind = "open", h.p = up'[r][i].p
          PROVE  FALSE
      <4>1. h.p # new
        BY <2>7, <3>3 DEF OnItsWay
      <4>2. i \in 1..Len(up[r]) /\ up'[r][i] = up[r][i]
        BY <2>3, <2>4, <3>3, <4>1
      <4> QED BY <1>0, <3>3, <4>2 DEF MessagesInv, OpensOnce
    <3> QED BY <1>3, <3>2, <3>3 DEF OpensOnce
  <2>11. /\ \A q : OnItsWay("open", q)' => OnItsWay("open", q) \/ q = new
         /\ \A q : OnItsWay("navigate", q)' => OnItsWay("navigate", q)
    BY <1>3, <2>3, <2>4 DEF OnItsWay
  <2>12. OpensFirst'
    BY <1>0, <1>3, <1>6, <2>7, <2>8, <2>11 DEF MessagesInv, OpensFirst
  <2>13. AskedByTheLast'
    <3> SUFFICES ASSUME NEW q \in Tab!Providers, OnItsWay("navigate", q)', entry'[q].listed
                 PROVE  current'[tab'[owner'[q]]] = owner'[q]
      BY DEF AskedByTheLast
    <3>1. q # new /\ OnItsWay("navigate", q) /\ entry[q].listed
      BY <1>3, <2>7, <2>11
    <3> QED BY <1>0, <1>3, <2>5, <3>1 DEF MessagesInv, AskedByTheLast
  <2>14. PagesInv'
    <3>1. ASSUME NEW r \in Tab!Ports, transport'[r] # 0
          PROVE  transport'[r] \in Tab!Providers /\ owner'[transport'[r]] = r
      <4>1. CASE r = s
        BY <1>0, <1>13, <2>5, <4>1
      <4>2. CASE r # s
        <5>1. transport'[r] = transport[r] /\ transport[r] # 0
          BY <1>0, <1>13, <3>1, <4>2
        <5>2. transport[r] \in Tab!Providers /\ owner[transport[r]] = r
          BY <1>0, <5>1 DEF PagesInv
        <5>3. transport[r] # new
          BY <2>1, <2>6, <5>2
        <5> QED BY <2>5, <5>1, <5>2, <5>3
      <4> QED BY <4>1, <4>2
    <3> QED BY <1>0, <1>3, <3>1 DEF PagesInv
  <2>15. WaitsInv'
    <3>1. \A q \in Tab!Providers :
            /\ owner'[q] = 0 => entry'[q].dials = 0 /\ owner[q] = 0
            /\ entry'[q].dials = entry[q].dials
            /\ \/ owner'[q] = owner[q] /\ tab'[owner[q]] = tab[owner[q]]
               \/ nav[q] = "none" /\ entry'[q].dials = 0
            /\ nav'[q] = nav[q]
      BY <1>0, <1>3, <2>5, <2>8 DEF WaitsInv, UnusedAreIdle
    <3>2. DOMAIN nav' = Tab!Providers /\ UNCHANGED holds
      BY <1>0, <1>3
    <3> QED BY <1>0, <3>1, <3>2, WaitsKept
  <2> QED BY <2>9, <2>10, <2>12, <2>13, <2>14, <2>15 DEF HoldInv, MessagesInv
<1>14. new = Tab!Cardinality({q \in Tab!Providers : owner[q] # 0}) + 1
  BY <1>12 DEF Cardinality, Tab!Cardinality
<1>15. msg.kind = "goto" /\ p = msg.p => p \in Tab!Providers /\ owner[p] = s /\ Requested(p)
  <2>1. msg.kind = "goto" => msg.p \in Tab!Providers /\ owner[msg.p] = s
    BY <1>0, <1>4 DEF MessagesInv, AsksItsOwn
  <2>2. msg.kind = "goto" => Requested(msg.p)
    BY <1>4 DEF Requested
  <2> QED BY <2>1, <2>2
<1>16. CASE msg.kind = "activate" /\ p = 0 /\ new \in Tab!Providers
  BY <1>1, <1>2, <1>13, <1>14, <1>16 DEF Tab!PageHandles
<1>17. CASE msg.kind = "deactivate" /\ p # 0
  BY <1>1, <1>2, <1>11, <1>17 DEF Tab!PageHandles
<1>18. CASE msg.kind = "close" /\ p = msg.p
  BY <1>1, <1>2, <1>11, <1>18 DEF Tab!PageHandles
<1>19. CASE msg.kind \in {"ask", "goto"} /\ p = msg.p
  <2>1. UNCHANGED <<transport, owner>>
        /\ up' = [up EXCEPT ![s] = Append(@,
                    [kind |-> IF msg.kind = "ask" THEN "rpc" ELSE "navigate", p |-> p])]
    BY <1>1, <1>2, <1>19 DEF Tab!PageHandles
  <2>2. CASE msg.kind = "ask"
    BY <1>11, <2>1, <2>2
  <2>3. CASE msg.kind = "goto"
    <3>1. up' = [up EXCEPT ![s] = Append(@, [kind |-> "navigate", p |-> p])]
      BY <2>1, <2>3
    <3> QED BY <1>11, <1>15, <1>19, <2>1, <2>3, <3>1
  <2> QED BY <1>19, <2>2, <2>3
<1>20. CASE \/ msg.kind = "activate" /\ (p # 0 \/ new \notin Tab!Providers)
            \/ msg.kind = "deactivate" /\ p = 0
            \/ msg.kind \in {"close", "ask", "goto"} /\ p # msg.p
  <2>1. UNCHANGED <<up, transport, owner>>
    BY <1>1, <1>2, <1>14, <1>20 DEF Tab!PageHandles
  <2> QED BY <1>11, <2>1
<1> QED BY <1>1, <1>2, <1>14, <1>16, <1>17, <1>18, <1>19, <1>20 DEF Tab!PageHandles

\* Where sockets of a Port are closed, nobody dials anew and what is listed was.
LEMMA ClosedDoNotDial ==
  ASSUME TabInv, NEW s, Tab!CloseAllSockets(s)
  PROVE  \A p \in Tab!Providers :
           /\ entry'[p].dials = entry[p].dials /\ (entry'[p].listed => entry[p].listed)
           /\ entry'[p].listed /\ s # 0 => owner[p] # s
<1>1. \A p \in Tab!Providers : (entry'[p].listed => entry[p].listed)
                               /\ (entry'[p].listed /\ s # 0 => owner[p] # s)
  BY ClosingKeeps
<1>2. \A p \in Tab!Providers : IsEntry(entry[p])
  BY DEF TabInv, EntriesSound, SocketKnown
<1>3. \A p \in Tab!Providers : entry'[p] \in {entry[p], Tab!CloseSocket(entry[p])}
  BY DEF Tab!CloseAllSockets
<1>4. \A p \in Tab!Providers : entry'[p].dials = entry[p].dials
  BY <1>2, <1>3, EntryDials
<1> QED BY <1>1, <1>4

\* A content script connects: the page it is of is the last of its tab.
LEMMA ConnectHolds ==
  ASSUME TabInv, HoldInv, NEW t \in Tabs, Tab!Connect(t)
  PROVE  HoldInv'
<1>0. /\ PagesInv /\ MessagesInv /\ WaitsInv /\ PathsLead
      /\ DOMAIN page = Tab!Ports /\ DOMAIN tab = Tab!Ports /\ DOMAIN current = Tabs
      /\ DOMAIN up = Tab!Ports /\ down \in [Tab!Ports -> Seq(DownMessages)]
      /\ DOMAIN nav = Tab!Providers
  BY DEF HoldInv, TabInv, PortsTyped, MessagesInv, AsksItsOwn, WaitsInv, HoldsCover
<1>1. PICK s : s = Cardinality({q \in Tab!Ports : page[q] # "none"}) + 1
  OBVIOUS
<1>2. s = Tab!Cardinality({q \in Tab!Ports : page[q] # "none"}) + 1
  BY <1>1 DEF Cardinality, Tab!Cardinality
<1>3. /\ s \in Tab!Ports
      /\ \A q \in Tab!Ports : tab[q] = t => page[q] \notin {"live", "closed"}
      /\ page' = [page EXCEPT ![s] = "live"] /\ tab' = [tab EXCEPT ![s] = t]
      /\ up' = [up EXCEPT ![s] = <<[kind |-> "hello", p |-> 0]>>]
      /\ current' = [current EXCEPT ![t] = s]
      /\ Tab!CloseAllSockets(current[t])
      /\ UNCHANGED <<holds, transport, down, owner, nav, handlers>>
  BY <1>2 DEF Tab!Connect, Tab!ContentConnects, Tab!storage
<1>4. PICK n \in Nat : s = n + 1 /\ \A q \in Tab!Ports : page[q] # "none" <=> q <= n
  <2>1. \E n \in Nat : \A q \in 1..MaxPorts : page[q] # "none" <=> q <= n
    BY PortNumbers DEF TabInv, PortsInOrder
  <2>2. Cardinality({q \in 1..MaxPorts : page[q] # "none"}) + 1 \in 1..MaxPorts
    BY <1>1, <1>3, PortNumbers
  <2> QED BY <1>1, <2>1, <2>2, PortNumbers, NextIsUnused
<1>5. page[s] = "none" /\ s # 0
  BY <1>3, <1>4, PortNumbers
<1>6. \A q \in Tab!Ports : /\ page'[q] = IF q = s THEN "live" ELSE page[q]
                           /\ tab'[q] = IF q = s THEN t ELSE tab[q]
  BY <1>0, <1>3
<1>7. \A u \in Tabs : current'[u] = IF u = t THEN s ELSE current[u]
  BY <1>0, <1>3
<1>8. \A p \in Tab!Providers : owner[p] # 0 =>
        owner[p] \in Tab!Ports /\ owner[p] # s /\ tab'[owner[p]] = tab[owner[p]]
  BY <1>0, <1>5, <1>6 DEF PathsLead
<1>9. \A p \in Tab!Providers :
        /\ entry'[p].dials = entry[p].dials /\ (entry'[p].listed => entry[p].listed)
        /\ entry'[p].listed /\ current[t] # 0 => owner[p] # current[t]
  BY <1>3, ClosedDoNotDial
<1>10. PagesInv'
  <2>1. \A r \in Tab!Ports : page'[r] # "none" => tab'[r] \in Tabs
    BY <1>0, <1>6 DEF PagesInv
  <2>2. ASSUME NEW r \in Tab!Ports, page'[r] = "live" PROVE current'[tab'[r]] = r
    <3>1. CASE r = s
      BY <1>6, <1>7, <3>1
    <3>2. CASE r # s
      <4>1. page[r] = "live" /\ tab[r] \in Tabs /\ tab[r] # t /\ tab'[r] = tab[r]
        BY <1>0, <1>3, <1>6, <2>2, <3>2 DEF PagesInv
      <4> QED BY <1>0, <1>7, <4>1 DEF PagesInv
    <3> QED BY <3>1, <3>2
  <2>3. ASSUME NEW u \in Tabs, current'[u] # 0, NEW r \in Tab!Ports, page'[r] # "none",
               tab'[r] = u
        PROVE  r <= current'[u]
    <3>1. CASE u = t
      <4>1. r \in Nat /\ (r = s \/ r <= n)
        BY <1>4, <1>6, <2>3, PortNumbers
      <4> QED BY <1>4, <1>7, <3>1, <4>1
    <3>2. CASE u # t
      <4>1. r # s /\ page[r] # "none" /\ tab[r] = u
        BY <1>6, <2>3, <3>2
      <4> QED BY <1>0, <1>7, <2>3, <3>2, <4>1 DEF PagesInv
    <3> QED BY <3>1, <3>2
  <2>4. \A r \in Tab!Ports : transport'[r] # 0 =>
          transport'[r] \in Tab!Providers /\ owner'[transport'[r]] = r
    BY <1>0, <1>3 DEF PagesInv
  <2> QED BY <2>1, <2>2, <2>3, <2>4 DEF PagesInv
<1>11. MessagesInv'
  <2>1. /\ \A r \in Tab!Ports : \A i \in 1..Len(up'[r]) :
             up'[r][i].kind \in {"open", "navigate"} =>
               i \in 1..Len(up[r]) /\ up[r][i] = up'[r][i]
    <3>1. PICK hello : hello = [kind |-> "hello", p |-> 0]
      OBVIOUS
    <3>2. hello.kind = "hello" /\ Len(<<hello>>) = 1 /\ <<hello>>[1] = hello
      BY <3>1
    <3>3. \A r \in Tab!Ports : up'[r] = IF r = s THEN <<hello>> ELSE up[r]
      BY <1>0, <1>3, <3>1
    <3> QED BY <3>2, <3>3
  <2>2. ASSUME NEW q \in Tab!Providers, entry'[q].listed
        PROVE  entry[q].listed /\ (current[tab[owner[q]]] = owner[q] =>
                                     current'[tab'[owner[q]]] = owner[q])
    <3>1. entry[q].listed /\ owner[q] # 0
      BY <1>0, <1>9, <2>2 DEF PathsLead
    <3>2. owner[q] \in Tab!Ports /\ tab'[owner[q]] = tab[owner[q]] /\ tab[owner[q]] \in Tabs
      BY <1>0, <1>8, <3>1 DEF PathsLead, PagesInv
    <3>3. current[tab[owner[q]]] = owner[q] => tab[owner[q]] # t
      BY <1>9, <2>2, <3>1
    <3> QED BY <1>7, <3>1, <3>2, <3>3
  <2>3. UNCHANGED owner /\ handlers' \subseteq handlers
        /\ down' \in [Tab!Ports -> Seq(DownMessages)]
        /\ \A r \in Tab!Ports : \A i \in 1..Len(down'[r]) : down'[r][i].kind = "goto" =>
             \E j \in 1..Len(down[r]) : down[r][j] = down'[r][i]
    BY <1>0, <1>3
  <2> QED BY <1>0, <2>1, <2>2, <2>3, MessagesKept
<1>12. WaitsInv'
  <2>1. \A p \in Tab!Providers :
          /\ owner'[p] = 0 => entry'[p].dials = 0 /\ owner[p] = 0
          /\ entry'[p].dials = entry[p].dials
          /\ \/ owner'[p] = owner[p] /\ tab'[owner[p]] = tab[owner[p]]
             \/ nav[p] = "none" /\ entry'[p].dials = 0
          /\ nav'[p] = nav[p]
    BY <1>0, <1>3, <1>8, <1>9 DEF WaitsInv, UnusedAreIdle
  <2>2. DOMAIN nav' = Tab!Providers /\ UNCHANGED holds
    BY <1>0, <1>3
  <2> QED BY <1>0, <2>1, <2>2, WaitsKept
<1> QED BY <1>10, <1>11, <1>12 DEF HoldInv

\* A page that leaves, whoever sees it first: its messages may be lost, its sockets close.
LEMMA LeavingHolds ==
  ASSUME TabInv, HoldInv, UNCHANGED <<tab, owner, holds, nav, handlers>>,
         down' \in [Tab!Ports -> Seq(DownMessages)],
         \A s \in Tab!Ports :
           /\ page'[s] # "none" <=> page[s] # "none"
           /\ page'[s] = "live" => page[s] = "live" /\ current'[tab[s]] = current[tab[s]]
           /\ transport'[s] \in {0, transport[s]}
           /\ up'[s] = up[s] \/ up'[s] = <<>>
           /\ down'[s] = down[s] \/ down'[s] = <<>>,
         \A t \in Tabs : current'[t] \in {0, current[t]},
         \A p \in Tab!Providers :
           /\ entry'[p].dials = entry[p].dials /\ (entry'[p].listed => entry[p].listed)
           /\ entry'[p].listed /\ owner[p] # 0 /\ current[tab[owner[p]]] = owner[p] =>
                current'[tab[owner[p]]] = owner[p]
  PROVE  HoldInv'
<1>0. PagesInv /\ MessagesInv /\ WaitsInv /\ PathsLead
  BY DEF HoldInv, TabInv
<1>1. PagesInv'
  BY <1>0, PagesKept
<1>2. MessagesInv'
  <2>1. ASSUME NEW s \in Tab!Ports, NEW i \in 1..Len(down'[s])
        PROVE  \E j \in 1..Len(down[s]) : down[s][j] = down'[s][i]
    <3>1. down'[s] = down[s]
      <4>1. CASE down'[s] = <<>>
        <5>1. Len(down'[s]) = 0
          BY <4>1
        <5>2. i \in 1..0
          BY <2>1, <5>1
        <5> QED BY <5>2
      <4> QED BY <4>1
    <3> QED BY <2>1, <3>1
  <2>2. ASSUME NEW s \in Tab!Ports, NEW i \in 1..Len(up'[s])
        PROVE  i \in 1..Len(up[s]) /\ up[s][i] = up'[s][i]
    <3>1. up'[s] = up[s]
      <4>1. CASE up'[s] = <<>>
        <5>1. Len(up'[s]) = 0
          BY <4>1
        <5>2. i \in 1..0
          BY <2>2, <5>1
        <5> QED BY <5>2
      <4> QED BY <4>1
    <3> QED BY <2>2, <3>1
  <2>3. \A q \in Tab!Providers : entry'[q].listed =>
          entry[q].listed /\ (current[tab[owner[q]]] = owner[q] =>
                                current'[tab'[owner[q]]] = owner[q])
    BY <1>0 DEF PathsLead
  <2> QED BY <1>0, <2>1, <2>2, <2>3, MessagesKept
<1>3. WaitsInv'
  <2>1. \A p \in Tab!Providers :
          /\ owner'[p] = 0 => entry'[p].dials = 0 /\ owner[p] = 0
          /\ owner'[p] = owner[p] /\ tab'[owner[p]] = tab[owner[p]]
          /\ nav'[p] = nav[p]
    BY <1>0 DEF WaitsInv, UnusedAreIdle
  <2>2. DOMAIN nav' = Tab!Providers
    BY <1>0 DEF WaitsInv, HoldsCover
  <2> QED BY <1>0, <2>1, <2>2, WaitsKept
<1> QED BY <1>1, <1>2, <1>3 DEF HoldInv

\* The document goes away, the worker hears of it, or the tab is closed.
LEMMA PortsHold ==
  ASSUME TabInv, HoldInv
  PROVE  /\ \A s \in Tab!Ports : Tab!Unload(s) => HoldInv'
         /\ \A s \in Tab!Ports : Tab!OnDisconnect(s) => HoldInv'
         /\ \A o \in Ops, t \in Tabs : Tab!TabRemoved(o, t) => HoldInv'
<1>0. /\ PagesInv /\ MessagesInv /\ WaitsInv /\ PathsLead
      /\ DOMAIN page = Tab!Ports /\ DOMAIN transport = Tab!Ports /\ DOMAIN current = Tabs
      /\ DOMAIN up = Tab!Ports /\ down \in [Tab!Ports -> Seq(DownMessages)]
      /\ <<>> \in Seq(DownMessages)
  BY DEF HoldInv, TabInv, PortsTyped, MessagesInv, AsksItsOwn
<1>1. ASSUME NEW s \in Tab!Ports, Tab!Unload(s) PROVE HoldInv'
  <2>1. /\ page' = [r \in Tab!Ports |-> IF r \in {s} /\ page[r] = "live" THEN "left" ELSE page[r]]
        /\ transport' = [r \in Tab!Ports |-> IF r \in {s} THEN 0 ELSE transport[r]]
        /\ down' = [r \in Tab!Ports |-> IF r \in {s} THEN <<>> ELSE down[r]]
        /\ UNCHANGED <<current, tab, up, owner, entry, holds, nav, handlers>>
    BY <1>1 DEF Tab!Unload, Tab!ContentDisconnects
  <2>2. down' \in [Tab!Ports -> Seq(DownMessages)]
    BY <1>0, <2>1
  <2>3. \A r \in Tab!Ports :
          /\ page'[r] # "none" <=> page[r] # "none"
          /\ page'[r] = "live" => page[r] = "live" /\ current'[tab[r]] = current[tab[r]]
          /\ transport'[r] \in {0, transport[r]}
          /\ up'[r] = up[r] \/ up'[r] = <<>>
          /\ down'[r] = down[r] \/ down'[r] = <<>>
    BY <2>1
  <2> QED BY <2>1, <2>2, <2>3, LeavingHolds
<1>2. ASSUME NEW s, NEW t \in Tabs, s # 0, s = current[t],
             current' = [current EXCEPT ![t] = 0], Tab!CloseAllSockets(s)
      PROVE  /\ \A u \in Tabs : current'[u] \in {0, current[u]}
             /\ \A u \in Tabs : u # t => current'[u] = current[u]
             /\ \A p \in Tab!Providers :
                  /\ entry'[p].dials = entry[p].dials /\ (entry'[p].listed => entry[p].listed)
                  /\ entry'[p].listed /\ owner[p] # 0 /\ current[tab[owner[p]]] = owner[p] =>
                       current'[tab[owner[p]]] = owner[p]
  <2>1. \A u \in Tabs : current'[u] = IF u = t THEN 0 ELSE current[u]
    BY <1>0, <1>2
  <2>2. \A p \in Tab!Providers :
          /\ entry'[p].dials = entry[p].dials /\ (entry'[p].listed => entry[p].listed)
          /\ entry'[p].listed => owner[p] # s
    BY <1>2, ClosedDoNotDial
  <2>3. \A p \in Tab!Providers : owner[p] # 0 => tab[owner[p]] \in Tabs
    BY <1>0 DEF PathsLead, PagesInv
  <2> QED BY <1>2, <2>1, <2>2, <2>3
<1>3. ASSUME NEW s \in Tab!Ports, Tab!OnDisconnect(s) PROVE HoldInv'
  <2>1. PICK t : t = tab[s]
    OBVIOUS
  <2>2. /\ page[s] = "left" /\ current[t] = s /\ current' = [current EXCEPT ![t] = 0]
        /\ Tab!CloseAllSockets(s)
        /\ UNCHANGED <<page, tab, transport, up, down, owner, holds, nav, handlers>>
    BY <1>3, <2>1 DEF Tab!OnDisconnect, Tab!pages
  <2>3. s # 0 /\ t \in Tabs
    BY <1>0, <2>1, <2>2, PortNumbers DEF PagesInv
  <2>4. /\ \A u \in Tabs : current'[u] \in {0, current[u]}
        /\ \A u \in Tabs : u # t => current'[u] = current[u]
        /\ \A p \in Tab!Providers :
             /\ entry'[p].dials = entry[p].dials /\ (entry'[p].listed => entry[p].listed)
             /\ entry'[p].listed /\ owner[p] # 0 /\ current[tab[owner[p]]] = owner[p] =>
                  current'[tab[owner[p]]] = owner[p]
    BY <1>2, <2>2, <2>3
  <2>5. ASSUME NEW r \in Tab!Ports, page[r] = "live" PROVE current'[tab[r]] = current[tab[r]]
    <3>1. tab[r] \in Tabs /\ current[tab[r]] = r
      BY <1>0, <2>5 DEF PagesInv
    <3>2. tab[r] # t
      BY <2>2, <2>5, <3>1
    <3> QED BY <2>4, <3>1, <3>2
  <2>6. down' \in [Tab!Ports -> Seq(DownMessages)]
    BY <1>0, <2>2
  <2>7. \A r \in Tab!Ports :
          /\ page'[r] # "none" <=> page[r] # "none"
          /\ page'[r] = "live" => page[r] = "live" /\ current'[tab[r]] = current[tab[r]]
          /\ transport'[r] \in {0, transport[r]}
          /\ up'[r] = up[r] \/ up'[r] = <<>>
          /\ down'[r] = down[r] \/ down'[r] = <<>>
    BY <2>2, <2>5
  <2> QED BY <2>2, <2>4, <2>6, <2>7, LeavingHolds
<1>4. ASSUME NEW o \in Ops, NEW t \in Tabs, Tab!TabRemoved(o, t) PROVE HoldInv'
  <2>1. PICK s : s = current[t]
    OBVIOUS
  <2>2. /\ s # 0 /\ page' = [page EXCEPT ![s] = "closed"]
        /\ up' = [up EXCEPT ![s] = <<>>] /\ down' = [down EXCEPT ![s] = <<>>]
        /\ transport' = [transport EXCEPT ![s] = 0] /\ current' = [current EXCEPT ![t] = 0]
        /\ Tab!CloseAllSockets(s)
        /\ UNCHANGED <<tab, owner, holds, nav, handlers>>
    BY <1>4, <2>1 DEF Tab!TabRemoved
  <2>3. s \in Tab!Ports /\ tab[s] = t /\ page[s] # "none"
    BY <1>0, <2>1, <2>2 DEF PathsLead
  <2>4. /\ \A u \in Tabs : current'[u] \in {0, current[u]}
        /\ \A u \in Tabs : u # t => current'[u] = current[u]
        /\ \A p \in Tab!Providers :
             /\ entry'[p].dials = entry[p].dials /\ (entry'[p].listed => entry[p].listed)
             /\ entry'[p].listed /\ owner[p] # 0 /\ current[tab[owner[p]]] = owner[p] =>
                  current'[tab[owner[p]]] = owner[p]
    BY <1>2, <2>1, <2>2
  <2>5. ASSUME NEW r \in Tab!Ports, page'[r] = "live"
        PROVE  page[r] = "live" /\ current'[tab[r]] = current[tab[r]]
    <3>1. r # s /\ page[r] = "live"
      BY <1>0, <2>2, <2>5
    <3>2. tab[r] \in Tabs /\ current[tab[r]] = r
      BY <1>0, <3>1 DEF PagesInv
    <3>3. tab[r] # t
      BY <2>1, <3>1, <3>2
    <3> QED BY <2>4, <3>1, <3>2, <3>3
  <2>6. down' \in [Tab!Ports -> Seq(DownMessages)]
    BY <1>0, <2>2
  <2>7. \A r \in Tab!Ports :
          /\ page'[r] # "none" <=> page[r] # "none"
          /\ transport'[r] \in {0, transport[r]}
          /\ up'[r] = up[r] \/ up'[r] = <<>>
          /\ down'[r] = down[r] \/ down'[r] = <<>>
    BY <1>0, <2>2, <2>3
  <2> QED BY <2>2, <2>4, <2>5, <2>6, <2>7, LeavingHolds
<1> QED BY <1>1, <1>3, <1>4

\* What the popup asks for begins and ends no hold.
LEMMA RequestsHold ==
  ASSUME TabInv, HoldInv, NEW o \in Ops
  PROVE  /\ Tab!OpStep(o) => HoldInv'
         /\ \A t \in Tabs : Tab!StartDisable(o, t) => HoldInv'
         /\ \A kind, m : \A t \in Tabs : Tab!StartRequest(o, kind, t, m) => HoldInv'
<1> USE DEF Tab!storage, Tab!pages
<1>0. /\ MessagesInv /\ DOMAIN nav = Tab!Providers
      /\ UNCHANGED down => NothingAsked
      /\ down \in [Tab!Ports -> Seq(DownMessages)]
  <2>1. MessagesInv /\ DOMAIN nav = Tab!Providers
    BY DEF HoldInv, WaitsInv, HoldsCover
  <2> QED BY <2>1, TellingAsksNothing DEF MessagesInv, AsksItsOwn
<1>1. ASSUME NothingAsked,
             UNCHANGED <<page, tab, transport, current, up, owner, holds, nav, handlers>>,
             \A p \in Tab!Providers : /\ entry'[p].listed => entry[p].listed
                                      /\ entry'[p].dials = entry[p].dials
      PROVE  HoldInv'
  <2>1. handlers' \subseteq handlers /\ UNCHANGED current /\ DOMAIN nav' = Tab!Providers
        /\ \A p \in Tab!Providers : nav'[p] = "none" <=> nav[p] = "none"
    BY <1>0, <1>1
  <2> QED BY <1>1, <2>1, WorkerHolds
<1>2. ASSUME UNCHANGED <<page, tab, transport, current, up, down, owner, holds, nav, handlers,
                         entry>>
      PROVE  HoldInv'
  BY <1>0, <1>1, <1>2
<1>3. PICK s : s = current[op[o].tab]
  OBVIOUS
<1>4. ASSUME NEW u, NEW msgs \in Seq(DownMessages), Tab!Tell(u, msgs),
             \A i \in 1..Len(msgs) : msgs[i].kind # "goto"
      PROVE  NothingAsked
  <2>1. CASE u \in Tab!Ports
    BY <1>0, <1>4, <2>1, TellingAsksNothing
  <2>2. CASE u \notin Tab!Ports
    <3>1. down' = [down EXCEPT ![u] = @ \o msgs]
      BY <1>4 DEF Tab!Tell
    <3>2. down' = down
      BY <1>0, <2>2, <3>1
    <3> QED BY <1>0, <3>2
  <2> QED BY <2>1, <2>2
<1>5. PICK off : off = Tab!Control("deactivate")
  OBVIOUS
<1>6. PICK activate : activate = Tab!Control("activate")
  OBVIOUS
<1>7. /\ off \in DownMessages /\ off.kind # "goto"
      /\ activate \in DownMessages /\ activate.kind # "goto"
  BY <1>5, <1>6 DEF Tab!Control, DownMessages
<1>8. PICK closings : closings = Tab!Closings(s)
  OBVIOUS
<1>9. closings \in Seq(DownMessages) /\ \A i \in 1..Len(closings) : closings[i].kind # "goto"
  BY <1>8, ClosingsAreTold
<1>10. ASSUME NEW msgs \in {closings, <<off>> \o closings}, Tab!CloseAllSockets(s),
              UNCHANGED down \/ Tab!Tell(s, msgs),
              UNCHANGED <<page, tab, transport, current, up, owner, holds, nav, handlers>>
       PROVE  HoldInv'
  <2>1. msgs \in Seq(DownMessages) /\ \A i \in 1..Len(msgs) : msgs[i].kind # "goto"
    <3>1. CASE msgs = closings
      BY <1>9, <3>1
    <3>2. CASE msgs = <<off>> \o closings
      <4>1. /\ <<off>> \in Seq(DownMessages) /\ Len(<<off>>) = 1 /\ <<off>>[1] = off
            /\ Len(closings) \in Nat
        BY <1>7, <1>9
      <4>2. /\ <<off>> \o closings \in Seq(DownMessages)
            /\ Len(<<off>> \o closings) = 1 + Len(closings)
            /\ \A i \in 1..(1 + Len(closings)) :
                 (<<off>> \o closings)[i] = IF i = 1 THEN off ELSE closings[i - 1]
        BY <1>9, <4>1
      <4>3. ASSUME NEW i \in 1..(1 + Len(closings)) PROVE (<<off>> \o closings)[i].kind # "goto"
        <5>1. i # 1 => i - 1 \in 1..Len(closings)
          BY <4>1, <4>3
        <5> QED BY <1>7, <1>9, <4>2, <5>1
      <4> QED BY <3>2, <4>2, <4>3
    <3> QED BY <1>10, <3>1, <3>2
  <2>2. NothingAsked
    BY <1>0, <1>4, <1>10, <2>1
  <2>3. \A p \in Tab!Providers : /\ entry'[p].listed => entry[p].listed
                                 /\ entry'[p].dials = entry[p].dials
    BY <1>10, ClosedDoNotDial
  <2> QED BY <1>1, <1>10, <2>2, <2>3
<1>11. ASSUME NEW u, NEW msgs \in {<<activate>>, <<off, activate>>},
              UNCHANGED down \/ Tab!Tell(u, msgs),
              UNCHANGED <<page, tab, transport, current, up, owner, holds, nav, handlers, entry>>
       PROVE  HoldInv'
  <2>1. msgs \in Seq(DownMessages) /\ \A i \in 1..Len(msgs) : msgs[i].kind # "goto"
    <3>1. CASE msgs = <<activate>>
      BY <1>7, <3>1
    <3>2. CASE msgs = <<off, activate>>
      <4>1. msgs \in Seq(DownMessages) /\ Len(msgs) = 2 /\ msgs[1] = off /\ msgs[2] = activate
        BY <1>7, <3>2
      <4>2. \A i \in 1..Len(msgs) : i = 1 \/ i = 2
        BY <4>1
      <4> QED BY <1>7, <4>1, <4>2
    <3> QED BY <1>11, <3>1, <3>2
  <2>2. NothingAsked
    BY <1>0, <1>4, <1>11, <2>1
  <2> QED BY <1>1, <1>11, <2>2
<1>12. Tab!Teardown(o) => HoldInv'
  BY <1>3, <1>8, <1>10 DEF Tab!Teardown
<1>13. Tab!Deactivate(o) => HoldInv'
  BY <1>3, <1>5, <1>8, <1>10 DEF Tab!Deactivate
<1>14. Tab!Reactivate(o) => HoldInv'
  BY <1>5, <1>6, <1>11 DEF Tab!Reactivate
<1>15. Tab!FindTab(o) => HoldInv'
  BY <1>3, <1>6, <1>11 DEF Tab!FindTab
<1>16. Tab!ReadEnabled(o) \/ Tab!WriteEnabled(o) \/ Tab!FindNoTab(o) \/ Tab!DropRoute(o)
         => HoldInv'
  BY <1>2 DEF Tab!ReadEnabled, Tab!WriteEnabled, Tab!FindNoTab, Tab!DropRoute
<1>17. ASSUME NEW t \in Tabs PROVE Tab!StartDisable(o, t) => HoldInv'
  BY <1>2 DEF Tab!StartDisable
<1>18. ASSUME NEW kind, NEW m, NEW t \in Tabs PROVE Tab!StartRequest(o, kind, t, m) => HoldInv'
  BY <1>2 DEF Tab!StartRequest
<1> QED BY <1>12, <1>13, <1>14, <1>15, <1>16, <1>17, <1>18 DEF Tab!OpStep

\* What is asked of a page that is listed, and what befalls the sockets and the worker.
LEMMA OutsideHolds ==
  ASSUME TabInv, HoldInv
  PROVE  /\ \A p \in Tab!Providers, kind \in {"ask", "goto"} : Tab!BridgeAsks(p, kind) => HoldInv'
         /\ \A t \in Tabs : Tab!BounceTabSockets(t) => HoldInv'
         /\ Tab!KeepAlive \/ Tab!Recycled \/ Tab!Booted => HoldInv'
<1> USE DEF Tab!storage, Tab!pages
<1>0. /\ MessagesInv /\ PagesInv /\ WaitsInv /\ PathsLead /\ DOMAIN nav = Tab!Providers
      /\ UNCHANGED down => NothingAsked
      /\ \A q \in Tab!Providers : IsEntry(entry[q])
  <2>1. /\ MessagesInv /\ PagesInv /\ WaitsInv /\ PathsLead /\ DOMAIN nav = Tab!Providers
    BY DEF HoldInv, WaitsInv, HoldsCover, TabInv
  <2>2. \A q \in Tab!Providers : IsEntry(entry[q])
    BY DEF TabInv, EntriesSound, SocketKnown
  <2> QED BY <2>1, <2>2, TellingAsksNothing
<1>1. /\ down \in [Tab!Ports -> Seq(DownMessages)] /\ <<>> \in Seq(DownMessages)
      /\ MaxProviders \in Nat /\ Tab!Providers = 1..MaxProviders
  BY <1>0, PortNumbers DEF MessagesInv, AsksItsOwn
<1>2. ASSUME NothingAsked, UNCHANGED <<page, tab, transport, current, up, owner, holds, nav>>,
             handlers' \subseteq handlers,
             \A p \in Tab!Providers :
               /\ entry'[p].listed => entry[p].listed
               /\ \/ entry'[p].dials = entry[p].dials \/ entry[p].dials # 0
                  \/ entry[p].listed /\ holds[tab[owner[p]]] = 0
      PROVE  HoldInv'
  <2>1. UNCHANGED current /\ DOMAIN nav' = Tab!Providers
        /\ \A p \in Tab!Providers : nav'[p] = "none" <=> nav[p] = "none"
    BY <1>0, <1>2
  <2> QED BY <1>2, <2>1, WorkerHolds
<1>3. ASSUME NEW p \in Tab!Providers, NEW kind \in {"ask", "goto"}, Tab!BridgeAsks(p, kind)
      PROVE  HoldInv'
  <2>1. PICK msg : msg = [kind |-> kind, p |-> p]
    OBVIOUS
  <2>2. /\ entry[p].listed /\ Tab!Tell(owner[p], <<msg>>)
        /\ UNCHANGED <<page, tab, transport, current, up, owner, holds, nav, entry, handlers>>
    BY <1>3, <2>1 DEF Tab!BridgeAsks
  <2>3. msg \in DownMessages /\ msg.kind = kind /\ msg.p = p
    BY <1>1, <2>1 DEF DownMessages
  <2>4. owner[p] \in Tab!Ports
    BY <1>0, <2>2 DEF PathsLead
  <2>5. <<msg>> \in Seq(DownMessages) /\ Len(<<msg>>) = 1 /\ <<msg>>[1] = msg
    BY <2>3
  <2>6. CASE kind = "ask"
    <3>1. NothingAsked
      <4>1. \A i \in 1..Len(<<msg>>) : <<msg>>[i].kind # "goto"
        BY <2>3, <2>5, <2>6
      <4> QED BY <1>0, <2>2, <2>4, <2>5, <4>1, TellingAsksNothing
    <3> QED BY <1>2, <2>2, <3>1
  <2>7. CASE kind = "goto"
    <3>1. PICK s \in Tab!Ports : s = owner[p]
      BY <2>4
    <3>2. /\ down[s] \in Seq(DownMessages) /\ Len(down[s]) \in Nat
          /\ down[s] \o <<msg>> \in Seq(DownMessages)
          /\ Len(down[s] \o <<msg>>) = Len(down[s]) + 1
          /\ \A i \in 1..(Len(down[s]) + 1) :
               (down[s] \o <<msg>>)[i] = IF i <= Len(down[s]) THEN down[s][i] ELSE msg
      <4>1. PICK queue : queue = down[s]
        OBVIOUS
      <4>2. queue \in Seq(DownMessages) /\ Len(queue) \in Nat
        BY <1>1, <4>1
      <4>3. /\ queue \o <<msg>> \in Seq(DownMessages)
            /\ Len(queue \o <<msg>>) = Len(queue) + 1
        BY <2>5, <4>2
      <4>4. ASSUME NEW i \in 1..(Len(queue) + 1)
            PROVE  (queue \o <<msg>>)[i] = IF i <= Len(queue) THEN queue[i] ELSE msg
        <5>1. CASE i <= Len(queue)
          BY <2>5, <4>2, <4>4, <5>1
        <5>2. CASE ~(i <= Len(queue))
          <6>1. i = Len(queue) + 1
            BY <4>2, <4>4, <5>2
          <6> QED BY <2>5, <4>2, <5>2, <6>1
        <5> QED BY <5>1, <5>2
      <4> QED BY <4>1, <4>2, <4>3, <4>4
    <3>3. down' = [down EXCEPT ![s] = down[s] \o <<msg>>]
      BY <2>2, <3>1 DEF Tab!Tell
    <3>4. /\ down' \in [Tab!Ports -> Seq(DownMessages)]
          /\ \A r \in Tab!Ports : down'[r] = IF r = s THEN down[s] \o <<msg>> ELSE down[r]
      BY <1>1, <3>2, <3>3
    <3>5. \A r \in Tab!Ports : \A i \in 1..Len(down'[r]) :
            \/ i \in 1..Len(down[r]) /\ down'[r][i] = down[r][i]
            \/ r = s /\ down'[r][i] = msg
      BY <3>2, <3>4
    <3>6. AsksItsOwn'
      <4>1. \A r \in Tab!Ports : \A i \in 1..Len(down[r]) : down[r][i].kind = "goto" =>
              down[r][i].p \in Tab!Providers /\ owner[down[r][i].p] = r
        BY <1>0 DEF MessagesInv, AsksItsOwn
      <4>2. \A r \in Tab!Ports : \A i \in 1..Len(down'[r]) : down'[r][i].kind = "goto" =>
              down'[r][i].p \in Tab!Providers /\ owner[down'[r][i].p] = r
        BY <2>3, <3>1, <3>5, <4>1
      <4> QED BY <1>0, <2>2, <3>4, <4>2 DEF MessagesInv, AsksItsOwn
    <3>7. OpensOnce'
      BY <1>0, <2>2 DEF MessagesInv, OpensOnce
    <3>8. \A kind_, q : OnItsWay(kind_, q)' = OnItsWay(kind_, q)
      BY <2>2 DEF OnItsWay
    <3>9. \A q : Requested(q)' => Requested(q) \/ q = p
      BY <2>3, <3>5 DEF Requested
    <3>10. ~OnItsWay("open", p)
      BY <1>0, <2>2 DEF MessagesInv, OpensFirst
    <3>11. OpensFirst'
      BY <1>0, <2>2, <3>8, <3>9, <3>10 DEF MessagesInv, OpensFirst
    <3>12. AskedByTheLast'
      BY <1>0, <2>2, <3>8 DEF MessagesInv, AskedByTheLast
    <3>13. PagesInv' /\ WaitsInv'
      <4>1. PagesInv'
        BY <1>0, <2>2 DEF PagesInv
      <4>2. \A t : Navigating(t)' = Navigating(t)
        BY <2>2 DEF Navigating
      <4>3. HoldsCover'
        BY <1>0, <2>2, <4>2 DEF WaitsInv, HoldsCover
      <4>4. UnusedAreIdle' /\ LaterOnesWait'
        BY <1>0, <2>2 DEF WaitsInv, UnusedAreIdle, LaterOnesWait
      <4> QED BY <4>1, <4>3, <4>4 DEF WaitsInv
    <3> QED BY <3>6, <3>7, <3>11, <3>12, <3>13 DEF HoldInv, MessagesInv
  <2> QED BY <1>3, <2>6, <2>7
<1>4. ASSUME NEW t \in Tabs, Tab!BounceTabSockets(t) PROVE HoldInv'
  <2>1. /\ UNCHANGED down /\ handlers' \subseteq handlers
        /\ UNCHANGED <<page, tab, transport, current, up, owner, holds, nav>>
    BY <1>4 DEF Tab!BounceTabSockets
  <2>2. ASSUME NEW p \in Tab!Providers
        PROVE  entry'[p].listed = entry[p].listed /\ entry'[p].dials = entry[p].dials
    <3>1. PICK e : e = [entry[p] EXCEPT !.ws = "closing"]
      OBVIOUS
    <3>2. entry'[p] \in {entry[p], e}
      BY <1>4, <3>1 DEF Tab!BounceTabSockets
    <3>3. e.listed = entry[p].listed /\ e.dials = entry[p].dials
      BY <1>0, <3>1 DEF IsEntry
    <3> QED BY <3>2, <3>3
  <2> QED BY <1>0, <1>2, <2>1, <2>2
<1>5. ASSUME Tab!KeepAlive PROVE HoldInv'
  <2>1. /\ UNCHANGED down /\ handlers' \subseteq handlers
        /\ UNCHANGED <<page, tab, transport, current, up, owner, holds, nav>>
    BY <1>5 DEF Tab!KeepAlive
  <2>2. ASSUME NEW p \in Tab!Providers
        PROVE  /\ entry'[p].listed = entry[p].listed
               /\ \/ entry'[p].dials = entry[p].dials
                  \/ entry[p].listed /\ holds[tab[owner[p]]] = 0
    <3>1. PICK e : e = [entry[p] EXCEPT !.timer = FALSE]
      OBVIOUS
    <3>2. PICK hold : hold = holds[tab[owner[p]]]
      OBVIOUS
    <3>3. entry'[p] \in {entry[p], Tab!ConnectSocket(e, hold)}
      BY <1>5, <3>1, <3>2 DEF Tab!KeepAlive
    <3>4. IsEntry(e) /\ e.listed = entry[p].listed /\ e.dials = entry[p].dials
      BY <1>0, <3>1 DEF IsEntry
    <3>5. /\ Tab!ConnectSocket(e, hold).listed = e.listed
          /\ Tab!ConnectSocket(e, hold).dials = e.dials \/ (hold = 0 /\ e.listed)
      BY <3>4, EntryDials
    <3> QED BY <3>2, <3>3, <3>4, <3>5
  <2> QED BY <1>0, <1>2, <2>1, <2>2
<1>6. ASSUME Tab!Booted PROVE HoldInv'
  <2>1. /\ UNCHANGED down /\ handlers' \subseteq handlers /\ UNCHANGED entry
        /\ UNCHANGED <<page, tab, transport, current, up, owner, holds, nav>>
    BY <1>6 DEF Tab!Booted
  <2> QED BY <1>0, <1>2, <2>1
<1>7. ASSUME Tab!Recycled PROVE HoldInv'
  <2>1. /\ current' = [t \in Tabs |-> 0] /\ holds' = [t \in Tabs |-> 0]
        /\ page' = [s \in Tab!Ports |->
                      IF s \in Tab!Ports /\ page[s] = "live" THEN "left" ELSE page[s]]
        /\ transport' = [s \in Tab!Ports |-> IF s \in Tab!Ports THEN 0 ELSE transport[s]]
        /\ down' = [s \in Tab!Ports |-> IF s \in Tab!Ports THEN <<>> ELSE down[s]]
        /\ up' = [s \in Tab!Ports |-> <<>>]
        /\ entry' = [p \in Tab!Providers |-> Tab!Unused]
        /\ nav' = [p \in Tab!Providers |-> "none"] /\ handlers' = {}
        /\ UNCHANGED <<tab, owner>>
    BY <1>7 DEF Tab!Recycled, Tab!ContentDisconnects
  <2>2. ~Tab!Unused.listed /\ Tab!Unused.dials = 0
    BY DEF Tab!Unused
  <2>3. /\ \A s \in Tab!Ports : /\ page'[s] # "none" <=> page[s] # "none"
                                /\ page'[s] # "live" /\ transport'[s] = 0
                                /\ up'[s] = <<>> /\ down'[s] = <<>>
        /\ down' \in [Tab!Ports -> Seq(DownMessages)]
    BY <1>1, <2>1
  <2>4. Len(<<>>) = 0 /\ \A i : i \notin 1..0
    OBVIOUS
  <2>5. /\ \A s \in Tab!Ports : \A i : i \notin 1..Len(up'[s])
        /\ \A s \in Tab!Ports : \A i : i \notin 1..Len(down'[s])
    BY <2>3, <2>4
  <2>6. PagesInv'
    BY <1>0, <2>1, <2>3, PagesKept
  <2>7. MessagesInv'
    <3>1. \A q \in Tab!Providers : ~entry'[q].listed
      BY <2>1, <2>2
    <3>2. AsksItsOwn'
      BY <2>1, <2>3, <2>5 DEF AsksItsOwn
    <3>3. OpensOnce'
      BY <2>1, <2>5 DEF OpensOnce
    <3>4. \A kind, q : ~OnItsWay(kind, q)'
      BY <2>1, <2>5 DEF OnItsWay
    <3> QED BY <3>1, <3>2, <3>3, <3>4 DEF MessagesInv, OpensFirst, AskedByTheLast
  <2>8. WaitsInv'
    <3>1. \A t : Navigating(t)' = {}
      BY <2>1 DEF Navigating
    <3>2. Cardinality({}) = 0
      BY FS_EmptySet
    <3>3. \A t \in Tabs : holds'[t] = 0 /\ Cardinality(Navigating(t))' = 0
      <4>1. \A t : Cardinality(Navigating(t))' = 0
        BY <3>1, <3>2
      <4> QED BY <2>1, <4>1
    <3>4. DOMAIN holds' = Tabs /\ DOMAIN nav' = Tab!Providers
      BY <2>1
    <3>5. HoldsCover'
      BY <3>3, <3>4 DEF HoldsCover
    <3>6. UnusedAreIdle' /\ LaterOnesWait'
      BY <2>1, <2>2 DEF UnusedAreIdle, LaterOnesWait
    <3> QED BY <3>5, <3>6 DEF WaitsInv
  <2> QED BY <2>6, <2>7, <2>8 DEF HoldInv
<1> QED BY <1>3, <1>4, <1>5, <1>6, <1>7

\* The worker's tabs keep what is known of holds.
LEMMA HoldsStaySound ==
  /\ Init => HoldInv
  /\ TabInv /\ HoldInv /\ [Next]_extensionVars => HoldInv'
<1>1. ASSUME Init PROVE HoldInv
  <2>1. /\ current = [t \in Tabs |-> 0] /\ holds = [t \in Tabs |-> 0]
        /\ page = [s \in Tab!Ports |-> "none"] /\ transport = [s \in Tab!Ports |-> 0]
        /\ up = [s \in Tab!Ports |-> <<>>] /\ down = [s \in Tab!Ports |-> <<>>]
        /\ owner = [p \in Tab!Providers |-> 0] /\ entry = [p \in Tab!Providers |-> Tab!Unused]
        /\ nav = [p \in Tab!Providers |-> "none"] /\ handlers = {}
    BY <1>1 DEF Init, Tab!Init
  <2>2. ~Tab!Unused.listed /\ Tab!Unused.dials = 0
    BY DEF Tab!Unused
  <2>3. Len(<<>>) = 0 /\ <<>> \in Seq(DownMessages) /\ \A i : i \notin 1..0
    OBVIOUS
  <2>4. /\ \A s \in Tab!Ports : \A i : i \notin 1..Len(up[s])
        /\ \A s \in Tab!Ports : \A i : i \notin 1..Len(down[s])
    BY <2>1, <2>3
  <2>5. PagesInv
    BY <2>1 DEF PagesInv
  <2>6. AsksItsOwn /\ OpensOnce
    BY <2>1, <2>3, <2>4 DEF AsksItsOwn, OpensOnce
  <2>7. \A kind, q : ~OnItsWay(kind, q)
    BY <2>1, <2>4 DEF OnItsWay
  <2>8. MessagesInv
    BY <2>6, <2>7 DEF MessagesInv, OpensFirst, AskedByTheLast
  <2>9. \A t : Navigating(t) = {}
    BY <2>1 DEF Navigating
  <2>10. Cardinality({}) = 0
    BY FS_EmptySet
  <2>11. HoldsCover
    <3>1. \A t : Cardinality(Navigating(t)) = 0
      BY <2>9, <2>10
    <3>2. \A t \in Tabs : holds[t] = 0 /\ Cardinality(Navigating(t)) = 0
      BY <2>1, <3>1
    <3>3. DOMAIN holds = Tabs /\ DOMAIN nav = Tab!Providers
      BY <2>1
    <3> QED BY <3>2, <3>3 DEF HoldsCover
  <2>12. UnusedAreIdle /\ LaterOnesWait
    BY <2>1, <2>2 DEF UnusedAreIdle, LaterOnesWait
  <2> QED BY <2>5, <2>8, <2>11, <2>12 DEF HoldInv, WaitsInv
<1>2. ASSUME TabInv, HoldInv, [Next]_extensionVars PROVE HoldInv'
  <2>1. CASE UNCHANGED tabPart
    <3>1. /\ UNCHANGED <<page, tab, transport, current, up, down, owner, holds, nav, handlers>>
          /\ UNCHANGED entry
      BY <2>1 DEF tabPart
    <3>2. NothingAsked /\ handlers' \subseteq handlers /\ UNCHANGED current
          /\ DOMAIN nav' = Tab!Providers
      BY <1>2, <3>1, TellingAsksNothing DEF HoldInv, WaitsInv, HoldsCover
    <3>3. /\ \A p \in Tab!Providers : nav'[p] = "none" <=> nav[p] = "none"
          /\ \A t \in Tabs : current'[t] \in {0, current[t]}
          /\ \A s \in Tab!Ports : page[s] = "live" => current'[tab[s]] = current[tab[s]]
          /\ \A p \in Tab!Providers :
               /\ entry'[p].listed => entry[p].listed /\ (current[tab[owner[p]]] = owner[p] =>
                                                            current'[tab[owner[p]]] = owner[p])
               /\ entry'[p].dials = entry[p].dials
      BY <3>1
    <3> QED BY <1>2, <3>1, <3>2, <3>3, WorkerHolds
  <2>2. CASE Tab!Next
    <3>0. TabInv /\ HoldInv
      BY <1>2
    <3>1. ASSUME NEW p \in Tab!Providers, Tab!SocketStep(p) \/ Tab!NavStep(p) PROVE HoldInv'
      BY <3>0, <3>1, SocketsHold, NavigationsHold
    <3>2. ASSUME NEW s \in Tab!Ports, Tab!PortStep(s) \/ Tab!Unload(s) PROVE HoldInv'
      BY <3>0, <3>2, PortsHold, PageHandlesHolds, HandleUpHolds DEF Tab!PortStep
    <3>3. ASSUME NEW h \in handlers, Tab!HandlerStep(h) PROVE HoldInv'
      BY <3>0, <3>3, HandlersHold
    <3>4. ASSUME NEW o \in Ops, Tab!OpStep(o) PROVE HoldInv'
      BY <3>0, <3>4, RequestsHold
    <3>5. ASSUME NEW o \in Ops, NEW t \in Tabs, Tab!StartDisable(o, t) \/ Tab!TabRemoved(o, t)
          PROVE  HoldInv'
      BY <3>0, <3>5, RequestsHold, PortsHold
    <3>6. ASSUME NEW o \in Ops, NEW kind, NEW t \in Tabs, NEW m, Tab!StartRequest(o, kind, t, m)
          PROVE  HoldInv'
      BY <3>0, <3>6, RequestsHold
    <3>7. ASSUME NEW t \in Tabs, Tab!Connect(t) \/ Tab!BounceTabSockets(t) PROVE HoldInv'
      BY <3>0, <3>7, ConnectHolds, OutsideHolds
    <3>8. ASSUME NEW p \in Tab!Providers, NEW kind \in {"ask", "goto"}, Tab!BridgeAsks(p, kind)
          PROVE  HoldInv'
      BY <3>0, <3>8, OutsideHolds
    <3>9. Tab!KeepAlive \/ Tab!Recycled \/ Tab!Booted => HoldInv'
      BY <3>0, OutsideHolds
    <3> QED BY <3>1, <3>2, <3>3, <3>4, <3>5, <3>6, <3>7, <3>8, <3>9, <2>2 DEF Tab!Next
  <2> QED BY <2>1, <2>2, <1>2 DEF Next, extensionVars
<1> QED BY <1>1, <1>2

\* A socket starts to connect only by a dial.
LEMMA OnlyDialsConnect ==
  ASSUME TabInv, Tab!Next, NEW p \in Tab!Providers, entry[p].ws = "none",
         entry'[p].ws = "connecting"
  PROVE  entry[p].dials # 0
<1>0. DOMAIN entry = Tab!Providers /\ \A q \in Tab!Providers : IsEntry(entry[q])
  BY DEF TabInv, EntriesSound, SocketKnown
<1>1. \A e : IsEntry(e) =>
        /\ \A hold : Tab!ConnectSocket(e, hold).ws = e.ws
        /\ Tab!CloseSocket(e).ws \in {e.ws, "closing"}
        /\ Tab!SendToSocket(e).ws = e.ws
  <2>1. ASSUME NEW e, IsEntry(e), NEW hold PROVE Tab!ConnectSocket(e, hold).ws = e.ws
    BY <2>1 DEF Tab!ConnectSocket, IsEntry
  <2>2. ASSUME NEW e, IsEntry(e) PROVE Tab!CloseSocket(e).ws \in {e.ws, "closing"}
    BY <2>2 DEF Tab!CloseSocket, IsEntry
  <2>3. ASSUME NEW e, IsEntry(e) PROVE Tab!SendToSocket(e).ws = e.ws
    BY <2>3 DEF Tab!SendToSocket, IsEntry
  <2> QED BY <2>1, <2>2, <2>3
<1>2. ASSUME UNCHANGED entry PROVE FALSE
  BY <1>2
<1>3. ASSUME NEW s, Tab!CloseAllSockets(s) PROVE FALSE
  <2>1. entry'[p] \in {entry[p], Tab!CloseSocket(entry[p])}
    BY <1>3 DEF Tab!CloseAllSockets
  <2> QED BY <1>0, <1>1, <2>1
<1>4. ASSUME NEW q \in Tab!Providers, NEW f, entry' = [entry EXCEPT ![q] = f],
             f.ws \in {entry[q].ws, "none", "open", "closing"}
      PROVE  FALSE
  BY <1>0, <1>4
<1>5. ASSUME NEW q \in Tab!Providers, Tab!Dial(q)
      PROVE  entry[p].dials # 0
  <2>1. /\ entry[q].dials > 0
        /\ \A r \in Tab!Providers : r # q => entry'[r] = entry[r]
    BY <1>0, <1>5 DEF Tab!Dial
  <2> QED BY <2>1
<1>6. ASSUME NEW q \in Tab!Providers, Tab!SocketOpens(q) \/ Tab!SocketCloses(q) PROVE FALSE
  <2>1. PICK f : f \in {[entry[q] EXCEPT !.ws = "open", !.queued = FALSE],
                        [entry[q] EXCEPT !.ws = "none", !.live = @ - 1, !.queued = FALSE,
                           !.timer = @ \/ (entry[q].wanted /\ entry[q].listed)]}
                 /\ entry' = [entry EXCEPT ![q] = f]
    BY <1>0, <1>6 DEF Tab!SocketOpens, Tab!SocketCloses
  <2>2. f.ws \in {"open", "none"}
    BY <1>0, <2>1 DEF IsEntry
  <2> QED BY <1>4, <2>1, <2>2
<1>7. ASSUME NEW q \in Tab!Providers, Tab!Reconnect(q) PROVE FALSE
  <2>1. PICK e : e = [entry[q] EXCEPT !.timer = FALSE]
    OBVIOUS
  <2>2. PICK f : f = Tab!ConnectSocket(e, holds[tab[owner[q]]])
    OBVIOUS
  <2>3. entry' = [entry EXCEPT ![q] = f]
    BY <1>7, <2>1, <2>2 DEF Tab!Reconnect
  <2>4. IsEntry(e) /\ e.ws = entry[q].ws
    BY <1>0, <2>1 DEF IsEntry
  <2>5. f.ws = entry[q].ws
    BY <1>1, <2>2, <2>4
  <2> QED BY <1>4, <2>3, <2>5
<1>8. ASSUME NEW q \in Tab!Providers, NEW entries, Tab!LetGo(q, entries),
             entries[p].ws = "none" /\ IsEntry(entries[p])
      PROVE  FALSE
  <2>1. entry'[p] \in {entries[p], Tab!ConnectSocket(entries[p], 0)}
    BY <1>8 DEF Tab!LetGo
  <2> QED BY <1>1, <1>8, <2>1
<1>9. ASSUME NEW q \in Tab!Providers, Tab!NavStep(q) PROVE FALSE
  <2>1. CASE Tab!Release(q) /\ entry[q].listed
    <3>1. PICK f : f = [entry[q] EXCEPT !.held = FALSE]
      OBVIOUS
    <3>2. PICK entries : entries = [entry EXCEPT ![q] = f]
      OBVIOUS
    <3>3. [entry EXCEPT ![q].held = FALSE] = entries
      BY <1>0, <3>1, <3>2
    <3>4. Tab!LetGo(q, entries)
      BY <2>1, <3>3 DEF Tab!Release
    <3>5. IsEntry(f) /\ f.ws = entry[q].ws
      BY <1>0, <3>1 DEF IsEntry
    <3>6. entries[p].ws = "none" /\ IsEntry(entries[p])
      BY <1>0, <3>2, <3>5
    <3> QED BY <1>8, <3>4, <3>6
  <2>2. CASE Tab!Release(q) /\ ~entry[q].listed
    <3>1. PICK f : f = [entry[q] EXCEPT !.held = FALSE,
                          !.ws = IF @ = "none" THEN @ ELSE "closing"]
      OBVIOUS
    <3>2. entry' = [entry EXCEPT ![q] = f]
      BY <1>0, <2>2, <3>1 DEF Tab!Release
    <3>3. f.ws \in {entry[q].ws, "closing"}
      BY <1>0, <3>1 DEF IsEntry
    <3> QED BY <1>4, <3>2, <3>3
  <2>3. CASE Tab!SettleTimeout(q)
    BY <1>2, <2>3 DEF Tab!SettleTimeout
  <2>4. CASE Tab!Finish(q)
    BY <1>0, <1>8, <2>4 DEF Tab!Finish
  <2> QED BY <1>9, <2>1, <2>2, <2>3, <2>4 DEF Tab!NavStep
<1>10. ASSUME NEW s \in Tab!Ports, Tab!PortStep(s) \/ Tab!Unload(s) PROVE FALSE
  <2>1. CASE Tab!OnDisconnect(s)
    BY <1>3, <2>1 DEF Tab!OnDisconnect
  <2>2. CASE Tab!PageHandles(s) \/ Tab!Unload(s)
    BY <1>2, <2>2 DEF Tab!PageHandles, Tab!Unload
  <2>3. CASE Tab!HandleUp(s)
    <3>1. PICK q : q = Head(up[s]).p
      OBVIOUS
    <3>2. \/ UNCHANGED entry \/ entry' = [entry EXCEPT ![q] = Tab!SendToSocket(@)]
          \/ entry' = [entry EXCEPT ![q] = Tab!CloseSocket(@)]
      BY <2>3, <3>1 DEF Tab!HandleUp
    <3>3. entry'[p] \in {entry[p], Tab!SendToSocket(entry[p]), Tab!CloseSocket(entry[p])}
      BY <1>0, <3>2
    <3> QED BY <1>0, <1>1, <3>3
  <2> QED BY <1>10, <2>1, <2>2, <2>3 DEF Tab!PortStep
<1>11. ASSUME NEW h \in handlers, Tab!HandlerStep(h) PROVE FALSE
  <2>1. CASE Tab!NotEnabled(h) \/ Tab!Greeted(h)
    BY <1>2, <2>1 DEF Tab!NotEnabled, Tab!Greeted
  <2>2. CASE Tab!Opened(h)
    <3>1. PICK e : e = [entry[h.p] EXCEPT !.listed = TRUE, !.wanted = TRUE]
      OBVIOUS
    <3>2. PICK f : f = Tab!ConnectSocket(e, holds[tab[h.port]])
      OBVIOUS
    <3>3. UNCHANGED entry \/ entry' = [entry EXCEPT ![h.p] = f]
      BY <2>2, <3>1, <3>2 DEF Tab!Opened
    <3>4. h.p = p => IsEntry(e) /\ e.ws = "none"
      BY <1>0, <3>1 DEF IsEntry
    <3>5. h.p = p => f.ws = "none"
      BY <1>1, <3>2, <3>4
    <3> QED BY <1>0, <3>3, <3>5
  <2>3. CASE Tab!Hold(h)
    <3>1. PICK f : f = [entry[h.p] EXCEPT !.held = TRUE]
      OBVIOUS
    <3>2. UNCHANGED entry \/ (entry' = [entry EXCEPT ![h.p] = f] /\ entry[h.p].ws = "open")
      BY <2>3, <3>1 DEF Tab!Hold
    <3> QED BY <1>0, <3>2
  <2> QED BY <1>11, <2>1, <2>2, <2>3 DEF Tab!HandlerStep
<1>12. ASSUME NEW o \in Ops, Tab!OpStep(o) PROVE FALSE
  <2>1. CASE Tab!Teardown(o) \/ Tab!Deactivate(o)
    BY <1>3, <2>1 DEF Tab!Teardown, Tab!Deactivate
  <2>2. CASE ~(Tab!Teardown(o) \/ Tab!Deactivate(o))
    BY <1>2, <1>12, <2>2
    DEF Tab!OpStep, Tab!Reactivate, Tab!ReadEnabled, Tab!WriteEnabled, Tab!FindTab,
        Tab!FindNoTab, Tab!DropRoute
  <2> QED BY <2>1, <2>2
<1>13. ASSUME NEW o \in Ops, NEW t \in Tabs, Tab!StartDisable(o, t) \/ Tab!TabRemoved(o, t)
       PROVE  FALSE
  BY <1>2, <1>3, <1>13 DEF Tab!StartDisable, Tab!TabRemoved
<1>14. ASSUME NEW o \in Ops, NEW kind, NEW t \in Tabs, NEW m, Tab!StartRequest(o, kind, t, m)
       PROVE  FALSE
  BY <1>2, <1>14 DEF Tab!StartRequest
<1>15. ASSUME NEW t \in Tabs, Tab!Connect(t) \/ Tab!BounceTabSockets(t) PROVE FALSE
  <2>1. CASE Tab!Connect(t)
    BY <1>3, <2>1 DEF Tab!Connect
  <2>2. CASE Tab!BounceTabSockets(t)
    BY <2>2 DEF Tab!BounceTabSockets
  <2> QED BY <1>15, <2>1, <2>2
<1>16. ASSUME NEW q, NEW kind, Tab!BridgeAsks(q, kind) PROVE FALSE
  BY <1>2, <1>16 DEF Tab!BridgeAsks
<1>17. ASSUME Tab!KeepAlive PROVE FALSE
  <2>1. PICK e : e = [entry[p] EXCEPT !.timer = FALSE]
    OBVIOUS
  <2>2. PICK f : f = Tab!ConnectSocket(e, holds[tab[owner[p]]])
    OBVIOUS
  <2>3. entry'[p] \in {entry[p], f}
    BY <1>17, <2>1, <2>2 DEF Tab!KeepAlive
  <2>4. IsEntry(e) /\ e.ws = "none"
    BY <1>0, <2>1 DEF IsEntry
  <2>5. f.ws = "none"
    BY <1>1, <2>2, <2>4
  <2> QED BY <2>3, <2>5
<1>18. ASSUME Tab!Recycled PROVE FALSE
  <2>1. entry'[p] = Tab!Unused
    BY <1>18 DEF Tab!Recycled
  <2> QED BY <2>1 DEF Tab!Unused
<1>19. ASSUME Tab!Booted PROVE FALSE
  BY <1>2, <1>19 DEF Tab!Booted
<1> QED
  BY <1>5, <1>6, <1>7, <1>9, <1>10, <1>11, <1>12, <1>13, <1>14, <1>15, <1>16, <1>17, <1>18, <1>19
  DEF Tab!Next, Tab!SocketStep

\* While a navigation owes its reply on the socket of the page that left, no page that the
\* tab loaded after it starts to connect: whatever was announced, asked, lost or switched in
\* between, and however many navigations are under way.
THEOREM HeldSocketsComeFirst == Spec => HeldSocketComesFirst
<1>1. ASSUME TabInv, HoldInv, [Next]_extensionVars
      PROVE  [\A p, q \in Tab!Providers :
                ( /\ entry[p].ws = "none" /\ entry'[p].ws = "connecting"
                  /\ owner[q] \in 1..(owner[p] - 1) /\ tab[owner[q]] = tab[owner[p]] )
                => nav[q] = "none"]_(Tab!vars)
  <2>1. CASE UNCHANGED <<tabPart, left>>
    BY <2>1 DEF tabPart, Tab!vars, Tab!storage, Tab!pages
  <2>2. CASE Tab!Next
    <3>1. ASSUME NEW p \in Tab!Providers, NEW q \in Tab!Providers,
                 entry[p].ws = "none", entry'[p].ws = "connecting",
                 owner[q] \in 1..(owner[p] - 1), tab[owner[q]] = tab[owner[p]],
                 nav[q] # "none"
          PROVE  FALSE
      <4>1. entry[p].dials # 0
        BY <1>1, <2>2, <3>1, OnlyDialsConnect
      <4>2. entry[p].dials = 0
        BY <1>1, <3>1 DEF HoldInv, WaitsInv, LaterOnesWait
      <4> QED BY <4>1, <4>2
    <3> QED BY <3>1
  <2>3. CASE ~Tab!Next /\ ~UNCHANGED <<tabPart, left>>
    <3>1. UNCHANGED tabPart
      BY <1>1, <2>3 DEF Next, extensionVars
    <3>2. UNCHANGED entry
      BY <3>1 DEF tabPart
    <3> QED BY <3>2
  <2> QED BY <2>1, <2>2, <2>3
<1>2. (Init => TabInv) /\ (TabInv /\ [Next]_extensionVars => TabInv')
  BY TabsStaySound
<1>3. (Init => HoldInv) /\ (TabInv /\ HoldInv /\ [Next]_extensionVars => HoldInv')
  BY HoldsStaySound
<1> QED BY <1>1, <1>2, <1>3, PTL DEF Spec, HeldSocketComesFirst, Tab!HeldSocketComesFirst
=============================================================================
