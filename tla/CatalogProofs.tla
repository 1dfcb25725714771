---------------------------- MODULE CatalogProofs ----------------------------
(***************************************************************************)
(* Proofs that Bridge's agents and catalogs converge: no listing and no    *)
(* stored catalog is stale once nothing is on its way, and what is listed  *)
(* is what is routed.                                                      *)
(*                                                                         *)
(* NoStaleListing: ShownInv says it of every agent and session that is     *)
(* registered (ListingInv), that who is live is registered (ListenerInv),  *)
(* and that a provider enters `providers` with empty catalogs (EarlyInv),  *)
(* so registering one changes what nobody sees.                            *)
(*                                                                         *)
(* AdvertisedIsRouted: the tables are those of the present providers and   *)
(* catalogs outside the window between a store and its rebuild             *)
(* (TablesCurrent), for the same reason; and such tables agree with the    *)
(* listings (CurrentTablesAgree) if names of different labels differ.      *)
(*                                                                         *)
(* NoStaleCatalog: Due(c, k) says that a change is still on its way to a   *)
(* fetch, Fresh(c, k) that the fetch under way has what is on the pages    *)
(* before its own, the responses on the wire what is on theirs, and, where *)
(* no fetch owns the catalog, that what is stored is the page's. FreshInv: *)
(* no change due => Fresh. It rests on who owns a fetch (OwnedInv), on     *)
(* what attachProvider still has to do (TodoInv) and on what is asked of   *)
(* the page (AskInv). All are inductive relative to the invariants of      *)
(* BridgeProofs.                                                           *)
(***************************************************************************)
EXTENDS BridgeProofs

-----------------------------------------------------------------------------
(***************************************************************************)
(* What agents and sessions have listed.                                   *)
(***************************************************************************)
\* A connection that is not registered yet has nothing in its catalogs and nobody who
\* fetches them.
Early(c) == attach[c] \in {"none", "init", "built"}

EarlyInv ==
  \A c \in Conns : Early(c) =>
    /\ \A k \in Kinds : catalog[c][k] = {} /\ spawned[c][k] = 0
    /\ \A p \in Procs : job[p].at = "idle" \/ job[p].conn # c

\* Who is live is registered, and a newcomer has listed nothing.
Newcomer(l) == (l \in Agents /\ attach[l] = "none") \/ (l \in Sessions /\ sess[l] = "none")

ListenerInv ==
  /\ view = [l \in Listeners |-> [k \in Kinds |-> view[l][k]]]
  /\ \A a \in Agents : (attach[a] \in {"built", "served"} /\ peer[a] = "open") => a \in agents
  /\ \A s \in Sessions : sess[s] = "open" => s \in sessions
  /\ \A l \in Listeners, k \in Kinds : Newcomer(l) => view[l][k] = Unlisted

\* NoStaleListing, of everybody who is registered.
Listed(l, k) ==
  (view[l][k] # Unlisted /\ k \notin notes[l] /\ <<l, k>> \notin missed
     /\ ~NotifyPending(profileKey[l], k)) =>
    view[l][k] = Exposed(profileKey[l], k)

ListingInv == \A l \in agents \cup sessions, k \in Kinds : Listed(l, k)

\* The oldest of some connections is the oldest as long as their stamps stay.
LEMMA SameOldest ==
  ASSUME NEW S, \A c \in S : connectedAt'[c] = connectedAt[c]
  PROVE  (CHOOSE c \in S : \A d \in S : ~Before(d, c)') = Oldest(S)
<1> DEFINE P(c) == c \in S /\ \A d \in S : ~Before(d, c)
           Q(c) == c \in S /\ \A d \in S : ~(connectedAt'[d] < connectedAt'[c])
<1>1. \A c : P(c) <=> Q(c)
  BY DEF Before
<1>2. (CHOOSE c : P(c)) = (CHOOSE c : Q(c))
  <2> HIDE DEF P, Q
  <2> QED BY <1>1
<1>3. Oldest(S) = CHOOSE c : P(c)
  BY DEF Oldest
<1>4. (CHOOSE c \in S : \A d \in S : ~Before(d, c)') = CHOOSE c : Q(c)
  BY DEF Before
<1> QED BY <1>2, <1>3, <1>4

\* What a partition is shown stays while its providers, their catalogs of the kind,
\* labels and stamps do; a provider with nothing in its catalog may come and go.
LEMMA ExposedStays ==
  ASSUME NEW profile, NEW k, UNCHANGED profileKey,
         \A d \in providers \ providers' : profileKey[d] # profile,
         \A d \in providers' \ providers : profileKey[d] # profile \/ catalog'[d][k] = {},
         \A d \in providers : profileKey[d] = profile =>
           /\ catalog'[d][k] = catalog[d][k]
           /\ label'[d] = label[d] /\ connectedAt'[d] = connectedAt[d]
  PROVE  Exposed(profile, k)' = Exposed(profile, k)
<1> DEFINE mine == {d \in providers : profileKey[d] = profile}
           mineNext == {d \in providers' : profileKey'[d] = profile}
           with(n) == {d \in mine : n \in catalog[d][k]}
           withNext(n) == {d \in mineNext : n \in catalog'[d][k]}
           oldestNext(S) == CHOOSE d \in S : \A e \in S : ~Before(e, d)'
           name(d, n) == IF k = "resources" THEN n ELSE NamespaceName(label[d], n)
           nameNext(d, n) == IF k = "resources" THEN n ELSE NamespaceName(label'[d], n)
           shown(d) == {[prov |-> d, name |-> name(d, n)] : n \in
                          {m \in catalog[d][k] : k = "resources" => d = Oldest(with(m))}}
           shownNext(d) ==
             {[prov |-> d, name |-> nameNext(d, n)] : n \in
                {m \in catalog'[d][k] : k = "resources" => d = oldestNext(withNext(m))}}
<1>1. /\ \A d \in mine : /\ d \in mineNext /\ catalog'[d][k] = catalog[d][k]
                         /\ label'[d] = label[d] /\ connectedAt'[d] = connectedAt[d]
      /\ \A d \in mineNext : d \in mine \/ catalog'[d][k] = {}
  OBVIOUS
<1>2. ASSUME NEW n PROVE oldestNext(withNext(n)) = Oldest(with(n))
  <2>1. withNext(n) = with(n)
    BY <1>1
  <2>2. \A d \in with(n) : connectedAt'[d] = connectedAt[d]
    BY <1>1
  <2> HIDE DEF with, withNext
  <2> QED BY <2>1, <2>2, SameOldest
<1>3. Exposed(profile, k) = UNION {shown(d) : d \in mine}
  BY DEF Exposed, AgentName
<1>4. Exposed(profile, k)' = UNION {shownNext(d) : d \in mineNext}
  BY DEF Exposed, AgentName, Oldest
<1>5. ASSUME NEW d \in mine PROVE shownNext(d) = shown(d)
  <2>1. catalog'[d][k] = catalog[d][k] /\ \A n : nameNext(d, n) = name(d, n)
    BY <1>1
  <2> HIDE DEF name, nameNext, oldestNext, with, withNext, mine
  <2> QED BY <1>2, <2>1
<1>6. ASSUME NEW d \in mineNext, d \notin mine PROVE shownNext(d) = {}
  BY <1>1, <1>6
<1> HIDE DEF mine, mineNext, shown, shownNext
<1> QED BY <1>1, <1>3, <1>4, <1>5, <1>6

\* Nobody who is past attachProvider's first sections gets back there.
LEMMA NobodyTurnsEarly ==
  ASSUME LabelInv, [Next]_vars
  PROVE  \A e \in Conns : Early(e)' => Early(e)
<1> USE DEF LabelInv, Peers, Refused
<1>1. ASSUME NEW c \in Conns, Connect(c) PROVE \A e \in Conns : Early(e)' => Early(e)
  BY <1>1 DEF Connect, Early
<1>2. ASSUME NEW c \in Conns, Initialized(c) PROVE \A e \in Conns : Early(e)' => Early(e)
  BY <1>2 DEF Initialized, Early
<1>3. ASSUME NEW c \in Conns, InitializeFails(c)
      PROVE  \A e \in Conns : Early(e)' => Early(e)
  BY <1>3 DEF InitializeFails, Early
<1>4. ASSUME NEW c \in Conns, Register(c) PROVE \A e \in Conns : Early(e)' => Early(e)
  BY <1>4 DEF Register, Early
<1>5. ASSUME NEW c \in Conns, SetNotificationHandler(c)
      PROVE  \A e \in Conns : Early(e)' => Early(e)
  BY <1>5 DEF SetNotificationHandler, Early
<1>6. ASSUME NEW c \in Conns, SetCloseHandler(c)
      PROVE  \A e \in Conns : Early(e)' => Early(e)
  BY <1>6 DEF SetCloseHandler, Early
<1>7. ASSUME NEW c \in Conns, AttachRefresh(c) PROVE \A e \in Conns : Early(e)' => Early(e)
  BY <1>7 DEF AttachRefresh, Early
<1>8. ASSUME NEW a \in Agents, AgentAttach(a) PROVE \A e \in Conns : Early(e)' => Early(e)
  BY <1>8, ActorsDistinct DEF AgentAttach, Early
<1>9. ASSUME NEW a \in Agents, AgentServe(a) PROVE \A e \in Conns : Early(e)' => Early(e)
  BY <1>9, ActorsDistinct DEF AgentServe, Early
<1> USE DEF bridge, registry, naming, catalogs, links,
           workers, shutdown, browser, clients, engine, outside
<1>10. CASE UNCHANGED attach
  BY <1>10 DEF Early
<1>11. ASSUME NEW c \in Conns,
       \/ ProviderClosed(c)
       \/ HangupRebuild(c)
       \/ HangupBroadcast(c)
       \/ ReadNotification(c)
       \/ ReadResponse(c)
       \/ PageAnswers(c)
     PROVE  \A e \in Conns : Early(e)' => Early(e)
  BY <1>10, <1>11
     DEF ProviderClosed, HangupRebuild, HangupBroadcast, ReadNotification, ReadResponse,
         PageAnswers
<1>12. ASSUME NEW c \in Conns, NEW k \in Kinds, PageChanges(c, k)
      PROVE  \A e \in Conns : Early(e)' => Early(e)
  BY <1>10, <1>12 DEF PageChanges
<1>13. ASSUME NEW p \in Runners, NEW c \in Conns, NEW k \in Kinds, SpawnedRefresh(p, c, k)
      PROVE  \A e \in Conns : Early(e)' => Early(e)
  BY <1>10, <1>13 DEF SpawnedRefresh
<1>14. ASSUME NEW p \in Procs,
       \/ FetchPage(p)
       \/ FetchFails(p)
       \/ StoreCatalog(p)
       \/ JobRebuild(p)
       \/ JobBroadcast(p)
     PROVE  \A e \in Conns : Early(e)' => Early(e)
  BY <1>10, <1>14 DEF FetchPage, FetchFails, StoreCatalog, JobRebuild, JobBroadcast
<1>15. ASSUME NEW p \in Peers, Disconnect(p)
      PROVE  \A e \in Conns : Early(e)' => Early(e)
  BY <1>10, <1>15 DEF Disconnect
<1>16. ASSUME NEW a \in Agents, AgentClosed(a)
      PROVE  \A e \in Conns : Early(e)' => Early(e)
  BY <1>10, <1>16 DEF AgentClosed
<1>17. ASSUME NEW s \in Sessions, OpenHTTPSession(s) \/ SessionClose(s) \/ SessionDeregister(s)
      PROVE  \A e \in Conns : Early(e)' => Early(e)
  BY <1>10, <1>17 DEF OpenHTTPSession, SessionClose, SessionDeregister
<1>18. ASSUME NEW l \in Listeners, RouteFound(l) \/ RouteMissing(l) \/ CallSend(l) \/ CallFails(l)
      PROVE  \A e \in Conns : Early(e)' => Early(e)
  BY <1>10, <1>18 DEF RouteFound, RouteMissing, CallSend, CallFails
<1>19. ASSUME NEW l \in Listeners, NEW k \in Kinds, List(l, k) \/ Call(l, k)
      PROVE  \A e \in Conns : Early(e)' => Early(e)
  BY <1>10, <1>19 DEF List, Call
<1>20. CASE IdleTimerFires \/ DaemonClose \/ IdleClose \/ CloseReturns
  BY <1>10, <1>20 DEF IdleTimerFires, DaemonClose, IdleClose, CloseReturns
<1>21. ASSUME NEW x \in Peers \cup Sessions, CloseNext(x)
      PROVE  \A e \in Conns : Early(e)' => Early(e)
  BY <1>10, <1>21 DEF CloseNext
<1>22. CASE UNCHANGED vars
  BY <1>10, <1>22 DEF vars
<1> QED
  BY <1>1, <1>2, <1>3, <1>4, <1>5, <1>6, <1>7, <1>8, <1>9, <1>10, <1>11, <1>12, <1>13,
     <1>14, <1>15, <1>16, <1>17, <1>18, <1>19, <1>20, <1>21, <1>22
     DEF Next, AttachStep, ReadStep, HangupStep, RefreshStep, CallStep, CloseStep

\* EarlyInv after the step, of those who were early before it.
EarlyKept ==
  \A c \in Conns : Early(c) =>
    /\ \A k \in Kinds : catalog'[c][k] = {} /\ spawned'[c][k] = 0
    /\ \A p \in Procs : job'[p].at = "idle" \/ job'[p].conn # c

\* Nothing is fetched or stored for a connection that is not registered yet.
LEMMA EarlySteps ==
  ASSUME RoutingInv, EarlyInv, [Next]_vars
  PROVE  EarlyKept
<1> USE DEF RoutingInv, bridge, catalogs, workers
<1>1. ASSUME NEW p \in Procs, FetchPage(p) PROVE EarlyKept
  <2>1. UNCHANGED <<catalog, spawned>> /\ job[p].at # "idle"
    BY <1>1 DEF FetchPage
  <2>2. job'[p].conn = job[p].conn \/ job'[p].at = "idle"
    BY <1>1, BusyJob DEF FetchPage, CatalogTypes, Fetching, IdleJob
  <2>3. \A q \in Procs : q # p => job'[q] = job[q]
    BY <1>1 DEF FetchPage, CatalogTypes
  <2> QED BY <2>1, <2>2, <2>3 DEF EarlyInv, EarlyKept
<1>2. ASSUME NEW p \in Procs, FetchFails(p) PROVE EarlyKept
  <2>1. UNCHANGED <<catalog, spawned>> /\ job[p].at # "idle"
    BY <1>2 DEF FetchFails
  <2>2. job'[p].conn = job[p].conn \/ job'[p].at = "idle"
    BY <1>2, BusyJob DEF FetchFails, CatalogTypes, Fetching, IdleJob
  <2>3. \A q \in Procs : q # p => job'[q] = job[q]
    BY <1>2 DEF FetchFails, CatalogTypes
  <2> QED BY <2>1, <2>2, <2>3 DEF EarlyInv, EarlyKept
<1>3. ASSUME NEW p \in Procs, JobRebuild(p) PROVE EarlyKept
  <2>1. UNCHANGED <<catalog, spawned>> /\ job[p].at # "idle"
    BY <1>3 DEF JobRebuild
  <2>2. job'[p].conn = job[p].conn \/ job'[p].at = "idle"
    BY <1>3, BusyJob DEF JobRebuild, CatalogTypes, Fetching, IdleJob
  <2>3. \A q \in Procs : q # p => job'[q] = job[q]
    BY <1>3 DEF JobRebuild, CatalogTypes
  <2> QED BY <2>1, <2>2, <2>3 DEF EarlyInv, EarlyKept
<1>4. ASSUME NEW p \in Procs, JobBroadcast(p) PROVE EarlyKept
  <2>1. UNCHANGED <<catalog, spawned>> /\ job[p].at # "idle"
    BY <1>4 DEF JobBroadcast
  <2>2. job'[p].conn = job[p].conn \/ job'[p].at = "idle"
    BY <1>4, BusyJob DEF JobBroadcast, CatalogTypes, Fetching, IdleJob
  <2>3. \A q \in Procs : q # p => job'[q] = job[q]
    BY <1>4 DEF JobBroadcast, CatalogTypes
  <2> QED BY <2>1, <2>2, <2>3 DEF EarlyInv, EarlyKept
<1>5. ASSUME NEW p \in Procs, StoreCatalog(p) PROVE EarlyKept
  <2>1. UNCHANGED spawned /\ job[p].at # "idle"
    BY <1>5 DEF StoreCatalog
  <2>2. \A c \in Conns, k \in Kinds : c # job[p].conn => catalog'[c][k] = catalog[c][k]
    BY <1>5 DEF StoreCatalog, CatalogTypes
  <2>3. job'[p].conn = job[p].conn
    BY <1>5, BusyJob DEF StoreCatalog, CatalogTypes
  <2>4. \A q \in Procs : q # p => job'[q] = job[q]
    BY <1>5 DEF StoreCatalog, CatalogTypes
  <2> QED BY <2>1, <2>2, <2>3, <2>4 DEF EarlyInv, EarlyKept
<1>6. ASSUME NEW c \in Conns, AttachRefresh(c) PROVE EarlyKept
  <2>1. UNCHANGED <<catalog, spawned>> /\ ~Early(c)
    BY <1>6 DEF AttachRefresh, Early
  <2>2. \A p \in Procs : job'[p] = job[p] \/ job'[p].conn = c
    <3>1. job' = job \/ \E j : job' = [job EXCEPT ![c] = Fetching(c, j, 1, {})]
      BY <1>6 DEF AttachRefresh, EnterRefresh
    <3> QED BY <3>1 DEF CatalogTypes, Fetching
  <2> QED BY <2>1, <2>2 DEF EarlyInv, EarlyKept
<1>7. ASSUME NEW p \in Runners, NEW c \in Conns, NEW k \in Kinds, SpawnedRefresh(p, c, k)
      PROVE  EarlyKept
  <2>1. UNCHANGED catalog /\ ~Early(c)
    BY <1>7 DEF SpawnedRefresh, EarlyInv
  <2>2. \A d \in Conns, j \in Kinds : d # c => spawned'[d][j] = spawned[d][j]
    BY <1>7 DEF SpawnedRefresh, CatalogTypes
  <2>3. \A q \in Procs : job'[q] = job[q] \/ job'[q].conn = c
    <3>1. job' = job \/ job' = [job EXCEPT ![p] = Fetching(c, k, 1, {})]
      BY <1>7 DEF SpawnedRefresh, EnterRefresh
    <3> QED BY <3>1 DEF CatalogTypes, Fetching
  <2> QED BY <2>1, <2>2, <2>3 DEF EarlyInv, EarlyKept
<1>8. ASSUME NEW c \in Conns, ReadNotification(c) PROVE EarlyKept
  <2>1. UNCHANGED <<catalog, job>>
    BY <1>8 DEF ReadNotification
  <2>2. ASSUME NEW d \in Conns, NEW k \in Kinds, Early(d)
        PROVE  spawned'[d][k] = spawned[d][k]
    BY <1>8, <2>2 DEF ReadNotification, HandlesNotifications, Early, CatalogTypes
  <2> QED BY <2>1, <2>2 DEF EarlyInv, EarlyKept
<1>9. ASSUME NEW c \in Conns, ReadResponse(c) PROVE EarlyKept
  <2>1. UNCHANGED <<catalog, spawned>>
    BY <1>9 DEF ReadResponse
  <2> DEFINE p == Head(wire[c]).proc
  <2>2. \A q \in Procs : q # p => job'[q] = job[q]
    BY <1>9 DEF ReadResponse, CatalogTypes
  <2>3. p \in Procs => job[p].at = "wait" /\ job[p].conn = c
    <3>1. wire[c] \in Seq(Messages) /\ wire[c] # <<>> /\ Head(wire[c]).type = "resp"
      BY <1>9 DEF ReadResponse, CatalogTypes
    <3>2. 1 \in DOMAIN wire[c] /\ Head(wire[c]) = wire[c][1]
      BY <3>1, HeadAndTail
    <3> QED BY <3>1, <3>2 DEF WireInv, Awaits
  <2>4. p \in Procs => job'[p].conn = c
    <3> SUFFICES ASSUME p \in Procs PROVE job'[p].conn = c
      OBVIOUS
    <3>1. p \notin Listeners
      BY ActorsDistinct DEF Procs, Listeners
    <3> DEFINE m == Head(wire[c])
               acc == job[p].acc \cup m.names
    <3>2. \/ job' = [job EXCEPT ![p] = Fetching(c, job[p].kind, job[p].page + 1, acc)]
          \/ job' = [job EXCEPT ![p] = [job[p] EXCEPT !.at = "store", !.acc = acc]]
      BY <1>9, <3>1 DEF ReadResponse
    <3>3. job[p].conn = c /\ job[p] \in [at : {"fetch", "wait", "store", "rebuild",
                "broadcast"}, conn : Conns, kind : Kinds, page : 1..MaxCatalogPages,
                acc : SUBSET Names, again : BOOLEAN]
      BY <2>3, BusyJob
    <3> HIDE DEF p, m, acc
    <3>4. CASE job' = [job EXCEPT ![p] = Fetching(c, job[p].kind, job[p].page + 1, acc)]
      BY <3>4 DEF CatalogTypes, Fetching
    <3>5. CASE job' = [job EXCEPT ![p] = [job[p] EXCEPT !.at = "store", !.acc = acc]]
      <4>1. job'[p] = [job[p] EXCEPT !.at = "store", !.acc = acc]
        BY <3>5 DEF CatalogTypes
      <4> QED BY <3>3, <4>1
    <3> QED BY <3>2, <3>4, <3>5
  <2> HIDE DEF p
  <2> QED BY <2>1, <2>2, <2>3, <2>4 DEF EarlyInv, EarlyKept
<1> USE DEF bridge, registry, naming, catalogs, links,
           workers, shutdown, browser, clients, engine, outside
<1>10. CASE UNCHANGED <<catalog, spawned, job>>
  BY <1>10 DEF EarlyInv, EarlyKept
<1>11. ASSUME NEW c \in Conns,
       \/ Connect(c)
       \/ Initialized(c)
       \/ InitializeFails(c)
       \/ Register(c)
       \/ SetNotificationHandler(c)
       \/ SetCloseHandler(c)
       \/ ProviderClosed(c)
       \/ HangupRebuild(c)
       \/ HangupBroadcast(c)
       \/ PageAnswers(c)
     PROVE  EarlyKept
  BY <1>10, <1>11
     DEF Connect, Initialized, InitializeFails, Register, SetNotificationHandler,
         SetCloseHandler, ProviderClosed, HangupRebuild, HangupBroadcast, PageAnswers
<1>12. ASSUME NEW c \in Conns, NEW k \in Kinds, PageChanges(c, k)
      PROVE  EarlyKept
  BY <1>10, <1>12 DEF PageChanges
<1>13. ASSUME NEW p \in Peers, Disconnect(p)
      PROVE  EarlyKept
  BY <1>10, <1>13 DEF Disconnect
<1>14. ASSUME NEW a \in Agents, AgentAttach(a) \/ AgentServe(a) \/ AgentClosed(a)
      PROVE  EarlyKept
  BY <1>10, <1>14 DEF AgentAttach, AgentServe, AgentClosed
<1>15. ASSUME NEW s \in Sessions, OpenHTTPSession(s) \/ SessionClose(s) \/ SessionDeregister(s)
      PROVE  EarlyKept
  BY <1>10, <1>15 DEF OpenHTTPSession, SessionClose, SessionDeregister
<1>16. ASSUME NEW l \in Listeners, RouteFound(l) \/ RouteMissing(l) \/ CallSend(l) \/ CallFails(l)
      PROVE  EarlyKept
  BY <1>10, <1>16 DEF RouteFound, RouteMissing, CallSend, CallFails
<1>17. ASSUME NEW l \in Listeners, NEW k \in Kinds, List(l, k) \/ Call(l, k)
      PROVE  EarlyKept
  BY <1>10, <1>17 DEF List, Call
<1>18. CASE IdleTimerFires \/ DaemonClose \/ IdleClose \/ CloseReturns
  BY <1>10, <1>18 DEF IdleTimerFires, DaemonClose, IdleClose, CloseReturns
<1>19. ASSUME NEW x \in Peers \cup Sessions, CloseNext(x)
      PROVE  EarlyKept
  BY <1>10, <1>19 DEF CloseNext
<1>20. CASE UNCHANGED vars
  BY <1>10, <1>20 DEF vars
<1> QED
  BY <1>1, <1>2, <1>3, <1>4, <1>5, <1>6, <1>7, <1>8, <1>9, <1>10, <1>11, <1>12, <1>13,
     <1>14, <1>15, <1>16, <1>17, <1>18, <1>19, <1>20
     DEF Next, AttachStep, ReadStep, HangupStep, RefreshStep, CallStep, CloseStep

\* EarlyInv is inductive.
LEMMA EarlyNext ==
  ASSUME RoutingInv, LabelInv, EarlyInv, [Next]_vars
  PROVE  EarlyInv'
<1>1. EarlyKept
  BY EarlySteps
<1>2. \A e \in Conns : Early(e)' => Early(e)
  BY NobodyTurnsEarly
<1> QED BY <1>1, <1>2 DEF EarlyInv, EarlyKept

\* A step that listens to nothing new keeps ListenerInv if whoever is live after it is
\* registered and no newcomer appears.
LEMMA ListenerFrame ==
  ASSUME ListenerInv, UNCHANGED view,
         \A a \in Agents :
           (attach'[a] \in {"built", "served"} /\ peer'[a] = "open") => a \in agents',
         \A s \in Sessions : sess'[s] = "open" => s \in sessions',
         \A l \in Listeners : Newcomer(l)' => Newcomer(l)
  PROVE  ListenerInv'
<1>1. view' = [l \in Listeners |-> [k \in Kinds |-> view'[l][k]]]
  BY DEF ListenerInv
<1>2. \A l \in Listeners, k \in Kinds : Newcomer(l)' => view'[l][k] = Unlisted
  BY DEF ListenerInv
<1> QED BY <1>1, <1>2 DEF ListenerInv

\* Whoever is live is registered, whoever comes has listed nothing.
LEMMA ListenerNext ==
  ASSUME LifeInv, LabelInv, RoutingInv, ListenerInv, [Next]_vars
  PROVE  ListenerInv'
<1> USE DEF RoutingInv, LinkTypes, Peers, Shut, TakeSlot, ReleaseSlot, bridge, registry,
           links, clients, outside
<1>1. ASSUME NEW c \in Conns, Connect(c) PROVE ListenerInv'
  BY <1>1, ActorsDistinct DEF Connect, ListenerInv, Newcomer, LabelInv
<1>2. ASSUME NEW c \in Conns, InitializeFails(c) PROVE ListenerInv'
  BY <1>2, ActorsDistinct DEF InitializeFails, ListenerInv, Newcomer, LabelInv
<1>3. ASSUME NEW c \in Conns, Register(c) PROVE ListenerInv'
  <2>1. UNCHANGED view
    BY <1>3 DEF Register
  <2>2. \A i \in Agents : (attach'[i] \in {"built", "served"} /\ peer'[i] = "open") => i \in agents'
    BY <1>3, ActorsDistinct DEF Register, ListenerInv, LabelInv, LifeInv, LifeTypes
  <2>3. \A i \in Sessions : sess'[i] = "open" => i \in sessions'
    BY <1>3, ActorsDistinct DEF Register, ListenerInv, LifeInv, LifeTypes
  <2>4. \A i \in Listeners : Newcomer(i)' => Newcomer(i)
    BY <1>3, ActorsDistinct DEF Register, Newcomer, LabelInv, LifeInv, LifeTypes
  <2> QED BY <2>1, <2>2, <2>3, <2>4, ListenerFrame
<1>4. ASSUME NEW c \in Conns, SetNotificationHandler(c) PROVE ListenerInv'
  BY <1>4, ActorsDistinct DEF SetNotificationHandler, ListenerInv, Newcomer, LabelInv
<1>5. ASSUME NEW c \in Conns, SetCloseHandler(c) PROVE ListenerInv'
  BY <1>5, ActorsDistinct DEF SetCloseHandler, ListenerInv, Newcomer, LabelInv
<1>6. ASSUME NEW c \in Conns, AttachRefresh(c) PROVE ListenerInv'
  BY <1>6, ActorsDistinct DEF AttachRefresh, ListenerInv, Newcomer, LabelInv
<1>7. ASSUME NEW c \in Conns, Initialized(c) PROVE ListenerInv'
  BY <1>7, ActorsDistinct DEF Initialized, ListenerInv, Newcomer, LabelInv
<1>8. ASSUME NEW p \in Peers, Disconnect(p) PROVE ListenerInv'
  BY <1>8 DEF Disconnect, ListenerInv, Newcomer
<1>9. ASSUME NEW c \in Conns, ProviderClosed(c) PROVE ListenerInv'
  BY <1>9, ActorsDistinct DEF ProviderClosed, ListenerInv, Newcomer
<1>10. ASSUME NEW c \in Conns, HangupBroadcast(c) PROVE ListenerInv'
  BY <1>10, ActorsDistinct DEF HangupBroadcast, ListenerInv, Newcomer
<1>11. ASSUME NEW a \in Agents, AgentAttach(a) PROVE ListenerInv'
  <2>1. UNCHANGED view
    BY <1>11 DEF AgentAttach
  <2>2. \A i \in Agents : (attach'[i] \in {"built", "served"} /\ peer'[i] = "open") => i \in agents'
    BY <1>11, ActorsDistinct DEF AgentAttach, ListenerInv, LabelInv, LifeInv, LifeTypes
  <2>3. \A i \in Sessions : sess'[i] = "open" => i \in sessions'
    BY <1>11, ActorsDistinct DEF AgentAttach, ListenerInv, LifeInv, LifeTypes
  <2>4. \A i \in Listeners : Newcomer(i)' => Newcomer(i)
    BY <1>11, ActorsDistinct DEF AgentAttach, Newcomer, LabelInv, LifeInv, LifeTypes
  <2> QED BY <2>1, <2>2, <2>3, <2>4, ListenerFrame
<1>12. ASSUME NEW a \in Agents, AgentServe(a) PROVE ListenerInv'
  <2>1. UNCHANGED view
    BY <1>12 DEF AgentServe
  <2>2. \A i \in Agents : (attach'[i] \in {"built", "served"} /\ peer'[i] = "open") => i \in agents'
    BY <1>12, ActorsDistinct DEF AgentServe, ListenerInv, LabelInv, LifeInv, LifeTypes
  <2>3. \A i \in Sessions : sess'[i] = "open" => i \in sessions'
    BY <1>12, ActorsDistinct DEF AgentServe, ListenerInv, LifeInv, LifeTypes
  <2>4. \A i \in Listeners : Newcomer(i)' => Newcomer(i)
    BY <1>12, ActorsDistinct DEF AgentServe, Newcomer, LabelInv, LifeInv, LifeTypes
  <2> QED BY <2>1, <2>2, <2>3, <2>4, ListenerFrame
<1>13. ASSUME NEW a \in Agents, AgentClosed(a) PROVE ListenerInv'
  <2>1. UNCHANGED view
    BY <1>13 DEF AgentClosed
  <2>2. \A i \in Agents : (attach'[i] \in {"built", "served"} /\ peer'[i] = "open") => i \in agents'
    BY <1>13, ActorsDistinct DEF AgentClosed, ListenerInv, LabelInv, LifeInv, LifeTypes
  <2>3. \A i \in Sessions : sess'[i] = "open" => i \in sessions'
    BY <1>13, ActorsDistinct DEF AgentClosed, ListenerInv, LifeInv, LifeTypes
  <2>4. \A i \in Listeners : Newcomer(i)' => Newcomer(i)
    BY <1>13, ActorsDistinct DEF AgentClosed, Newcomer, LabelInv, LifeInv, LifeTypes
  <2> QED BY <2>1, <2>2, <2>3, <2>4, ListenerFrame
<1>14. ASSUME NEW s \in Sessions, OpenHTTPSession(s) PROVE ListenerInv'
  <2>1. UNCHANGED view
    BY <1>14 DEF OpenHTTPSession
  <2>2. \A i \in Agents : (attach'[i] \in {"built", "served"} /\ peer'[i] = "open") => i \in agents'
    BY <1>14, ActorsDistinct DEF OpenHTTPSession, ListenerInv, LabelInv, LifeInv, LifeTypes
  <2>3. \A i \in Sessions : sess'[i] = "open" => i \in sessions'
    BY <1>14, ActorsDistinct DEF OpenHTTPSession, ListenerInv, LifeInv, LifeTypes
  <2>4. \A i \in Listeners : Newcomer(i)' => Newcomer(i)
    BY <1>14, ActorsDistinct DEF OpenHTTPSession, Newcomer, LabelInv, LifeInv, LifeTypes
  <2> QED BY <2>1, <2>2, <2>3, <2>4, ListenerFrame
<1>15. ASSUME NEW s \in Sessions, SessionClose(s) PROVE ListenerInv'
  <2>1. UNCHANGED view
    BY <1>15 DEF SessionClose
  <2>2. \A i \in Agents : (attach'[i] \in {"built", "served"} /\ peer'[i] = "open") => i \in agents'
    BY <1>15, ActorsDistinct DEF SessionClose, ListenerInv, LabelInv, LifeInv, LifeTypes
  <2>3. \A i \in Sessions : sess'[i] = "open" => i \in sessions'
    BY <1>15, ActorsDistinct DEF SessionClose, ListenerInv, LifeInv, LifeTypes
  <2>4. \A i \in Listeners : Newcomer(i)' => Newcomer(i)
    BY <1>15, ActorsDistinct DEF SessionClose, Newcomer, LabelInv, LifeInv, LifeTypes
  <2> QED BY <2>1, <2>2, <2>3, <2>4, ListenerFrame
<1>16. ASSUME NEW s \in Sessions, SessionDeregister(s) PROVE ListenerInv'
  <2>1. UNCHANGED view
    BY <1>16 DEF SessionDeregister
  <2>2. \A i \in Agents : (attach'[i] \in {"built", "served"} /\ peer'[i] = "open") => i \in agents'
    BY <1>16, ActorsDistinct
       DEF SessionDeregister, ListenerInv, LabelInv, LifeInv, LifeTypes
  <2>3. \A i \in Sessions : sess'[i] = "open" => i \in sessions'
    BY <1>16, ActorsDistinct DEF SessionDeregister, ListenerInv, LifeInv, LifeTypes
  <2>4. \A i \in Listeners : Newcomer(i)' => Newcomer(i)
    BY <1>16, ActorsDistinct DEF SessionDeregister, Newcomer, LabelInv, LifeInv, LifeTypes
  <2> QED BY <2>1, <2>2, <2>3, <2>4, ListenerFrame
<1>17. ASSUME NEW x \in Peers \cup Sessions, CloseNext(x) PROVE ListenerInv'
  BY <1>17, ActorsDistinct DEF CloseNext, ListenerInv, Newcomer, LifeInv, LifeTypes
<1>18. ASSUME NEW l \in Listeners, NEW k \in Kinds, List(l, k) PROVE ListenerInv'
  <2>1. UNCHANGED <<agents, sessions, attach, peer, sess>>
    BY <1>18 DEF List
  <2>2. ~Newcomer(l)
    BY <1>18, ActorsDistinct DEF List, Live, Newcomer, Listeners
  <2>3. /\ view' = [i \in Listeners |-> [j \in Kinds |-> view'[i][j]]]
        /\ \A i \in Listeners : i # l => view'[i] = view[i]
    <3>1. view' = [view EXCEPT ![l][k] = Exposed(profileKey[l], k)]
      BY <1>18 DEF List
    <3> DEFINE x == Exposed(profileKey[l], k)
               y == [view[l] EXCEPT ![k] = x]
    <3>2. y = [j \in Kinds |-> y[j]] /\ view' = [view EXCEPT ![l] = y]
      BY <3>1 DEF ListenerInv
    <3> HIDE DEF x, y
    <3> QED BY <3>2 DEF ListenerInv
  <2>4. ASSUME NEW i \in Listeners, NEW j \in Kinds, Newcomer(i)'
        PROVE  view'[i][j] = Unlisted
    <3>1. Newcomer(i)
      BY <2>1, <2>4 DEF Newcomer
    <3>2. view'[i] = view[i] /\ view[i][j] = Unlisted
      BY <2>2, <2>3, <3>1 DEF ListenerInv
    <3> QED BY <3>2
  <2>5. /\ \A a \in Agents :
             (attach'[a] \in {"built", "served"} /\ peer'[a] = "open") => a \in agents'
        /\ \A s \in Sessions : sess'[s] = "open" => s \in sessions'
    BY <2>1 DEF ListenerInv
  <2> QED BY <2>3, <2>4, <2>5 DEF ListenerInv
<1> USE DEF bridge, registry, naming, catalogs, links,
           workers, shutdown, browser, clients, engine, outside
<1>19. CASE UNCHANGED <<view, agents, sessions, attach, peer, sess>>
  BY <1>19 DEF ListenerInv, Newcomer
<1>20. ASSUME NEW c \in Conns,
       \/ HangupRebuild(c)
       \/ ReadNotification(c)
       \/ ReadResponse(c)
       \/ PageAnswers(c)
     PROVE  ListenerInv'
  BY <1>19, <1>20 DEF HangupRebuild, ReadNotification, ReadResponse, PageAnswers
<1>21. ASSUME NEW c \in Conns, NEW k \in Kinds, PageChanges(c, k)
      PROVE  ListenerInv'
  BY <1>19, <1>21 DEF PageChanges
<1>22. ASSUME NEW p \in Runners, NEW c \in Conns, NEW k \in Kinds, SpawnedRefresh(p, c, k)
      PROVE  ListenerInv'
  BY <1>19, <1>22 DEF SpawnedRefresh
<1>23. ASSUME NEW p \in Procs,
       \/ FetchPage(p)
       \/ FetchFails(p)
       \/ StoreCatalog(p)
       \/ JobRebuild(p)
       \/ JobBroadcast(p)
     PROVE  ListenerInv'
  BY <1>19, <1>23 DEF FetchPage, FetchFails, StoreCatalog, JobRebuild, JobBroadcast
<1>24. ASSUME NEW l \in Listeners, RouteFound(l) \/ RouteMissing(l) \/ CallSend(l) \/ CallFails(l)
      PROVE  ListenerInv'
  BY <1>19, <1>24 DEF RouteFound, RouteMissing, CallSend, CallFails
<1>25. ASSUME NEW l \in Listeners, NEW k \in Kinds, Call(l, k)
      PROVE  ListenerInv'
  BY <1>19, <1>25 DEF Call
<1>26. CASE IdleTimerFires \/ DaemonClose \/ IdleClose \/ CloseReturns
  BY <1>19, <1>26 DEF IdleTimerFires, DaemonClose, IdleClose, CloseReturns
<1>27. CASE UNCHANGED vars
  BY <1>19, <1>27 DEF vars
<1> QED
  BY <1>1, <1>2, <1>3, <1>4, <1>5, <1>6, <1>7, <1>8, <1>9, <1>10, <1>11, <1>12, <1>13,
     <1>14, <1>15, <1>16, <1>17, <1>18, <1>19, <1>20, <1>21, <1>22, <1>23, <1>24, <1>25,
     <1>26, <1>27
     DEF Next, AttachStep, ReadStep, HangupStep, RefreshStep, CallStep, CloseStep

\* Whatever was about to be told still is.
PendingStays ==
  /\ \A p \in Procs : job[p].at \in {"rebuild", "broadcast"} =>
       /\ job'[p].at \in {"rebuild", "broadcast"}
       /\ job'[p].conn = job[p].conn /\ job'[p].kind = job[p].kind
  /\ \A c \in Conns : ToSet(hangup[c].left) \subseteq ToSet(hangup'[c].left)

\* Where nothing changes that is told, nothing has to be.
LEMMA PendingIsPending ==
  ASSUME UNCHANGED profileKey, PendingStays, NEW profile, NEW k
  PROVE  NotifyPending(profile, k) => NotifyPending(profile, k)'
BY DEF PendingStays, NotifyPending

\* What a listener last listed is still what is exposed, if it is told of what is not.
LEMMA ListingFrame ==
  ASSUME ListingInv, UNCHANGED <<profileKey, view>>,
         \A l \in (agents \cup sessions)' \ (agents \cup sessions), k \in Kinds :
           view[l][k] = Unlisted,
         missed \subseteq missed',
         \A l \in agents \cup sessions :
           /\ notes[l] \subseteq notes'[l]
           /\ \A k \in Kinds :
                \/ k \in notes'[l]
                \/ <<l, k>> \in missed'
                \/ NotifyPending(profileKey[l], k)'
                \/ /\ ~NotifyPending(profileKey[l], k)
                   /\ Exposed(profileKey[l], k)' = Exposed(profileKey[l], k)
  PROVE  ListingInv'
<1> SUFFICES ASSUME NEW l \in (agents \cup sessions)', NEW k \in Kinds PROVE Listed(l, k)'
  BY DEF ListingInv
<1>1. CASE l \notin agents \cup sessions
  BY <1>1 DEF Listed
<1>2. CASE l \in agents \cup sessions
  BY <1>2 DEF ListingInv, Listed
<1> QED BY <1>1, <1>2

\* A step that tells nobody anything.
LEMMA UntoldKeepsListingInv ==
  ASSUME ListingInv, UNCHANGED <<profileKey, notes, missed, view>>, PendingStays,
         \A l \in (agents \cup sessions)' \ (agents \cup sessions), k \in Kinds :
           view[l][k] = Unlisted,
         \A profile : \A k \in Kinds :
           \/ NotifyPending(profile, k)'
           \/ Exposed(profile, k)' = Exposed(profile, k)
  PROVE  ListingInv'
<1>1. ASSUME NEW l \in agents \cup sessions, NEW k \in Kinds
      PROVE  \/ NotifyPending(profileKey[l], k)'
             \/ /\ ~NotifyPending(profileKey[l], k)
                /\ Exposed(profileKey[l], k)' = Exposed(profileKey[l], k)
  <2>1. PICK profile : profile = profileKey[l] /\ profile = profileKey'[l]
    OBVIOUS
  <2>2. \/ NotifyPending(profile, k)'
        \/ Exposed(profile, k)' = Exposed(profile, k)
    OBVIOUS
  <2>3. NotifyPending(profile, k) => NotifyPending(profile, k)'
    BY PendingIsPending
  <2> QED BY <2>1, <2>2, <2>3
<1> QED BY <1>1, ListingFrame

\* A broadcast reaches everybody of the partition but the sessions that lose it.
LEMMA BroadcastTells ==
  ASSUME LifeInv, NEW profile, NEW kind, Broadcast(profile, kind)
  PROVE  /\ missed \subseteq missed'
         /\ \A l \in agents \cup sessions :
              /\ notes[l] \subseteq notes'[l]
              /\ profileKey[l] = profile => kind \in notes'[l] \/ <<l, kind>> \in missed'
<1>1. PICK lost \in SUBSET {s \in sessions : profileKey[s] = profile} :
        /\ notes' = [l \in Listeners |->
                       IF l \in (agents \cup sessions) \ lost /\ profileKey[l] = profile
                       THEN notes[l] \cup {kind} ELSE notes[l]]
        /\ missed' = missed \cup {<<s, kind>> : s \in lost}
  BY DEF Broadcast
<1>2. agents \cup sessions \subseteq Listeners
  BY DEF LifeInv, LifeTypes, Listeners
<1> QED BY <1>1, <1>2

\* What is exposed stays as long as nothing it is made of changes.
LEMMA ExposedUntouched ==
  ASSUME UNCHANGED <<providers, profileKey, catalog, label, connectedAt>>
  PROVE  \A profile : \A k \in Kinds : Exposed(profile, k)' = Exposed(profile, k)
BY ExposedStays

\* Who reads an answer to a fetch waits for it.
LEMMA ReadIsAwaited ==
  ASSUME CatalogTypes, WireInv, NEW c \in Conns, ReadResponse(c), Head(wire[c]).proc \in Procs
  PROVE  /\ Awaits(Head(wire[c]).proc, c)
         /\ Head(wire[c]) = wire[c][1] /\ 1 \in DOMAIN wire[c] /\ Reply(wire[c][1])
<1>1. wire[c] \in Seq(Messages) /\ wire[c] # <<>> /\ Head(wire[c]).type = "resp"
  BY DEF ReadResponse, CatalogTypes
<1>2. 1 \in DOMAIN wire[c] /\ Head(wire[c]) = wire[c][1]
  BY <1>1, HeadAndTail
<1> QED BY <1>1, <1>2 DEF WireInv, Reply

\* What was listed is what is exposed, or it will be told.
LEMMA ListingNext ==
  ASSUME LifeInv, LabelInv, RoutingInv, EarlyInv, ListenerInv, ListingInv, [Next]_vars
  PROVE  ListingInv'
<1> USE DEF RoutingInv, bridge, registry, naming, catalogs, links, workers, engine, clients,
           browser, outside
<1>1. ASSUME NEW c \in Conns, Initialized(c) PROVE ListingInv'
  <2>1. /\ UNCHANGED <<providers, agents, sessions, profileKey, catalog, label>>
        /\ UNCHANGED <<notes, missed, view, job, hangup>>
    BY <1>1 DEF Initialized
  <2>2. \A d \in providers : connectedAt'[d] = connectedAt[d]
    BY <1>1 DEF Initialized, LabelInv, StampInv
  <2>3. \A profile : \A k \in Kinds : Exposed(profile, k)' = Exposed(profile, k)
    BY <2>1, <2>2, ExposedStays
  <2> QED BY <2>1, <2>3, UntoldKeepsListingInv DEF PendingStays
<1>2. ASSUME NEW c \in Conns, Register(c) PROVE ListingInv'
  <2>1. /\ UNCHANGED <<agents, sessions, profileKey, catalog, connectedAt, notes, missed, view>>
        /\ UNCHANGED <<job, hangup>>
    BY <1>2 DEF Register
  <2>2. /\ \A d \in providers : label'[d] = label[d]
        /\ providers' = providers \/ providers' = providers \cup {c}
    BY <1>2 DEF Register, LabelInv
  <2>3. \A k \in Kinds : catalog[c][k] = {}
    BY <1>2 DEF Register, EarlyInv, Early
  <2>4. \A profile : \A k \in Kinds : Exposed(profile, k)' = Exposed(profile, k)
    BY <2>1, <2>2, <2>3, ExposedStays
  <2> QED BY <2>1, <2>4, UntoldKeepsListingInv DEF PendingStays
<1>3. ASSUME NEW c \in Conns, ProviderClosed(c) PROVE ListingInv'
  <2>1. /\ UNCHANGED <<agents, sessions, profileKey, catalog, connectedAt, label>>
        /\ UNCHANGED <<notes, missed, view, job>>
    BY <1>3 DEF ProviderClosed
  <2>2. /\ \A d \in Conns : d # c => hangup'[d] = hangup[d]
        /\ \/ providers' = providers /\ hangup'[c] = hangup[c]
           \/ providers' = providers \ {c} /\ hangup'[c].left = KindSeq
    BY <1>3 DEF ProviderClosed, LinkTypes
  <2>3. ToSet(hangup[c].left) \subseteq ToSet(hangup'[c].left)
    <3>1. hangup[c].left \in Seq(Kinds)
      BY DEF LinkTypes
    <3>2. \A q \in Seq(Kinds) : ToSet(q) \subseteq Kinds
      BY DEF ToSet
    <3> QED BY <2>2, <3>1, <3>2 DEF Kinds
  <2>4. PendingStays
    BY <2>1, <2>2, <2>3 DEF PendingStays
  <2>5. ASSUME NEW profile, NEW k \in Kinds
        PROVE  NotifyPending(profile, k)' \/ Exposed(profile, k)' = Exposed(profile, k)
    <3>1. CASE providers' = providers \/ profileKey[c] # profile
      BY <2>1, <2>2, <3>1, ExposedStays
    <3>2. CASE hangup'[c].left = KindSeq /\ profileKey[c] = profile
      BY <2>1, <3>2 DEF NotifyPending, Kinds
    <3> QED BY <2>2, <3>1, <3>2
  <2> QED BY <2>1, <2>4, <2>5, UntoldKeepsListingInv
<1>4. ASSUME NEW c \in Conns, HangupRebuild(c) PROVE ListingInv'
  <2>1. /\ UNCHANGED <<providers, profileKey, catalog, label, connectedAt, notes, missed, view>>
        /\ UNCHANGED <<agents, sessions, job>>
    BY <1>4 DEF HangupRebuild
  <2>2. \A d \in Conns : hangup'[d].left = hangup[d].left
    BY <1>4 DEF HangupRebuild
  <2> QED BY <2>1, <2>2, ExposedUntouched, UntoldKeepsListingInv DEF PendingStays
<1>5. ASSUME NEW p \in Procs, JobBroadcast(p) PROVE ListingInv'
  <2> DEFINE prof == profileKey[job[p].conn]
             kind == job[p].kind
  <2>1. /\ UNCHANGED <<providers, profileKey, catalog, label, connectedAt, view>>
        /\ UNCHANGED <<agents, sessions, hangup>>
    BY <1>5 DEF JobBroadcast
  <2>2. Broadcast(prof, kind)
    BY <1>5 DEF JobBroadcast
  <2>3. \A q \in Procs : job'[q] = job[q] \/ (profileKey[job[q].conn] = prof /\ job[q].kind = kind)
    BY <1>5 DEF JobBroadcast, CatalogTypes
  <2> HIDE DEF prof, kind
  <2>4. /\ missed \subseteq missed'
        /\ \A l \in agents \cup sessions :
             /\ notes[l] \subseteq notes'[l]
             /\ profileKey[l] = prof => kind \in notes'[l] \/ <<l, kind>> \in missed'
    BY <2>2, BroadcastTells
  <2>5. ASSUME NEW l \in agents \cup sessions, NEW k \in Kinds
        PROVE  \/ k \in notes'[l]
               \/ <<l, k>> \in missed'
               \/ NotifyPending(profileKey[l], k)'
               \/ /\ ~NotifyPending(profileKey[l], k)
                  /\ Exposed(profileKey[l], k)' = Exposed(profileKey[l], k)
    <3>3. (profileKey[l] # prof \/ k # kind) =>
            (NotifyPending(profileKey[l], k) => NotifyPending(profileKey[l], k)')
      BY <2>1, <2>3 DEF NotifyPending
    <3>4. Exposed(profileKey[l], k)' = Exposed(profileKey[l], k)
      <4>1. PICK profile : profile = profileKey[l] /\ profile = profileKey'[l]
        BY <2>1
      <4>2. Exposed(profile, k)' = Exposed(profile, k)
        BY <2>1, ExposedUntouched
      <4> QED BY <4>1, <4>2
    <3> QED BY <2>4, <3>3, <3>4
  <2> QED BY <2>1, <2>4, <2>5, ListingFrame
<1>6. ASSUME NEW c \in Conns, HangupBroadcast(c) PROVE ListingInv'
  <2> DEFINE prof == profileKey[c]
             kind == Head(hangup[c].left)
  <2>1. /\ UNCHANGED <<providers, profileKey, catalog, label, connectedAt, view>>
        /\ UNCHANGED <<agents, sessions, job>>
    BY <1>6 DEF HangupBroadcast
  <2>2. Broadcast(prof, kind)
    BY <1>6 DEF HangupBroadcast
  <2>3. /\ \A d \in Conns : d # c => hangup'[d] = hangup[d]
        /\ \A k \in ToSet(hangup[c].left) : k = kind \/ k \in ToSet(hangup'[c].left)
    <3> DEFINE s == hangup[c].left
    <3>1. /\ \A d \in Conns : d # c => hangup'[d] = hangup[d]
          /\ hangup'[c].left = Tail(s) /\ s \in Seq(Kinds) /\ s # <<>>
      BY <1>6 DEF HangupBroadcast, LinkTypes
    <3> HIDE DEF s
    <3>2. \A i \in DOMAIN s : i = 1 \/ (i - 1 \in DOMAIN Tail(s) /\ Tail(s)[i - 1] = s[i])
      BY <3>1
    <3>3. Head(s) = s[1]
      BY <3>1
    <3>4. ASSUME NEW k \in ToSet(s) PROVE k = Head(s) \/ k \in ToSet(Tail(s))
      <4>1. PICK i \in DOMAIN s : s[i] = k
        BY DEF ToSet
      <4> QED BY <3>2, <3>3, <4>1 DEF ToSet
    <3> QED BY <3>1, <3>4 DEF s
  <2> HIDE DEF prof, kind
  <2>4. /\ missed \subseteq missed'
        /\ \A l \in agents \cup sessions :
             /\ notes[l] \subseteq notes'[l]
             /\ profileKey[l] = prof => kind \in notes'[l] \/ <<l, kind>> \in missed'
    BY <2>2, BroadcastTells
  <2>5. ASSUME NEW l \in agents \cup sessions, NEW k \in Kinds
        PROVE  \/ k \in notes'[l]
               \/ <<l, k>> \in missed'
               \/ NotifyPending(profileKey[l], k)'
               \/ /\ ~NotifyPending(profileKey[l], k)
                  /\ Exposed(profileKey[l], k)' = Exposed(profileKey[l], k)
    <3>3. (profileKey[l] # prof \/ k # kind) =>
            (NotifyPending(profileKey[l], k) => NotifyPending(profileKey[l], k)')
      BY <2>1, <2>3 DEF NotifyPending, prof
    <3>4. Exposed(profileKey[l], k)' = Exposed(profileKey[l], k)
      <4>1. PICK profile : profile = profileKey[l] /\ profile = profileKey'[l]
        BY <2>1
      <4>2. Exposed(profile, k)' = Exposed(profile, k)
        BY <2>1, ExposedUntouched
      <4> QED BY <4>1, <4>2
    <3> QED BY <2>4, <3>3, <3>4
  <2> QED BY <2>1, <2>4, <2>5, ListingFrame
<1>7. ASSUME NEW p \in Procs, FetchPage(p) PROVE ListingInv'
  <2>1. /\ UNCHANGED <<providers, profileKey, catalog, label, connectedAt, notes, missed, view>>
        /\ UNCHANGED <<agents, sessions, hangup>>
    BY <1>7 DEF FetchPage
  <2>2. \A q \in Procs : job[q].at \in {"rebuild", "broadcast"} =>
          /\ job'[q].at \in {"rebuild", "broadcast"}
          /\ job'[q].conn = job[q].conn /\ job'[q].kind = job[q].kind
    BY <1>7 DEF FetchPage, CatalogTypes
  <2> QED BY <2>1, <2>2, ExposedUntouched, UntoldKeepsListingInv DEF PendingStays
<1>8. ASSUME NEW p \in Procs, FetchFails(p) PROVE ListingInv'
  <2>1. /\ UNCHANGED <<providers, profileKey, catalog, label, connectedAt, notes, missed, view>>
        /\ UNCHANGED <<agents, sessions, hangup>>
    BY <1>8 DEF FetchFails
  <2>2. \A q \in Procs : job[q].at \in {"rebuild", "broadcast"} =>
          /\ job'[q].at \in {"rebuild", "broadcast"}
          /\ job'[q].conn = job[q].conn /\ job'[q].kind = job[q].kind
    BY <1>8 DEF FetchFails, CatalogTypes
  <2> QED BY <2>1, <2>2, ExposedUntouched, UntoldKeepsListingInv DEF PendingStays
<1>9. ASSUME NEW p \in Procs, JobRebuild(p) PROVE ListingInv'
  <2>1. /\ UNCHANGED <<providers, profileKey, catalog, label, connectedAt, notes, missed, view>>
        /\ UNCHANGED <<agents, sessions, hangup>>
    BY <1>9 DEF JobRebuild
  <2>2. \A q \in Procs : job[q].at \in {"rebuild", "broadcast"} =>
          /\ job'[q].at \in {"rebuild", "broadcast"}
          /\ job'[q].conn = job[q].conn /\ job'[q].kind = job[q].kind
    <3>1. job' = [job EXCEPT ![p].at = "broadcast"] /\ job[p].at # "idle"
      BY <1>9 DEF JobRebuild
    <3>2. /\ job'[p] = [job[p] EXCEPT !.at = "broadcast"]
          /\ \A q \in Procs : q # p => job'[q] = job[q]
      BY <3>1 DEF CatalogTypes
    <3>3. job'[p].at = "broadcast" /\ job'[p].conn = job[p].conn /\ job'[p].kind = job[p].kind
      BY <3>1, <3>2, JobMoves
    <3> QED BY <3>2, <3>3
  <2> QED BY <2>1, <2>2, ExposedUntouched, UntoldKeepsListingInv DEF PendingStays
<1>10. ASSUME NEW c \in Conns, AttachRefresh(c) PROVE ListingInv'
  <2>1. /\ UNCHANGED <<providers, profileKey, catalog, label, connectedAt, notes, missed, view>>
        /\ UNCHANGED <<agents, sessions, hangup>>
    BY <1>10 DEF AttachRefresh
  <2>2. \A q \in Procs : job[q].at \in {"rebuild", "broadcast"} =>
          /\ job'[q].at \in {"rebuild", "broadcast"}
          /\ job'[q].conn = job[q].conn /\ job'[q].kind = job[q].kind
    <3>1. job[c] = IdleJob /\ (job' = job \/ \E j : job' = [job EXCEPT ![c] = j])
      BY <1>10 DEF AttachRefresh, EnterRefresh
    <3>2. \A q \in Procs : q # c => job'[q] = job[q]
      BY <3>1 DEF CatalogTypes
    <3> QED BY <3>1, <3>2 DEF IdleJob
  <2> QED BY <2>1, <2>2, ExposedUntouched, UntoldKeepsListingInv DEF PendingStays
<1>11. ASSUME NEW p \in Runners, NEW c \in Conns, NEW k \in Kinds, SpawnedRefresh(p, c, k)
       PROVE  ListingInv'
  <2>1. /\ UNCHANGED <<providers, profileKey, catalog, label, connectedAt, notes, missed, view>>
        /\ UNCHANGED <<agents, sessions, hangup>>
    BY <1>11 DEF SpawnedRefresh
  <2>2. \A q \in Procs : job[q].at \in {"rebuild", "broadcast"} =>
          /\ job'[q].at \in {"rebuild", "broadcast"}
          /\ job'[q].conn = job[q].conn /\ job'[q].kind = job[q].kind
    BY <1>11 DEF SpawnedRefresh, EnterRefresh, CatalogTypes, IdleJob
  <2> QED BY <2>1, <2>2, ExposedUntouched, UntoldKeepsListingInv DEF PendingStays
<1>12. ASSUME NEW c \in Conns, ReadResponse(c) PROVE ListingInv'
  <2>1. /\ UNCHANGED <<providers, profileKey, catalog, label, connectedAt, notes, missed, view>>
        /\ UNCHANGED <<agents, sessions, hangup>>
    BY <1>12 DEF ReadResponse
  <2>2. \A q \in Procs : job[q].at \in {"rebuild", "broadcast"} =>
          /\ job'[q].at \in {"rebuild", "broadcast"}
          /\ job'[q].conn = job[q].conn /\ job'[q].kind = job[q].kind
    <3> DEFINE p == Head(wire[c]).proc
    <3>1. \A q \in Procs : q # p => job'[q] = job[q]
      BY <1>12 DEF ReadResponse, CatalogTypes
    <3>2. p \in Procs => job[p].at = "wait"
      BY <1>12, ReadIsAwaited DEF Awaits
    <3> QED BY <3>1, <3>2
  <2> QED BY <2>1, <2>2, ExposedUntouched, UntoldKeepsListingInv DEF PendingStays
<1>13. ASSUME NEW p \in Procs, StoreCatalog(p) PROVE ListingInv'
  <2> DEFINE c == job[p].conn
             kind == job[p].kind
  <2>1. /\ UNCHANGED <<providers, profileKey, label, connectedAt, notes, missed, view>>
        /\ UNCHANGED <<agents, sessions, hangup>>
    BY <1>13 DEF StoreCatalog
  <2>2. \A d \in Conns, k \in Kinds : (d # c \/ k # kind) => catalog'[d][k] = catalog[d][k]
    BY <1>13 DEF StoreCatalog, CatalogTypes
  <2>3. /\ job[p].at = "store" /\ job'[p].at = "rebuild"
        /\ job'[p].conn = c /\ job'[p].kind = kind
        /\ \A q \in Procs : q # p => job'[q] = job[q]
    BY <1>13, BusyJob DEF StoreCatalog, CatalogTypes
  <2>4. PendingStays
    BY <2>1, <2>3 DEF PendingStays
  <2> HIDE DEF c, kind
  <2>5. ASSUME NEW profile, NEW k \in Kinds
        PROVE  NotifyPending(profile, k)' \/ Exposed(profile, k)' = Exposed(profile, k)
    <3>1. CASE profileKey[c] = profile /\ k = kind
      BY <2>1, <2>3, <3>1 DEF NotifyPending
    <3>2. CASE profileKey[c] # profile \/ k # kind
      <4>1. \A d \in providers : profileKey[d] = profile => catalog'[d][k] = catalog[d][k]
        BY <2>2, <3>2 DEF LabelInv
      <4> QED BY <2>1, <4>1, ExposedStays
    <3> QED BY <3>1, <3>2
  <2> QED BY <2>1, <2>4, <2>5, UntoldKeepsListingInv
<1>14. ASSUME NEW a \in Agents, AgentAttach(a) PROVE ListingInv'
  <2>1. /\ UNCHANGED <<providers, profileKey, catalog, label, connectedAt, notes, missed, view>>
        /\ UNCHANGED <<hangup, job>>
    BY <1>14 DEF AgentAttach
  <2>2. \A l \in (agents \cup sessions)' \ (agents \cup sessions), k \in Kinds :
          view[l][k] = Unlisted
    <3>1. \A l \in (agents \cup sessions)' \ (agents \cup sessions) : l = a /\ Newcomer(l)
      BY <1>14 DEF AgentAttach, Newcomer
    <3> QED BY <3>1 DEF ListenerInv, Listeners
  <2> QED BY <2>1, <2>2, ExposedUntouched, UntoldKeepsListingInv DEF PendingStays
<1>15. ASSUME NEW s \in Sessions, OpenHTTPSession(s) PROVE ListingInv'
  <2>1. /\ UNCHANGED <<providers, profileKey, catalog, label, connectedAt, notes, missed, view>>
        /\ UNCHANGED <<hangup, job>>
    BY <1>15 DEF OpenHTTPSession
  <2>2. \A l \in (agents \cup sessions)' \ (agents \cup sessions), k \in Kinds :
          view[l][k] = Unlisted
    <3>1. \A l \in (agents \cup sessions)' \ (agents \cup sessions) : l = s /\ Newcomer(l)
      BY <1>15 DEF OpenHTTPSession, Newcomer
    <3> QED BY <3>1 DEF ListenerInv, Listeners
  <2> QED BY <2>1, <2>2, ExposedUntouched, UntoldKeepsListingInv DEF PendingStays
<1>16. ASSUME NEW a \in Agents, AgentClosed(a) PROVE ListingInv'
  <2>1. /\ UNCHANGED <<providers, profileKey, catalog, label, connectedAt, notes, missed, view>>
        /\ UNCHANGED <<hangup, job>>
    BY <1>16 DEF AgentClosed
  <2>2. \A l \in (agents \cup sessions)' \ (agents \cup sessions), k \in Kinds :
          view[l][k] = Unlisted
    <3>1. \A l \in (agents \cup sessions)' \ (agents \cup sessions) : l = a /\ Newcomer(l)
      BY <1>16 DEF AgentClosed, Newcomer
    <3> QED BY <3>1 DEF ListenerInv, Listeners
  <2> QED BY <2>1, <2>2, ExposedUntouched, UntoldKeepsListingInv DEF PendingStays
<1>17. ASSUME NEW s \in Sessions, SessionDeregister(s) PROVE ListingInv'
  <2>1. /\ UNCHANGED <<providers, profileKey, catalog, label, connectedAt, notes, missed, view>>
        /\ UNCHANGED <<hangup, job>>
    BY <1>17 DEF SessionDeregister
  <2>2. \A l \in (agents \cup sessions)' \ (agents \cup sessions), k \in Kinds :
          view[l][k] = Unlisted
    <3>1. \A l \in (agents \cup sessions)' \ (agents \cup sessions) : l = s /\ Newcomer(l)
      BY <1>17 DEF SessionDeregister, Newcomer
    <3> QED BY <3>1 DEF ListenerInv, Listeners
  <2> QED BY <2>1, <2>2, ExposedUntouched, UntoldKeepsListingInv DEF PendingStays
<1>18. ASSUME NEW l \in Listeners, NEW k \in Kinds, List(l, k) PROVE ListingInv'
  <2> DEFINE x == Exposed(profileKey[l], k)
  <2>1. /\ UNCHANGED <<providers, profileKey, catalog, label, connectedAt>>
        /\ UNCHANGED <<agents, sessions, hangup, job>>
    BY <1>18 DEF List
  <2>2. /\ notes' = [notes EXCEPT ![l] = @ \ {k}]
        /\ view' = [view EXCEPT ![l][k] = x]
        /\ missed' = missed \ {<<l, k>>}
    BY <1>18 DEF List
  <2> HIDE DEF x
  <2>3. /\ view'[l][k] = x
        /\ \A i \in Listeners, j \in Kinds : (i # l \/ j # k) => view'[i][j] = view[i][j]
    <3> DEFINE y == [view[l] EXCEPT ![k] = x]
    <3>1. y[k] = x /\ \A j \in Kinds : j # k => y[j] = view[l][j]
      BY DEF ListenerInv
    <3>2. view' = [view EXCEPT ![l] = y]
      BY <2>2
    <3> HIDE DEF y
    <3> QED BY <3>1, <3>2 DEF ListenerInv
  <2>4. \A i \in Listeners, j \in Kinds :
          (i # l \/ j # k) => /\ j \in notes[i] => j \in notes'[i]
                              /\ <<i, j>> \in missed => <<i, j>> \in missed'
    BY <2>2 DEF LinkTypes
  <2>5. SUFFICES ASSUME NEW i \in agents \cup sessions, NEW j \in Kinds PROVE Listed(i, j)'
    BY <2>1 DEF ListingInv
  <2>6. PICK profile : profile = profileKey[i] /\ profile = profileKey'[i]
    BY <2>1
  <2>7. Exposed(profile, j)' = Exposed(profile, j)
    BY <2>1, ExposedUntouched
  <2>8. NotifyPending(profile, j) => NotifyPending(profile, j)'
    BY <2>1, PendingIsPending DEF PendingStays
  <2>9. i \in Listeners
    BY DEF LifeInv, LifeTypes, Listeners
  <2>10. CASE i = l /\ j = k
    BY <2>3, <2>6, <2>7, <2>10 DEF Listed, x
  <2>11. CASE i # l \/ j # k
    BY <2>3, <2>4, <2>6, <2>7, <2>8, <2>11, <2>9 DEF Listed, ListingInv
  <2> QED BY <2>10, <2>11
<1> USE DEF bridge, registry, naming, catalogs, links,
           workers, shutdown, browser, clients, engine, outside
<1>19. CASE UNCHANGED <<providers, agents, sessions, profileKey, label, connectedAt, catalog,
                        hangup, job, notes, missed, view>>
  BY <1>19, ExposedUntouched, UntoldKeepsListingInv DEF PendingStays
<1>20. ASSUME NEW c \in Conns,
       \/ Connect(c)
       \/ InitializeFails(c)
       \/ SetNotificationHandler(c)
       \/ SetCloseHandler(c)
       \/ ReadNotification(c)
       \/ PageAnswers(c)
     PROVE  ListingInv'
  BY <1>19, <1>20
     DEF Connect, InitializeFails, SetNotificationHandler, SetCloseHandler,
         ReadNotification, PageAnswers
<1>21. ASSUME NEW c \in Conns, NEW k \in Kinds, PageChanges(c, k)
      PROVE  ListingInv'
  BY <1>19, <1>21 DEF PageChanges
<1>22. ASSUME NEW p \in Peers, Disconnect(p)
      PROVE  ListingInv'
  BY <1>19, <1>22 DEF Disconnect
<1>23. ASSUME NEW a \in Agents, AgentServe(a)
      PROVE  ListingInv'
  BY <1>19, <1>23 DEF AgentServe
<1>24. ASSUME NEW s \in Sessions, SessionClose(s)
      PROVE  ListingInv'
  BY <1>19, <1>24 DEF SessionClose
<1>25. ASSUME NEW l \in Listeners, RouteFound(l) \/ RouteMissing(l) \/ CallSend(l) \/ CallFails(l)
      PROVE  ListingInv'
  BY <1>19, <1>25 DEF RouteFound, RouteMissing, CallSend, CallFails
<1>26. ASSUME NEW l \in Listeners, NEW k \in Kinds, Call(l, k)
      PROVE  ListingInv'
  BY <1>19, <1>26 DEF Call
<1>27. CASE IdleTimerFires \/ DaemonClose \/ IdleClose \/ CloseReturns
  BY <1>19, <1>27 DEF IdleTimerFires, DaemonClose, IdleClose, CloseReturns
<1>28. ASSUME NEW x \in Peers \cup Sessions, CloseNext(x)
      PROVE  ListingInv'
  BY <1>19, <1>28 DEF CloseNext
<1>29. CASE UNCHANGED vars
  BY <1>19, <1>29 DEF vars
<1> QED
  BY <1>1, <1>2, <1>3, <1>4, <1>5, <1>6, <1>7, <1>8, <1>9, <1>10, <1>11, <1>12, <1>13,
     <1>14, <1>15, <1>16, <1>17, <1>18, <1>19, <1>20, <1>21, <1>22, <1>23, <1>24, <1>25,
     <1>26, <1>27, <1>28, <1>29
     DEF Next, AttachStep, ReadStep, HangupStep, RefreshStep, CallStep, CloseStep

-----------------------------------------------------------------------------
(***************************************************************************)
(* What is advertised and what is routed.                                  *)
(***************************************************************************)
\* Outside the window between a store and its rebuild, the tables are those of the
\* providers and catalogs of the moment.
TablesCurrent == RebuildPending \/ routes = RoutesOver(providers)

\* Different labels do not make the same name of entries of two providers: "a" with
\* "b__c" and "a__b" with "c" are not both there.
NamesApart ==
  \A c, d \in providers, m, n \in Names :
    NamespaceName(label[c], m) = NamespaceName(label[d], n) => label[c] = label[d]

\* The newest of some connections is the newest as long as their stamps stay.
LEMMA SameNewest ==
  ASSUME NEW S, \A c \in S : connectedAt'[c] = connectedAt[c]
  PROVE  (CHOOSE c \in S : \A d \in S : ~Before(c, d)') = Newest(S)
<1> DEFINE P(c) == c \in S /\ \A d \in S : ~Before(c, d)
           Q(c) == c \in S /\ \A d \in S : ~(connectedAt'[c] < connectedAt'[d])
<1>1. \A c : P(c) <=> Q(c)
  BY DEF Before
<1>2. (CHOOSE c : P(c)) = (CHOOSE c : Q(c))
  <2> HIDE DEF P, Q
  <2> QED BY <1>1
<1>3. Newest(S) = CHOOSE c : P(c)
  BY DEF Newest
<1>4. (CHOOSE c \in S : \A d \in S : ~Before(c, d)') = CHOOSE c : Q(c)
  BY DEF Before
<1> QED BY <1>2, <1>3, <1>4

\* The tables made of the providers stay while their catalogs, labels and stamps do; a
\* provider with nothing in its catalogs may come.
LEMMA TablesStay ==
  ASSUME StampInv, providers \subseteq Conns, providers \subseteq providers',
         UNCHANGED profileKey,
         \A d \in providers' \ providers, k \in Kinds : catalog'[d][k] = {},
         \A d \in providers : /\ catalog'[d] = catalog[d] /\ label'[d] = label[d]
                              /\ connectedAt'[d] = connectedAt[d]
  PROVE  RoutesOver(providers)' = RoutesOver(providers)
<1> DEFINE name(k, d, n) == IF k = "resources" THEN n ELSE NamespaceName(label[d], n)
           nameNext(k, d, n) == IF k = "resources" THEN n ELSE NamespaceName(label'[d], n)
           keyOf(k, d, n) == <<profileKey[d], name(k, d, n)>>
           keyNext(k, d, n) == <<profileKey'[d], nameNext(k, d, n)>>
           keys(k) == UNION {{keyOf(k, d, n) : n \in catalog[d][k]} : d \in providers}
           keysNext(k) == UNION {{keyNext(k, d, n) : n \in catalog'[d][k]} : d \in providers'}
           owners(k, key) == {d \in providers : \E n \in catalog[d][k] : keyOf(k, d, n) = key}
           ownersNext(k, key) ==
             {d \in providers' : \E n \in catalog'[d][k] : keyNext(k, d, n) = key}
           oldestNext(S) == CHOOSE d \in S : \A e \in S : ~Before(e, d)'
           newestNext(S) == CHOOSE d \in S : \A e \in S : ~Before(d, e)'
           winner(k, key) == IF k = "resources" THEN Oldest(owners(k, key))
                             ELSE Newest(owners(k, key))
           winnerNext(k, key) == IF k = "resources" THEN oldestNext(ownersNext(k, key))
                                 ELSE newestNext(ownersNext(k, key))
           orig(k, key, w) == CHOOSE n \in catalog[w][k] : keyOf(k, w, n) = key
           origNext(k, key, w) == CHOOSE n \in catalog'[w][k] : keyNext(k, w, n) = key
<1>1. ASSUME NEW k, NEW d \in providers, NEW n PROVE keyNext(k, d, n) = keyOf(k, d, n)
  OBVIOUS
<1>2. RoutesOver(providers) =
        [k \in Kinds |-> [key \in keys(k) |->
           [prov |-> winner(k, key), orig |-> orig(k, key, winner(k, key))]]]
  BY DEF RoutesOver, RouteWinner, RouteKey, AgentName
<1>3. RoutesOver(providers)' =
        [k \in Kinds |-> [key \in keysNext(k) |->
           [prov |-> winnerNext(k, key), orig |-> origNext(k, key, winnerNext(k, key))]]]
  BY DEF RoutesOver, RouteWinner, RouteKey, AgentName, Oldest, Newest
<1> HIDE DEF name, nameNext, keyOf, keyNext
<1>4. ASSUME NEW k \in Kinds PROVE keysNext(k) = keys(k)
  <2>1. \A d \in providers : {keyNext(k, d, n) : n \in catalog'[d][k]} =
                             {keyOf(k, d, n) : n \in catalog[d][k]}
    BY <1>1
  <2>2. \A d \in providers' \ providers : {keyNext(k, d, n) : n \in catalog'[d][k]} = {}
    OBVIOUS
  <2> QED BY <2>1, <2>2
<1>5. ASSUME NEW k \in Kinds, NEW key PROVE ownersNext(k, key) = owners(k, key)
  BY <1>1
<1>6. ASSUME NEW k \in Kinds, NEW key PROVE winnerNext(k, key) = winner(k, key)
  <2>1. \A d \in owners(k, key) : connectedAt'[d] = connectedAt[d]
    OBVIOUS
  <2>2. ownersNext(k, key) = owners(k, key)
    BY <1>5
  <2> HIDE DEF owners, ownersNext
  <2>3. oldestNext(owners(k, key)) = Oldest(owners(k, key))
    BY <2>1, SameOldest
  <2>4. newestNext(owners(k, key)) = Newest(owners(k, key))
    BY <2>1, SameNewest
  <2> HIDE DEF oldestNext, newestNext
  <2> QED BY <2>2, <2>3, <2>4
<1>7. ASSUME NEW k \in Kinds, NEW key \in keys(k) PROVE winner(k, key) \in providers
  <2>1. owners(k, key) \in SUBSET Conns /\ owners(k, key) # {}
    OBVIOUS
  <2>2. owners(k, key) \subseteq providers
    OBVIOUS
  <2> HIDE DEF owners
  <2> QED BY <2>1, <2>2, OldestAndNewest DEF StampInv
<1>8. ASSUME NEW k \in Kinds, NEW key, NEW w \in providers
      PROVE  origNext(k, key, w) = orig(k, key, w)
  <2>1. catalog'[w][k] = catalog[w][k] /\ \A n : keyNext(k, w, n) = keyOf(k, w, n)
    BY <1>1
  <2> QED BY <2>1
<1> HIDE DEF keys, keysNext, winner, winnerNext, orig, origNext
<1>9. ASSUME NEW k \in Kinds
      PROVE  [key \in keysNext(k) |->
               [prov |-> winnerNext(k, key), orig |-> origNext(k, key, winnerNext(k, key))]]
             = [key \in keys(k) |->
                 [prov |-> winner(k, key), orig |-> orig(k, key, winner(k, key))]]
  BY <1>4, <1>6, <1>7, <1>8
<1> QED BY <1>2, <1>3, <1>9

\* Once the tables are current, both ways of telling who provides an entry agree: the
\* partition's listing takes it from the one provider of its name, or from the oldest
\* of the URI, and so does the fold of rebuildRoutesLocked.
LEMMA CurrentTablesAgree ==
  ASSUME StampInv, CatalogTypes, providers \subseteq Conns, LabelsUnique, NamesApart,
         routes = RoutesOver(providers)
  PROVE  AdvertisedIsRouted
<1> SUFFICES
      ASSUME NEW k \in Kinds
      PROVE  LET listed(pr) == {[key |-> <<pr, e.name>>, prov |-> e.prov] :
                                  e \in Exposed(pr, k)}
             IN  UNION {listed(pr) : pr \in {profileKey[c] : c \in Conns}} =
                 {[key |-> key, prov |-> routes[k][key].prov] : key \in DOMAIN routes[k]}
  BY DEF AdvertisedIsRouted
<1> DEFINE keyOf(d, n) == <<profileKey[d], AgentName(d, k, n)>>
           keys == UNION {{keyOf(d, n) : n \in catalog[d][k]} : d \in providers}
           owners(key) == {d \in providers : \E n \in catalog[d][k] : keyOf(d, n) = key}
           winner(key) == RouteWinner(k, owners(key))
           mine(pr) == {d \in providers : profileKey[d] = pr}
           oldest(pr, n) == Oldest({d \in mine(pr) : n \in catalog[d][k]})
           shownTo(pr, d, n) == k = "resources" => d = oldest(pr, n)
           shown(d, n) == shownTo(profileKey[d], d, n)
           entry(d, n) == [key |-> keyOf(d, n), prov |-> d]
           listed(pr) == {[key |-> <<pr, e.name>>, prov |-> e.prov] : e \in Exposed(pr, k)}
<1>1. DOMAIN routes[k] = keys
  BY DEF RoutesOver, RouteKey
<1>2. \A key \in keys : routes[k][key].prov = winner(key)
  BY <1>1 DEF RoutesOver, RouteKey
<1>3. ASSUME NEW d \in providers, NEW n \in catalog[d][k]
      PROVE  winner(keyOf(d, n)) = IF k = "resources" THEN oldest(profileKey[d], n) ELSE d
  <2>1. CASE k = "resources"
    <3>1. owners(keyOf(d, n)) = {e \in mine(profileKey[d]) : n \in catalog[e][k]}
      BY <2>1 DEF AgentName
    <3> QED BY <2>1, <3>1 DEF RouteWinner
  <2>2. CASE k # "resources"
    <3>1. ASSUME NEW e \in owners(keyOf(d, n)) PROVE e = d
      <4>1. PICK m \in catalog[e][k] : keyOf(e, m) = keyOf(d, n)
        OBVIOUS
      <4>2. NamespaceName(label[e], m) = NamespaceName(label[d], n)
        BY <2>2, <4>1 DEF AgentName
      <4>3. m \in Names /\ n \in Names
        BY DEF CatalogTypes
      <4> QED BY <4>2, <4>3 DEF NamesApart, LabelsUnique
    <3>2. owners(keyOf(d, n)) = {d}
      BY <3>1
    <3>3. Newest({d}) \in {d}
      BY OldestAndNewest DEF StampInv
    <3> QED BY <2>2, <3>2, <3>3 DEF RouteWinner
  <2> QED BY <2>1, <2>2
<1>4. ASSUME NEW pr
      PROVE  Exposed(pr, k) =
               UNION {{[prov |-> d, name |-> AgentName(d, k, n)] :
                         n \in {m \in catalog[d][k] : shownTo(pr, d, m)}} : d \in mine(pr)}
  BY DEF Exposed
<1>5. ASSUME NEW pr, NEW x \in listed(pr)
      PROVE  \E d \in providers : \E n \in catalog[d][k] : shown(d, n) /\ x = entry(d, n)
  <2>1. PICK e \in Exposed(pr, k) : x = [key |-> <<pr, e.name>>, prov |-> e.prov]
    OBVIOUS
  <2>2. PICK d \in mine(pr) : \E n \in catalog[d][k] :
          shownTo(pr, d, n) /\ e = [prov |-> d, name |-> AgentName(d, k, n)]
    <3> HIDE DEF shownTo, mine
    <3> QED BY <1>4
  <2>3. PICK n \in catalog[d][k] : shown(d, n) /\ e = [prov |-> d, name |-> AgentName(d, k, n)]
    BY <2>2
  <2> HIDE DEF shownTo
  <2> QED BY <2>1, <2>2, <2>3
<1>6. ASSUME NEW d \in providers, NEW n \in catalog[d][k], shown(d, n)
      PROVE  /\ profileKey[d] \in {profileKey[c] : c \in Conns}
             /\ entry(d, n) \in listed(profileKey[d])
  <2>1. [prov |-> d, name |-> AgentName(d, k, n)] \in Exposed(profileKey[d], k)
    <3>1. PICK pr : pr = profileKey[d]
      OBVIOUS
    <3>2. d \in mine(pr) /\ shownTo(pr, d, n)
      BY <1>6, <3>1
    <3> HIDE DEF shownTo, mine
    <3>3. [prov |-> d, name |-> AgentName(d, k, n)] \in
            {[prov |-> d, name |-> AgentName(d, k, m)] :
               m \in {m \in catalog[d][k] : shownTo(pr, d, m)}}
      BY <3>2
    <3>4. [prov |-> d, name |-> AgentName(d, k, n)] \in Exposed(pr, k)
      BY <1>4, <3>2, <3>3
    <3> QED BY <3>1, <3>4
  <2> DEFINE e == [prov |-> d, name |-> AgentName(d, k, n)]
  <2>2. e \in Exposed(profileKey[d], k) /\ e.prov = d /\ e.name = AgentName(d, k, n)
    BY <2>1
  <2> HIDE DEF e
  <2>3. [key |-> <<profileKey[d], e.name>>, prov |-> e.prov] \in listed(profileKey[d])
    BY <2>2
  <2> QED BY <2>2, <2>3
<1>7. ASSUME NEW key \in keys
      PROVE  \E n \in catalog[winner(key)][k] :
               /\ winner(key) \in providers /\ shown(winner(key), n)
               /\ key = keyOf(winner(key), n)
  <2>1. owners(key) \in SUBSET Conns /\ owners(key) # {}
    BY <1>7
  <2>2. winner(key) \in owners(key)
    <3> HIDE DEF owners
    <3> QED BY <2>1, OldestAndNewest DEF RouteWinner, StampInv
  <2>3. PICK w : w = winner(key)
    OBVIOUS
  <2>4. PICK n \in catalog[w][k] : keyOf(w, n) = key
    BY <2>2, <2>3
  <2>5. w \in providers
    BY <2>2, <2>3
  <2> HIDE DEF winner, keyOf, owners
  <2>6. k = "resources" => w = oldest(profileKey[w], n)
    BY <1>3, <2>3, <2>4, <2>5
  <2> QED BY <2>3, <2>4, <2>5, <2>6
<1>8. ASSUME NEW d \in providers, NEW n \in catalog[d][k], shown(d, n)
      PROVE  keyOf(d, n) \in keys /\ winner(keyOf(d, n)) = d
  <2>1. keyOf(d, n) \in keys
    OBVIOUS
  <2> HIDE DEF winner, keyOf, oldest
  <2> QED BY <1>3, <1>8, <2>1
<1> HIDE DEF keyOf, keys, winner, shown, listed, owners, mine, oldest
<1>9. ASSUME NEW pr \in {profileKey[c] : c \in Conns}, NEW x \in listed(pr)
      PROVE  x \in {[key |-> key, prov |-> routes[k][key].prov] : key \in DOMAIN routes[k]}
  BY <1>1, <1>2, <1>5, <1>8
<1>10. ASSUME NEW key \in keys
       PROVE  [key |-> key, prov |-> routes[k][key].prov] \in
                UNION {listed(pr) : pr \in {profileKey[c] : c \in Conns}}
  <2>1. PICK n \in catalog[winner(key)][k] :
          /\ winner(key) \in providers /\ shown(winner(key), n)
          /\ key = keyOf(winner(key), n)
    BY <1>7
  <2>2. entry(winner(key), n) = [key |-> key, prov |-> routes[k][key].prov]
    BY <1>2, <2>1
  <2>3. /\ profileKey[winner(key)] \in {profileKey[c] : c \in Conns}
        /\ entry(winner(key), n) \in listed(profileKey[winner(key)])
    BY <1>6, <2>1
  <2> QED BY <2>2, <2>3
<1>11. UNION {listed(pr) : pr \in {profileKey[c] : c \in Conns}} =
         {[key |-> key, prov |-> routes[k][key].prov] : key \in DOMAIN routes[k]}
  BY <1>1, <1>9, <1>10
<1> QED BY <1>11 DEF listed

\* Rebuilds that are still to be done.
StillDue ==
  /\ \A p \in Procs : job[p].at = "rebuild" => job'[p].at = "rebuild"
  /\ \A c \in Conns : hangup[c].at = "rebuild" => hangup'[c].at = "rebuild"

\* What a table is made of is as it was.
SourcesKept == UNCHANGED <<providers, profileKey, label, connectedAt, catalog>>

\* A step that touches neither the tables nor what they are made of keeps them current
\* if it leaves to be done what is to be done.
LEMMA TablesFrame ==
  ASSUME StampInv, providers \subseteq Conns, TablesCurrent, SourcesKept, UNCHANGED routes,
         StillDue
  PROVE  TablesCurrent'
<1>1. RoutesOver(providers)' = RoutesOver(providers)
  <2>1. /\ providers \subseteq providers' /\ providers' \ providers = {}
        /\ UNCHANGED profileKey
        /\ \A d \in providers : /\ catalog'[d] = catalog[d] /\ label'[d] = label[d]
                                /\ connectedAt'[d] = connectedAt[d]
    BY DEF SourcesKept
  <2> QED BY <2>1, TablesStay
<1>2. RebuildPending => RebuildPending'
  BY DEF RebuildPending, StillDue
<1> QED BY <1>1, <1>2 DEF TablesCurrent

\* A rebuild makes them current, of whoever is left.
LEMMA TablesRebuilt ==
  ASSUME StampInv, providers \subseteq Conns, providers' \subseteq providers,
         routes' = RoutesOver(providers'), UNCHANGED <<profileKey, label, connectedAt, catalog>>
  PROVE  TablesCurrent'
<1>1. RoutesOver(providers)' = RoutesOver(providers')
  BY DEF RoutesOver, RouteWinner, AgentName, Oldest, Newest, Before
<1> QED BY <1>1 DEF TablesCurrent

\* Registering a provider leaves the tables as they are, since its catalogs are empty;
\* a store leaves the rebuild to be done; and what hangs up is rebuilt at once.
LEMMA TablesNext ==
  ASSUME RoutingInv, LabelInv, EarlyInv, TablesCurrent, [Next]_vars
  PROVE  TablesCurrent'
<1> USE DEF RoutingInv, LabelInv, bridge, catalogs, workers
<1>1. ASSUME NEW c \in Conns, Initialized(c) PROVE TablesCurrent'
  <2>1. c \notin providers
    BY <1>1 DEF Initialized
  <2>2. /\ providers' = providers /\ UNCHANGED <<profileKey, routes, job, hangup>>
        /\ \A d \in providers : /\ catalog'[d] = catalog[d] /\ label'[d] = label[d]
                                /\ connectedAt'[d] = connectedAt[d]
    BY <1>1, <2>1 DEF Initialized, registry, engine, StampInv
  <2>3. RoutesOver(providers)' = RoutesOver(providers)
    BY <2>2, TablesStay
  <2> QED BY <2>2, <2>3 DEF TablesCurrent, RebuildPending
<1>2. ASSUME NEW c \in Conns, Register(c) PROVE TablesCurrent'
  <2>1. c \notin providers /\ Early(c)
    BY <1>2 DEF Register, Early
  <2>2. /\ providers' \in {providers, providers \cup {c}}
        /\ UNCHANGED <<profileKey, routes, job, hangup, catalog, connectedAt>>
        /\ \A d \in providers : label'[d] = label[d]
    BY <1>2, <2>1 DEF Register, engine
  <2>3. \A d \in providers' \ providers, k \in Kinds : catalog'[d][k] = {}
    BY <2>1, <2>2 DEF EarlyInv
  <2>4. RoutesOver(providers)' = RoutesOver(providers)
    BY <2>2, <2>3, TablesStay
  <2> QED BY <2>2, <2>4 DEF TablesCurrent, RebuildPending
<1>3. ASSUME NEW c \in Conns, ProviderClosed(c) PROVE TablesCurrent'
  <2>1. CASE HandlesClose(c) /\ c \in providers
    BY <1>3, <2>1, TablesRebuilt DEF ProviderClosed, RebuildRoutes, naming
  <2>2. CASE ~(HandlesClose(c) /\ c \in providers)
    BY <1>3, <2>2, TablesFrame
       DEF ProviderClosed, naming, engine, SourcesKept, StillDue
  <2> QED BY <2>1, <2>2
<1>4. ASSUME NEW c \in Conns, HangupRebuild(c) PROVE TablesCurrent'
  BY <1>4, TablesRebuilt DEF HangupRebuild, RebuildRoutes, registry, naming
<1>5. ASSUME NEW p \in Procs, JobRebuild(p) PROVE TablesCurrent'
  BY <1>5, TablesRebuilt DEF JobRebuild, RebuildRoutes, registry, naming
<1>6. ASSUME NEW p \in Procs, StoreCatalog(p) PROVE TablesCurrent'
  <2>1. job'[p].at = "rebuild"
    <3>1. job[p] \in [at : {"fetch", "wait", "store", "rebuild", "broadcast"},
                      conn : Conns, kind : Kinds, page : 1..MaxCatalogPages,
                      acc : SUBSET Names, again : BOOLEAN]
      BY <1>6, BusyJob DEF StoreCatalog
    <3> QED BY <1>6, <3>1 DEF StoreCatalog, CatalogTypes
  <2> QED BY <2>1 DEF TablesCurrent, RebuildPending
<1>7. ASSUME NEW c \in Conns, HangupBroadcast(c) PROVE TablesCurrent'
  <2>1. SourcesKept /\ UNCHANGED <<routes, job>>
    BY <1>7 DEF HangupBroadcast, registry, naming, engine, SourcesKept
  <2>2. \A d \in Conns : hangup[d].at = "rebuild" => hangup'[d] = hangup[d]
    BY <1>7 DEF HangupBroadcast, LinkTypes
  <2> QED BY <2>1, <2>2, TablesFrame DEF StillDue
<1>8. ASSUME SourcesKept, UNCHANGED <<routes, hangup>>,
             \A q \in Procs : job[q].at = "rebuild" => job'[q] = job[q]
      PROVE  TablesCurrent'
  BY <1>8, TablesFrame DEF StillDue
<1>9. ASSUME NEW p \in Procs, FetchPage(p) \/ FetchFails(p) \/ JobBroadcast(p)
      PROVE  TablesCurrent'
  <2>1. SourcesKept /\ UNCHANGED <<routes, hangup>> /\ job[p].at # "rebuild"
    BY <1>9 DEF FetchPage, FetchFails, JobBroadcast, registry, naming, links, SourcesKept
  <2>2. \A q \in Procs : q # p => job'[q] = job[q]
    BY <1>9 DEF FetchPage, FetchFails, JobBroadcast, CatalogTypes
  <2> QED BY <1>8, <2>1, <2>2
<1>10. ASSUME NEW c \in Conns, AttachRefresh(c) PROVE TablesCurrent'
  <2>1. SourcesKept /\ UNCHANGED <<routes, hangup>> /\ job[c].at = "idle"
    BY <1>10 DEF AttachRefresh, registry, naming, SourcesKept, IdleJob
  <2>2. \A q \in Procs : q # c => job'[q] = job[q]
    BY <1>10 DEF AttachRefresh, EnterRefresh, CatalogTypes
  <2> QED BY <1>8, <2>1, <2>2
<1>11. ASSUME NEW p \in Runners, NEW c \in Conns, NEW k \in Kinds, SpawnedRefresh(p, c, k)
       PROVE  TablesCurrent'
  <2>1. SourcesKept /\ UNCHANGED <<routes, hangup>> /\ job[p].at = "idle"
    BY <1>11 DEF SpawnedRefresh, registry, naming, links, SourcesKept, IdleJob
  <2>2. \A q \in Procs : q # p => job'[q] = job[q]
    BY <1>11 DEF SpawnedRefresh, EnterRefresh, CatalogTypes
  <2> QED BY <1>8, <2>1, <2>2
<1>12. ASSUME NEW c \in Conns, ReadResponse(c) PROVE TablesCurrent'
  <2>1. SourcesKept /\ UNCHANGED <<routes, hangup>>
    BY <1>12 DEF ReadResponse, registry, naming, links, SourcesKept
  <2> DEFINE p == Head(wire[c]).proc
  <2>2. \A q \in Procs : q # p => job'[q] = job[q]
    BY <1>12 DEF ReadResponse, CatalogTypes
  <2>3. p \in Procs => job[p].at = "wait"
    <3>1. wire[c] \in Seq(Messages) /\ wire[c] # <<>> /\ Head(wire[c]).type = "resp"
      BY <1>12 DEF ReadResponse, CatalogTypes
    <3>2. 1 \in DOMAIN wire[c] /\ Head(wire[c]) = wire[c][1]
      BY <3>1, HeadAndTail
    <3> QED BY <3>1, <3>2 DEF WireInv, Awaits
  <2> HIDE DEF p
  <2> QED BY <1>8, <2>1, <2>2, <2>3
<1> USE DEF registry, naming, links, shutdown, browser, clients, engine, outside
<1>13. CASE SourcesKept /\ UNCHANGED <<routes, hangup, job>>
  BY <1>8, <1>13
<1>14. ASSUME NEW c \in Conns,
       \/ Connect(c)
       \/ InitializeFails(c)
       \/ SetNotificationHandler(c)
       \/ SetCloseHandler(c)
       \/ ReadNotification(c)
       \/ PageAnswers(c)
     PROVE  TablesCurrent'
  BY <1>13, <1>14
     DEF Connect, InitializeFails, SetNotificationHandler, SetCloseHandler, ReadNotification,
         PageAnswers, SourcesKept
<1>15. ASSUME NEW c \in Conns, NEW k \in Kinds, PageChanges(c, k)
      PROVE  TablesCurrent'
  BY <1>13, <1>15 DEF PageChanges, SourcesKept
<1>16. ASSUME NEW p \in Peers, Disconnect(p)
      PROVE  TablesCurrent'
  BY <1>13, <1>16 DEF Disconnect, SourcesKept
<1>17. ASSUME NEW a \in Agents, AgentAttach(a) \/ AgentServe(a) \/ AgentClosed(a)
      PROVE  TablesCurrent'
  BY <1>13, <1>17 DEF AgentAttach, AgentServe, AgentClosed, SourcesKept
<1>18. ASSUME NEW s \in Sessions, OpenHTTPSession(s) \/ SessionClose(s) \/ SessionDeregister(s)
      PROVE  TablesCurrent'
  BY <1>13, <1>18 DEF OpenHTTPSession, SessionClose, SessionDeregister, SourcesKept
<1>19. ASSUME NEW l \in Listeners, RouteFound(l) \/ RouteMissing(l) \/ CallSend(l) \/ CallFails(l)
      PROVE  TablesCurrent'
  BY <1>13, <1>19 DEF RouteFound, RouteMissing, CallSend, CallFails, SourcesKept
<1>20. ASSUME NEW l \in Listeners, NEW k \in Kinds, List(l, k) \/ Call(l, k)
      PROVE  TablesCurrent'
  BY <1>13, <1>20 DEF List, Call, SourcesKept
<1>21. CASE IdleTimerFires \/ DaemonClose \/ IdleClose \/ CloseReturns
  BY <1>13, <1>21 DEF IdleTimerFires, DaemonClose, IdleClose, CloseReturns, SourcesKept
<1>22. ASSUME NEW x \in Peers \cup Sessions, CloseNext(x)
      PROVE  TablesCurrent'
  BY <1>13, <1>22 DEF CloseNext, SourcesKept
<1>23. CASE UNCHANGED vars
  BY <1>13, <1>23 DEF vars, SourcesKept
<1> QED
  BY <1>1, <1>2, <1>3, <1>4, <1>5, <1>6, <1>7, <1>9, <1>10, <1>11, <1>12, <1>14,
     <1>15, <1>16, <1>17, <1>18, <1>19, <1>20, <1>21, <1>22, <1>23
     DEF Next, AttachStep, ReadStep, HangupStep, RefreshStep, CallStep, CloseStep

-----------------------------------------------------------------------------
(***************************************************************************)
(* Who fetches, and what is asked of the page.                             *)
(***************************************************************************)

\* A catalog is in flight because somebody owns it, and only then is it dirty.
OwnedInv ==
  \A c \in Conns, k \in Kinds :
    /\ sync[c][k].inFlight => \E p \in Procs : Owns(p, c, k)
    /\ sync[c][k].dirty => sync[c][k].inFlight

\* OwnedInv is inductive.
LEMMA OwnedNext ==
  ASSUME RoutingInv, LabelInv, OwnedInv, [Next]_vars
  PROVE  OwnedInv'
<1> USE DEF RoutingInv
<1>1. SUFFICES ASSUME NEW c \in Conns, NEW k \in Kinds
               PROVE  /\ sync'[c][k].inFlight => \E p \in Procs : OwnsThen(p, c, k)
                      /\ sync'[c][k].dirty => sync'[c][k].inFlight
  BY DEF OwnedInv, Owns, OwnsThen, Fetches
<1>2. CASE OwnersStay
  BY <1>2 DEF OwnersStay, OwnedInv
<1>3. CASE Entering
  <2>1. PICK r \in Procs, d \in Conns, i \in Kinds : job[r] = IdleJob /\ EnterRefresh(r, d, i)
    BY <1>3 DEF Entering
  <2>2. /\ sync'[d][i].inFlight
        /\ \A e \in Conns, j \in Kinds : (e # d \/ j # i) => sync'[e][j] = sync[e][j]
        /\ job' = job => sync[d][i].inFlight
    BY <2>1, EnterEffect DEF Fetching, IdleJob, CatalogTypes
  <2>3. CASE job' = job
    BY <2>2, <2>3 DEF OwnedInv, OwnsThen, Owns, Fetches
  <2>4. CASE job' # job
    <3>1. /\ OwnsThen(r, d, i)
          /\ \A q \in Procs, e \in Conns, j \in Kinds :
               (q # r \/ e # d \/ j # i) => (OwnsThen(q, e, j) <=> Owns(q, e, j))
      BY <2>1, <2>4, EnterOwns
    <3> QED BY <2>2, <3>1 DEF OwnedInv
  <2> QED BY <2>3, <2>4
<1>4. CASE Storing
  <2>1. PICK r \in Procs : StoreCatalog(r)
    BY <1>4 DEF Storing
  <2>2. PICK d, i, again : d = job[r].conn /\ i = job[r].kind /\ again = sync[d][i].dirty
    OBVIOUS
  <2>3. /\ d \in Conns /\ i \in Kinds /\ Owns(r, d, i)
        /\ sync'[d][i] = [inFlight |-> again, dirty |-> FALSE]
        /\ \A e \in Conns, j \in Kinds : (e # d \/ j # i) => sync'[e][j] = sync[e][j]
        /\ job'[r].at = "rebuild" /\ job'[r].again = again
        /\ job'[r].conn = d /\ job'[r].kind = i
        /\ \A q \in Procs : q # r => job'[q] = job[q]
    BY <2>1, <2>2, StoreEffect
  <2>4. /\ \A q \in Procs, e \in Conns, j \in Kinds :
             q # r => (OwnsThen(q, e, j) <=> Owns(q, e, j))
        /\ \A e \in Conns, j \in Kinds : OwnsThen(r, e, j) <=> (e = d /\ j = i /\ again)
    BY <2>3 DEF OwnsThen, Owns, Fetches
  <2>5. CASE c = d /\ k = i
    BY <2>3, <2>4, <2>5
  <2>6. CASE c # d \/ k # i
    <3>1. sync'[c][k] = sync[c][k] /\ ~Owns(r, c, k)
      BY <2>3, <2>6 DEF Owns
    <3> QED BY <2>4, <3>1 DEF OwnedInv
  <2> QED BY <2>5, <2>6
<1> QED BY <1>2, <1>3, <1>4, OwnerSteps

\* The kinds that attachProvider asks for are all there until it begins.
TodoInv == \A c \in Conns : attach[c] \in {"notify", "onclose"} => todo[c] = KindSeq

\* TodoInv is inductive.
LEMMA TodoNext ==
  ASSUME RoutingInv, LabelInv, TodoInv, [Next]_vars
  PROVE  TodoInv'
<1> USE DEF RoutingInv, LinkTypes, LabelInv, Peers, bridge, links
<1>1. ASSUME NEW c \in Conns, Connect(c) PROVE TodoInv'
  BY <1>1 DEF Connect, TodoInv
<1>2. ASSUME NEW c \in Conns, Initialized(c) PROVE TodoInv'
  BY <1>2 DEF Initialized, TodoInv
<1>3. ASSUME NEW c \in Conns, InitializeFails(c) PROVE TodoInv'
  BY <1>3 DEF InitializeFails, TodoInv
<1>4. ASSUME NEW c \in Conns, SetNotificationHandler(c) PROVE TodoInv'
  BY <1>4 DEF SetNotificationHandler, TodoInv
<1>5. ASSUME NEW c \in Conns, SetCloseHandler(c) PROVE TodoInv'
  BY <1>5 DEF SetCloseHandler, TodoInv
<1>6. ASSUME NEW c \in Conns, AttachRefresh(c) PROVE TodoInv'
  BY <1>6 DEF AttachRefresh, TodoInv
<1>7. ASSUME NEW c \in Conns, Register(c) PROVE TodoInv'
  <2>1. \/ todo' = todo /\ attach' = [attach EXCEPT ![c] = "failed"]
        \/ todo' = [todo EXCEPT ![c] = KindSeq] /\ attach' = [attach EXCEPT ![c] = "notify"]
    BY <1>7 DEF Register
  <2> QED BY <2>1 DEF TodoInv
<1>8. ASSUME NEW a \in Agents, AgentAttach(a) PROVE TodoInv'
  BY <1>8, ActorsDistinct DEF AgentAttach, TodoInv
<1>9. ASSUME NEW a \in Agents, AgentServe(a) PROVE TodoInv'
  BY <1>9, ActorsDistinct DEF AgentServe, TodoInv
<1> USE DEF bridge, registry, naming, catalogs, links,
           workers, shutdown, browser, clients, engine, outside
<1>10. CASE UNCHANGED <<attach, todo>>
  BY <1>10 DEF TodoInv
<1>11. ASSUME NEW c \in Conns,
       \/ ProviderClosed(c)
       \/ HangupRebuild(c)
       \/ HangupBroadcast(c)
       \/ ReadNotification(c)
       \/ ReadResponse(c)
       \/ PageAnswers(c)
     PROVE  TodoInv'
  BY <1>10, <1>11
     DEF ProviderClosed, HangupRebuild, HangupBroadcast, ReadNotification, ReadResponse,
         PageAnswers
<1>12. ASSUME NEW c \in Conns, NEW k \in Kinds, PageChanges(c, k)
      PROVE  TodoInv'
  BY <1>10, <1>12 DEF PageChanges
<1>13. ASSUME NEW p \in Runners, NEW c \in Conns, NEW k \in Kinds, SpawnedRefresh(p, c, k)
      PROVE  TodoInv'
  BY <1>10, <1>13 DEF SpawnedRefresh
<1>14. ASSUME NEW p \in Procs,
       \/ FetchPage(p)
       \/ FetchFails(p)
       \/ StoreCatalog(p)
       \/ JobRebuild(p)
       \/ JobBroadcast(p)
     PROVE  TodoInv'
  BY <1>10, <1>14 DEF FetchPage, FetchFails, StoreCatalog, JobRebuild, JobBroadcast
<1>15. ASSUME NEW p \in Peers, Disconnect(p)
      PROVE  TodoInv'
  BY <1>10, <1>15 DEF Disconnect
<1>16. ASSUME NEW a \in Agents, AgentClosed(a)
      PROVE  TodoInv'
  BY <1>10, <1>16 DEF AgentClosed
<1>17. ASSUME NEW s \in Sessions, OpenHTTPSession(s) \/ SessionClose(s) \/ SessionDeregister(s)
      PROVE  TodoInv'
  BY <1>10, <1>17 DEF OpenHTTPSession, SessionClose, SessionDeregister
<1>18. ASSUME NEW l \in Listeners, RouteFound(l) \/ RouteMissing(l) \/ CallSend(l) \/ CallFails(l)
      PROVE  TodoInv'
  BY <1>10, <1>18 DEF RouteFound, RouteMissing, CallSend, CallFails
<1>19. ASSUME NEW l \in Listeners, NEW k \in Kinds, List(l, k) \/ Call(l, k)
      PROVE  TodoInv'
  BY <1>10, <1>19 DEF List, Call
<1>20. CASE IdleTimerFires \/ DaemonClose \/ IdleClose \/ CloseReturns
  BY <1>10, <1>20 DEF IdleTimerFires, DaemonClose, IdleClose, CloseReturns
<1>21. ASSUME NEW x \in Peers \cup Sessions, CloseNext(x)
      PROVE  TodoInv'
  BY <1>10, <1>21 DEF CloseNext
<1>22. CASE UNCHANGED vars
  BY <1>10, <1>22 DEF vars
<1> QED
  BY <1>1, <1>2, <1>3, <1>4, <1>5, <1>6, <1>7, <1>8, <1>9, <1>10, <1>11, <1>12, <1>13,
     <1>14, <1>15, <1>16, <1>17, <1>18, <1>19, <1>20, <1>21, <1>22
     DEF Next, AttachStep, ReadStep, HangupStep, RefreshStep, CallStep, CloseStep

\* A request is for the page its fetch stands at, and so is what the response says of
\* further pages.
AskInv ==
  \A c \in Conns :
    /\ \A r \in asked[c] : r.proc \in Procs => r.page = job[r.proc].page
    /\ \A i \in DOMAIN wire[c] : Reply(wire[c][i]) =>
         wire[c][i].more = (job[wire[c][i].proc].page < NumPages)

\* What FetchPage does to its own goroutine and to what is asked.
LEMMA FetchPageEffect ==
  ASSUME CatalogTypes, NEW p \in Procs, FetchPage(p), NEW c, c = job[p].conn
  PROVE  /\ c \in Conns /\ job[p].at = "fetch" /\ UNCHANGED <<wire, page, catalog, sync, spawned>>
         /\ \A q \in Procs : q # p => job'[q] = job[q]
         /\ \E a \in {"wait", "store"} : job'[p] = [job[p] EXCEPT !.at = a]
         /\ job'[p].at = IF peer[c] = "open" THEN "wait" ELSE "store"
         /\ job'[p].conn = c /\ job'[p].kind = job[p].kind /\ job'[p].page = job[p].page
         /\ job'[p].acc = job[p].acc /\ job'[p].again = job[p].again
         /\ \A d \in Conns : \A r \in asked'[d] :
              \/ r \in asked[d]
              \/ d = c /\ r = [proc |-> p, kind |-> job[p].kind, page |-> job[p].page]
<1>1. /\ c \in Conns
      /\ job[p] \in [at : {"fetch", "wait", "store", "rebuild", "broadcast"},
                     conn : Conns, kind : Kinds, page : 1..MaxCatalogPages,
                     acc : SUBSET Names, again : BOOLEAN]
  BY BusyJob DEF FetchPage
<1>2. /\ job[p].at = "fetch" /\ UNCHANGED <<wire, page, catalog, sync, spawned>>
      /\ job' = [job EXCEPT ![p].at = IF peer[c] = "open" THEN "wait" ELSE "store"]
  BY DEF FetchPage, bridge, catalogs
<1>3. /\ \A q \in Procs : q # p => job'[q] = job[q]
      /\ job'[p] = [job[p] EXCEPT !.at = IF peer[c] = "open" THEN "wait" ELSE "store"]
  BY <1>2 DEF CatalogTypes
<1>4. /\ job'[p].at = IF peer[c] = "open" THEN "wait" ELSE "store"
      /\ job'[p].conn = c /\ job'[p].kind = job[p].kind /\ job'[p].page = job[p].page
      /\ job'[p].acc = job[p].acc /\ job'[p].again = job[p].again
  BY <1>1, <1>3
<1>5. \A d \in Conns : \A r \in asked'[d] :
        \/ r \in asked[d]
        \/ d = c /\ r = [proc |-> p, kind |-> job[p].kind, page |-> job[p].page]
  <2> DEFINE x == [proc |-> p, kind |-> job[p].kind, page |-> job[p].page]
  <2>1. asked' = asked \/ asked' = [asked EXCEPT ![c] = @ \cup {x}]
    BY DEF FetchPage
  <2> HIDE DEF x
  <2>2. \A d \in Conns : asked'[d] = asked[d] \/ (d = c /\ asked'[d] = asked[d] \cup {x})
    BY <1>1, <2>1 DEF CatalogTypes
  <2> QED BY <2>2 DEF x
<1> QED BY <1>1, <1>2, <1>3, <1>4, <1>5

\* What PageAnswers puts on the wire.
LEMMA PageAnswersEffect ==
  ASSUME CatalogTypes, NEW c \in Conns, PageAnswers(c)
  PROVE  /\ UNCHANGED <<job, page, catalog, sync, spawned>>
         /\ \A d \in Conns : asked'[d] \subseteq asked[d] /\ (d # c => wire'[d] = wire[d])
         /\ \E r \in asked[c] :
              /\ wire'[c] = Append(wire[c],
                   [type |-> "resp", proc |-> r.proc,
                    names |-> {n \in page[c][r.kind] : PageOf[n] = r.page},
                    more |-> r.page < NumPages])
              /\ DOMAIN wire[c] = 1..Len(wire[c]) /\ Len(wire[c]) \in Nat
              /\ DOMAIN wire'[c] = 1..(Len(wire[c]) + 1)
              /\ \A i \in DOMAIN wire[c] : wire'[c][i] = wire[c][i]
              /\ wire'[c][Len(wire[c]) + 1].type = "resp"
              /\ wire'[c][Len(wire[c]) + 1].proc = r.proc
              /\ wire'[c][Len(wire[c]) + 1].names =
                   {n \in page[c][r.kind] : PageOf[n] = r.page}
              /\ wire'[c][Len(wire[c]) + 1].more = (r.page < NumPages)
<1>1. UNCHANGED <<job, page, catalog, sync, spawned>>
  BY DEF PageAnswers, bridge, catalogs, engine, workers
<1>2. PICK r \in asked[c] :
        /\ asked' = [asked EXCEPT ![c] = @ \ {r}]
        /\ wire' = [wire EXCEPT ![c] = Append(@,
             [type |-> "resp", proc |-> r.proc,
              names |-> {n \in page[c][r.kind] : PageOf[n] = r.page},
              more |-> r.page < NumPages])]
  BY DEF PageAnswers
<1> DEFINE m == [type |-> "resp", proc |-> r.proc,
                 names |-> {n \in page[c][r.kind] : PageOf[n] = r.page},
                 more |-> r.page < NumPages]
<1>3. /\ m.type = "resp" /\ m.proc = r.proc /\ m.more = (r.page < NumPages)
      /\ m.names = {n \in page[c][r.kind] : PageOf[n] = r.page}
  OBVIOUS
<1>4. wire'[c] = Append(wire[c], m) /\ \A d \in Conns : d # c => wire'[d] = wire[d]
  BY <1>2 DEF CatalogTypes
<1> HIDE DEF m
<1>5. /\ DOMAIN wire[c] = 1..Len(wire[c]) /\ Len(wire[c]) \in Nat
      /\ DOMAIN wire'[c] = 1..(Len(wire[c]) + 1)
      /\ \A i \in DOMAIN wire[c] : wire'[c][i] = wire[c][i]
      /\ wire'[c][Len(wire[c]) + 1] = m
  <2>1. wire[c] \in Seq(Messages)
    BY DEF CatalogTypes
  <2> QED BY <1>4, <2>1
<1>6. \A d \in Conns : asked'[d] \subseteq asked[d]
  BY <1>2 DEF CatalogTypes
<1> QED BY <1>1, <1>3, <1>4, <1>5, <1>6 DEF m

\* Where nothing is new, what is asked and replied is what it was.
LEMMA NothingNewKeepsAskInv ==
  ASSUME AskInv, \A c \in Conns : NothingNew(c)
  PROVE  AskInv'
<1> SUFFICES ASSUME NEW c \in Conns
             PROVE  /\ \A r \in asked'[c] : r.proc \in Procs => r.page = job'[r.proc].page
                    /\ \A i \in DOMAIN wire'[c] : Reply(wire'[c][i]) =>
                         wire'[c][i].more = (job'[wire'[c][i].proc].page < NumPages)
  BY DEF AskInv, Reply
<1>1. NothingNew(c)
  OBVIOUS
<1>2. \A r \in asked'[c] : r.proc \in Procs => r.page = job'[r.proc].page
  BY <1>1 DEF NothingNew, AskInv
<1>3. ASSUME NEW i \in DOMAIN wire'[c], Reply(wire'[c][i])
      PROVE  wire'[c][i].more = (job'[wire'[c][i].proc].page < NumPages)
  <2>1. PICK j \in DOMAIN wire[c] :
          wire'[c][i] = wire[c][j] /\ job'[wire'[c][i].proc] = job[wire'[c][i].proc]
    BY <1>1, <1>3 DEF NothingNew
  <2> QED BY <1>3, <2>1 DEF AskInv
<1> QED BY <1>2, <1>3

\* AskInv is inductive.
LEMMA AskNext ==
  ASSUME RoutingInv, LabelInv, AskInv, [Next]_vars
  PROVE  AskInv'
<1> USE DEF RoutingInv
<1>1. ASSUME NEW p \in Procs, FetchPage(p) PROVE AskInv'
  <2>1. PICK c : c = job[p].conn
    OBVIOUS
  <2>2. /\ job[p].at = "fetch" /\ wire' = wire /\ job'[p].page = job[p].page
        /\ \A q \in Procs : q # p => job'[q] = job[q]
        /\ \A d \in Conns : \A r \in asked'[d] :
             \/ r \in asked[d]
             \/ d = c /\ r = [proc |-> p, kind |-> job[p].kind, page |-> job[p].page]
    BY <1>1, <2>1, FetchPageEffect
  <2>3. \A d \in Conns : \A r \in asked'[d] :
          r \in asked[d] \/ (r.proc = p /\ r.page = job[p].page)
    BY <2>2
  <2> QED BY <2>2, <2>3 DEF AskInv, Reply
<1>2. ASSUME NEW c \in Conns, PageAnswers(c) PROVE AskInv'
  <2> DEFINE n == Len(wire[c]) + 1
  <2>1. PICK r \in asked[c] :
          /\ DOMAIN wire[c] = 1..Len(wire[c]) /\ DOMAIN wire'[c] = 1..n /\ Len(wire[c]) \in Nat
          /\ \A i \in DOMAIN wire[c] : wire'[c][i] = wire[c][i]
          /\ wire'[c][n].proc = r.proc /\ wire'[c][n].more = (r.page < NumPages)
    BY <1>2, PageAnswersEffect
  <2>2. /\ job' = job
        /\ \A d \in Conns : asked'[d] \subseteq asked[d] /\ (d # c => wire'[d] = wire[d])
    BY <1>2, PageAnswersEffect
  <2>3. \A i \in DOMAIN wire'[c] : i \in DOMAIN wire[c] \/ i = n
    BY <2>1
  <2> HIDE DEF n
  <2>4. \A i \in DOMAIN wire'[c] : Reply(wire'[c][i]) =>
          wire'[c][i].more = (job[wire'[c][i].proc].page < NumPages)
    BY <2>1, <2>3 DEF AskInv, Reply
  <2> QED BY <2>2, <2>4 DEF AskInv, Reply
<1>3. CASE \A d \in Conns : NothingNew(d)
  BY <1>3, NothingNewKeepsAskInv
<1> QED BY <1>1, <1>2, <1>3, WireSteps DEF ToThePage

-----------------------------------------------------------------------------
(***************************************************************************)
(* No list_changed is lost.                                                *)
(***************************************************************************)
\* No call to a live provider fails, and a catalog has no more pages than a fetch
\* follows: otherwise what is stored is not all of it.
PagesFit ==
  /\ ~Timeouts
  /\ NumPages \in Nat \ {0} /\ NumPages <= MaxCatalogPages
  /\ \A n \in Names : PageOf[n] \in 1..NumPages

Note(k) == [type |-> "note", kind |-> k]

\* A change is on its way to the next fetch: told on the wire, to a goroutine, to the
\* fetch under way, or ahead of attachProvider's own.
TodoDue(c, k) == attach[c] \in {"notify", "onclose", "refresh"} /\ k \in ToSet(todo[c])

Due(c, k) ==
  \/ \E i \in DOMAIN wire[c] : wire[c][i] = Note(k)
  \/ spawned[c][k] > 0
  \/ sync[c][k].dirty
  \/ TodoDue(c, k)

\* What a fetch of catalog k of c has so far is what is on the pages before its own.
Upto(c, k, n) == {x \in page[c][k] : PageOf[x] < n}

SoFar(j, c, k) ==
  /\ j.at \in {"fetch", "wait"} => j.acc = Upto(c, k, j.page)
  /\ j.at = "store" => j.acc = page[c][k]

OwnersSoFar(c, k) == \A p \in Procs : Owns(p, c, k) => SoFar(job[p], c, k)

RepliesFresh(c, k) ==
  \A i \in DOMAIN wire[c] :
    (Reply(wire[c][i]) /\ job[wire[c][i].proc].kind = k) =>
      wire[c][i].names = {x \in page[c][k] : PageOf[x] = job[wire[c][i].proc].page}

StoredFresh(c, k) == (\A p \in Procs : ~Owns(p, c, k)) => catalog[c][k] = page[c][k]

Fresh(c, k) == OwnersSoFar(c, k) /\ RepliesFresh(c, k) /\ StoredFresh(c, k)

\* A provider that can tell of its changes, and has none to tell.
Reached(c) == peer[c] = "open" /\ attach[c] \in {"notify", "onclose", "refresh", "served"}

FreshInv ==
  \A c \in Conns, k \in Kinds : (Reached(c) /\ k \in Caps[c] /\ ~Due(c, k)) => Fresh(c, k)

\* The responses on the wire are as fresh as they were, where nothing is new.
LEMMA RepliesKept ==
  ASSUME NEW c \in Conns, NEW k \in Kinds, RepliesFresh(c, k), NothingNew(c),
         page'[c][k] = page[c][k]
  PROVE  RepliesFresh(c, k)'
<1> SUFFICES ASSUME NEW i \in DOMAIN wire'[c], Reply(wire'[c][i]),
                    job'[wire'[c][i].proc].kind = k
             PROVE  wire'[c][i].names =
                      {x \in page'[c][k] : PageOf[x] = job'[wire'[c][i].proc].page}
  BY DEF RepliesFresh, Reply
<1>1. PICK m \in DOMAIN wire[c] :
        wire'[c][i] = wire[c][m] /\ job'[wire'[c][i].proc] = job[wire'[c][i].proc]
  BY DEF NothingNew
<1> QED BY <1>1 DEF RepliesFresh

\* A catalog is as fresh as it was if its owners stay and get on.
LEMMA FreshKept ==
  ASSUME NEW c \in Conns, NEW k \in Kinds, Fresh(c, k), RepliesFresh(c, k)',
         page'[c][k] = page[c][k], catalog'[c][k] = catalog[c][k],
         \A p \in Procs : OwnsThen(p, c, k) <=> Owns(p, c, k),
         \A p \in Procs : (Owns(p, c, k) /\ SoFar(job[p], c, k)) => SoFar(job'[p], c, k)
  PROVE  Fresh(c, k)'
<1>1. \A p \in Procs : Owns(p, c, k)' <=> Owns(p, c, k)
  BY DEF OwnsThen, Owns, Fetches
<1>2. ASSUME NEW p \in Procs, Owns(p, c, k)' PROVE SoFar(job[p], c, k)'
  <2>1. SoFar(job'[p], c, k)
    BY <1>1, <1>2 DEF Fresh, OwnersSoFar
  <2> QED BY <2>1 DEF SoFar, Upto
<1>3. OwnersSoFar(c, k)'
  BY <1>2 DEF OwnersSoFar
<1>4. StoredFresh(c, k)'
  BY <1>1 DEF Fresh, StoredFresh
<1> QED BY <1>3, <1>4 DEF Fresh

\* The frame of FreshInv: nothing was due, and the catalog's fetch is left alone.
LEMMA FreshFrame ==
  ASSUME FreshInv, NEW c \in Conns, NEW k \in Kinds, Reached(c), k \in Caps[c], ~Due(c, k)',
         ~TodoDue(c, k), NothingNew(c), page'[c][k] = page[c][k], catalog'[c][k] = catalog[c][k],
         \A i \in DOMAIN wire[c] : wire[c][i] = Note(k) =>
           \E m \in DOMAIN wire'[c] : wire'[c][m] = Note(k),
         spawned[c][k] > 0 => spawned'[c][k] > 0,
         sync'[c][k] = sync[c][k],
         \A p \in Procs : OwnsThen(p, c, k) <=> Owns(p, c, k),
         \A p \in Procs : (Owns(p, c, k) /\ SoFar(job[p], c, k)) => SoFar(job'[p], c, k)
  PROVE  Fresh(c, k)'
<1>1. ~Due(c, k)
  BY DEF Due
<1>2. Fresh(c, k)
  BY <1>1 DEF FreshInv
<1>3. RepliesFresh(c, k)'
  BY <1>2, RepliesKept DEF Fresh
<1> QED BY <1>2, <1>3, FreshKept

\* A fetch that begins has nothing, and nothing is before its first page.
LEMMA BeginsSoFar ==
  ASSUME PagesFit, CatalogTypes, NEW c \in Conns, NEW k \in Kinds, NEW j,
         j = Fetching(c, k, 1, {})
  PROVE  SoFar(j, c, k)
<1>1. j.at = "fetch" /\ j.acc = {} /\ j.page = 1
  BY DEF Fetching
<1>2. page[c][k] \in Catalogs
  BY DEF CatalogTypes
<1>3. \A x \in page[c][k] : x \in Names
  BY <1>2 DEF Names
<1>4. \A x \in page[c][k] : ~(PageOf[x] < 1)
  BY <1>3 DEF PagesFit
<1> QED BY <1>1, <1>4 DEF SoFar, Upto

\* Entering an idle catalog begins a fetch; entering a busy one leaves it dirty.
LEMMA EnteringIsFresh ==
  ASSUME PagesFit, CatalogTypes, WireInv, FlightInv, NEW c \in Conns, NEW k \in Kinds,
         NEW p \in Procs, job[p] = IdleJob, EnterRefresh(p, c, k), NothingNew(c),
         ~Due(c, k)', UNCHANGED page
  PROVE  Fresh(c, k)'
<1>1. /\ ~sync[c][k].inFlight
      /\ job' = [job EXCEPT ![p] = Fetching(c, k, 1, {})]
  BY EnterEffect DEF Due
<1>2. /\ job'[p] = Fetching(c, k, 1, {}) /\ \A q \in Procs : q # p => job'[q] = job[q]
  BY <1>1 DEF CatalogTypes
<1>3. job'[p].at = "fetch" /\ job'[p].conn = c /\ job'[p].kind = k
  BY <1>2 DEF Fetching
<1>4. \A q \in Procs : ~Owns(q, c, k)
  BY <1>1 DEF FlightInv
<1>5. /\ Owns(p, c, k)'
      /\ \A q \in Procs : Owns(q, c, k)' => q = p
  BY <1>2, <1>3, <1>4 DEF Owns, Fetches
<1>6. SoFar(job[p], c, k)'
  <2>1. SoFar(job'[p], c, k)
    BY <1>2, BeginsSoFar
  <2> QED BY <2>1 DEF SoFar, Upto
<1>7. RepliesFresh(c, k)'
  <2> SUFFICES ASSUME NEW i \in DOMAIN wire'[c], Reply(wire'[c][i]),
                      job'[wire'[c][i].proc].kind = k
               PROVE  FALSE
    BY DEF RepliesFresh, Reply
  <2>1. PICK m \in DOMAIN wire[c] :
          wire'[c][i] = wire[c][m] /\ job'[wire'[c][i].proc] = job[wire'[c][i].proc]
    BY DEF NothingNew
  <2>2. Owns(wire[c][m].proc, c, k) /\ wire[c][m].proc \in Procs
    BY <2>1 DEF WireInv, Reply, Awaits, Owns, Fetches
  <2> QED BY <1>4, <2>2
<1> QED BY <1>5, <1>6, <1>7 DEF Fresh, OwnersSoFar, StoredFresh

\* Whoever is reached after the step, with nothing to do for attachProvider, was so before
\* it, unless attachProvider does it in the step.
WasReached(d, j) ==
  TodoDue(d, j)' \/ AttachRefresh(d) \/ (Reached(d) /\ ~TodoDue(d, j))

\* A provider that is reached was reached before, and has as much to ask for as it had.
LEMMA ReachedBefore ==
  ASSUME RoutingInv, LabelInv, NEW d \in Conns, NEW j \in Kinds, Reached(d)', [Next]_vars
  PROVE  WasReached(d, j)
<1> USE DEF WasReached, RoutingInv, LinkTypes, LabelInv, Peers, Shut, bridge, links
<1>1. ASSUME NEW c \in Conns, Connect(c) PROVE WasReached(d, j)
  BY <1>1 DEF Connect, Reached, TodoDue
<1>2. ASSUME NEW c \in Conns, Initialized(c) PROVE WasReached(d, j)
  BY <1>2 DEF Initialized, Reached, TodoDue
<1>3. ASSUME NEW c \in Conns, InitializeFails(c) PROVE WasReached(d, j)
  BY <1>3 DEF InitializeFails, Reached, TodoDue
<1>4. ASSUME NEW c \in Conns, SetNotificationHandler(c) PROVE WasReached(d, j)
  BY <1>4 DEF SetNotificationHandler, Reached, TodoDue
<1>5. ASSUME NEW c \in Conns, SetCloseHandler(c) PROVE WasReached(d, j)
  BY <1>5 DEF SetCloseHandler, Reached, TodoDue
<1>6. ASSUME NEW c \in Conns, AttachRefresh(c) PROVE WasReached(d, j)
  <2>1. CASE c = d
    BY <1>6, <2>1
  <2>2. CASE c # d
    BY <1>6, <2>2 DEF AttachRefresh, Reached, TodoDue
  <2> QED BY <2>1, <2>2
<1>7. ASSUME NEW c \in Conns, Register(c) PROVE WasReached(d, j)
  <2>1. \/ todo' = todo /\ attach' = [attach EXCEPT ![c] = "failed"]
        \/ todo' = [todo EXCEPT ![c] = KindSeq] /\ attach' = [attach EXCEPT ![c] = "notify"]
    BY <1>7 DEF Register
  <2>2. \A e \in Conns : peer'[e] = "open" => peer[e] = "open"
    BY <1>7 DEF Register
  <2> QED BY <2>1, <2>2 DEF Reached, TodoDue, Kinds
<1>8. ASSUME NEW p \in Peers, Disconnect(p) PROVE WasReached(d, j)
  BY <1>8, ActorsDistinct DEF Disconnect, Reached, TodoDue
<1>9. ASSUME NEW c \in Conns, ProviderClosed(c) PROVE WasReached(d, j)
  BY <1>9, ActorsDistinct DEF ProviderClosed, Reached, TodoDue
<1>10. ASSUME NEW c \in Conns, HangupBroadcast(c) PROVE WasReached(d, j)
  BY <1>10, ActorsDistinct DEF HangupBroadcast, Reached, TodoDue
<1>11. ASSUME NEW a \in Agents, AgentAttach(a) PROVE WasReached(d, j)
  BY <1>11, ActorsDistinct DEF AgentAttach, Reached, TodoDue
<1>12. ASSUME NEW a \in Agents, AgentServe(a) PROVE WasReached(d, j)
  BY <1>12, ActorsDistinct DEF AgentServe, Reached, TodoDue
<1>13. ASSUME NEW a \in Agents, AgentClosed(a) PROVE WasReached(d, j)
  BY <1>13, ActorsDistinct DEF AgentClosed, Reached, TodoDue
<1>14. ASSUME NEW x \in Peers \cup Sessions, CloseNext(x) PROVE WasReached(d, j)
  BY <1>14, ActorsDistinct DEF CloseNext, Reached, TodoDue
<1> USE DEF bridge, registry, naming, catalogs, links,
           workers, shutdown, browser, clients, engine, outside
<1>15. CASE UNCHANGED <<attach, peer, todo>>
  BY <1>15 DEF Reached, TodoDue
<1>16. ASSUME NEW c \in Conns,
       \/ HangupRebuild(c)
       \/ ReadNotification(c)
       \/ ReadResponse(c)
       \/ PageAnswers(c)
     PROVE  WasReached(d, j)
  BY <1>15, <1>16 DEF HangupRebuild, ReadNotification, ReadResponse, PageAnswers
<1>17. ASSUME NEW c \in Conns, NEW k \in Kinds, PageChanges(c, k)
      PROVE  WasReached(d, j)
  BY <1>15, <1>17 DEF PageChanges
<1>18. ASSUME NEW p \in Runners, NEW c \in Conns, NEW k \in Kinds, SpawnedRefresh(p, c, k)
      PROVE  WasReached(d, j)
  BY <1>15, <1>18 DEF SpawnedRefresh
<1>19. ASSUME NEW p \in Procs,
       \/ FetchPage(p)
       \/ FetchFails(p)
       \/ StoreCatalog(p)
       \/ JobRebuild(p)
       \/ JobBroadcast(p)
     PROVE  WasReached(d, j)
  BY <1>15, <1>19 DEF FetchPage, FetchFails, StoreCatalog, JobRebuild, JobBroadcast
<1>20. ASSUME NEW s \in Sessions, OpenHTTPSession(s) \/ SessionClose(s) \/ SessionDeregister(s)
      PROVE  WasReached(d, j)
  BY <1>15, <1>20 DEF OpenHTTPSession, SessionClose, SessionDeregister
<1>21. ASSUME NEW l \in Listeners, RouteFound(l) \/ RouteMissing(l) \/ CallSend(l) \/ CallFails(l)
      PROVE  WasReached(d, j)
  BY <1>15, <1>21 DEF RouteFound, RouteMissing, CallSend, CallFails
<1>22. ASSUME NEW l \in Listeners, NEW k \in Kinds, List(l, k) \/ Call(l, k)
      PROVE  WasReached(d, j)
  BY <1>15, <1>22 DEF List, Call
<1>23. CASE IdleTimerFires \/ DaemonClose \/ IdleClose \/ CloseReturns
  BY <1>15, <1>23 DEF IdleTimerFires, DaemonClose, IdleClose, CloseReturns
<1>24. CASE UNCHANGED vars
  BY <1>15, <1>24 DEF vars
<1> QED
  BY <1>1, <1>2, <1>3, <1>4, <1>5, <1>6, <1>7, <1>8, <1>9, <1>10, <1>11, <1>12, <1>13,
     <1>14, <1>15, <1>16, <1>17, <1>18, <1>19, <1>20, <1>21, <1>22, <1>23, <1>24
     DEF Next, AttachStep, ReadStep, HangupStep, RefreshStep, CallStep, CloseStep

\* Entering one catalog leaves another one as fresh as it was.
LEMMA EnteringKeepsFresh ==
  ASSUME PagesFit, RoutingInv, FreshInv, NEW d \in Conns, NEW j \in Kinds, Reached(d),
         j \in Caps[d], ~TodoDue(d, j), ~Due(d, j)', NothingNew(d),
         NEW r \in Procs, NEW e \in Conns, NEW i \in Kinds, job[r] = IdleJob,
         EnterRefresh(r, e, i), UNCHANGED <<page, catalog, wire>>,
         spawned'[d][j] = spawned[d][j]
  PROVE  Fresh(d, j)'
<1> USE DEF RoutingInv
<1>1. CASE e = d /\ i = j
  BY <1>1, EnteringIsFresh
<1>2. CASE e # d \/ i # j
  <2>1. sync'[d][j] = sync[d][j]
    BY <1>2, EnterEffect
  <2>2. \A q \in Procs : OwnsThen(q, d, j) <=> Owns(q, d, j)
    <3>1. CASE job' = job
      BY <3>1 DEF OwnsThen, Owns, Fetches
    <3>2. CASE job' # job
      BY <1>2, <3>2, EnterOwns
    <3> QED BY <3>1, <3>2
  <2>3. \A q \in Procs : Owns(q, d, j) => job'[q] = job[q]
    <3>1. job' = job \/ job' = [job EXCEPT ![r] = Fetching(e, i, 1, {})]
      BY EnterEffect
    <3>2. \A q \in Procs : q # r => job'[q] = job[q]
      BY <3>1 DEF CatalogTypes
    <3>3. ~Owns(r, d, j)
      BY DEF Owns, IdleJob
    <3> QED BY <3>2, <3>3
  <2> QED BY <2>1, <2>2, <2>3, FreshFrame
<1> QED BY <1>1, <1>2

\* What becomes of a fetch whose answer is read: the next page, or the store.
AnswerRead(p, c) ==
  /\ 1 \in DOMAIN wire[c] /\ Reply(wire[c][1]) /\ wire[c][1].proc = p
  /\ job[p].at = "wait" /\ job[p].conn = c /\ job[p].page \in 1..MaxCatalogPages
  /\ job'[p].conn = c /\ job'[p].kind = job[p].kind
  /\ job'[p].acc = job[p].acc \cup wire[c][1].names
  /\ \/ /\ job'[p].at = "fetch" /\ job'[p].page = job[p].page + 1
     \/ /\ job'[p].at = "store"
        /\ ~(wire[c][1].more /\ job[p].page < MaxCatalogPages)

\* ReadResponse of a fetch's answer does that.
LEMMA AnswersAreRead ==
  ASSUME CatalogTypes, WireInv, NEW c \in Conns, ReadResponse(c), NEW p \in Procs,
         p = Head(wire[c]).proc
  PROVE  AnswerRead(p, c)
<1>1. /\ Awaits(p, c) /\ Head(wire[c]) = wire[c][1] /\ 1 \in DOMAIN wire[c]
      /\ Reply(wire[c][1])
  BY ReadIsAwaited
<1>2. p \notin Listeners
  BY ActorsDistinct DEF Procs, Listeners
<1>3. /\ job[p].at = "wait" /\ job[p].conn = c /\ job[p].page \in 1..MaxCatalogPages
      /\ job[p] \in [at : {"fetch", "wait", "store", "rebuild", "broadcast"},
                     conn : Conns, kind : Kinds, page : 1..MaxCatalogPages,
                     acc : SUBSET Names, again : BOOLEAN]
  BY <1>1, BusyJob DEF Awaits
<1> DEFINE m == wire[c][1]
           acc == job[p].acc \cup m.names
<1>4. job'[p] = IF m.more /\ job[p].page < MaxCatalogPages
                THEN Fetching(c, job[p].kind, job[p].page + 1, acc)
                ELSE [job[p] EXCEPT !.at = "store", !.acc = acc]
  BY <1>1, <1>2 DEF ReadResponse, CatalogTypes
<1>5. acc = job[p].acc \cup wire[c][1].names /\ m = wire[c][1]
  OBVIOUS
<1> HIDE DEF acc, m
<1>6. CASE m.more /\ job[p].page < MaxCatalogPages
  BY <1>1, <1>3, <1>4, <1>5, <1>6 DEF AnswerRead, Fetching
<1>7. CASE ~(m.more /\ job[p].page < MaxCatalogPages)
  <2>1. job'[p] = [job[p] EXCEPT !.at = "store", !.acc = acc]
    BY <1>4, <1>7
  <2> QED BY <1>1, <1>3, <1>5, <1>7, <2>1 DEF AnswerRead
<1> QED BY <1>6, <1>7

\* With the names on its page a fetch has what is on the pages up to it, and with those
\* of the last page everything.
LEMMA AnswerIsSoFar ==
  ASSUME PagesFit, CatalogTypes, AskInv, NEW c \in Conns, NEW k \in Kinds, NEW p \in Procs,
         AnswerRead(p, c), job[p].kind = k, RepliesFresh(c, k), SoFar(job[p], c, k)
  PROVE  SoFar(job'[p], c, k)
<1>1. /\ wire[c][1].names = {x \in page[c][k] : PageOf[x] = job[p].page}
      /\ wire[c][1].more = (job[p].page < NumPages)
  BY DEF AnswerRead, RepliesFresh, AskInv
<1>2. /\ job[p].acc = {x \in page[c][k] : PageOf[x] < job[p].page}
      /\ job[p].page \in Nat
  BY DEF AnswerRead, SoFar, Upto
<1>3. \A x \in page[c][k] : PageOf[x] \in Nat /\ PageOf[x] <= NumPages
  <2>1. page[c][k] \in Catalogs
    BY DEF CatalogTypes
  <2>2. \A x \in page[c][k] : x \in Names
    BY <2>1 DEF Names
  <2> QED BY <2>2 DEF PagesFit
<1>4. job'[p].acc = {x \in page[c][k] : PageOf[x] < job[p].page + 1}
  <2>1. job'[p].acc = job[p].acc \cup wire[c][1].names
    BY DEF AnswerRead
  <2> QED BY <1>1, <1>2, <1>3, <2>1
<1>5. CASE job'[p].at = "fetch" /\ job'[p].page = job[p].page + 1
  BY <1>4, <1>5 DEF SoFar, Upto
<1>6. CASE job'[p].at = "store" /\ ~(wire[c][1].more /\ job[p].page < MaxCatalogPages)
  <2>1. \A x \in page[c][k] : PageOf[x] < job[p].page + 1
    <3>1. MaxCatalogPages \in Nat
      BY CatalogsAreListed
    <3>2. job[p].page >= NumPages
      <4>1. ~(job[p].page < NumPages) \/ ~(job[p].page < MaxCatalogPages)
        BY <1>1, <1>6
      <4> QED BY <1>2, <3>1, <4>1 DEF PagesFit
    <3> QED BY <1>2, <1>3, <3>2 DEF PagesFit
  <2>2. job'[p].acc = page[c][k]
    BY <1>4, <2>1
  <2> QED BY <1>6, <2>2 DEF SoFar
<1> QED BY <1>5, <1>6 DEF AnswerRead

\* A catalog of which no change is due stays fresh.
LEMMA FreshSteps ==
  ASSUME PagesFit, RoutingInv, LabelInv, TodoInv, AskInv, FreshInv, NEW d \in Conns,
         NEW j \in Kinds, Reached(d), j \in Caps[d], ~TodoDue(d, j), ~Due(d, j)',
         NothingNew(d), [Next]_vars
  PROVE  ToThePage \/ Fresh(d, j)'
<1> USE DEF RoutingInv, bridge, catalogs, engine, workers, outside, browser
<1>1. ASSUME NEW c \in Conns, AttachRefresh(c) PROVE ToThePage \/ Fresh(d, j)'
  <2>1. UNCHANGED <<page, catalog, spawned, wire>> /\ job[c] = IdleJob
    BY <1>1 DEF AttachRefresh
  <2>2. todo[c] # <<>> => Head(todo[c]) \in Kinds
    BY HeadAndTail DEF LinkTypes
  <2>3. CASE UNCHANGED <<sync, job>>
    BY <2>1, <2>3, FreshFrame DEF OwnsThen, Owns, Fetches
  <2>4. CASE \E k \in Kinds : EnterRefresh(c, c, k)
    <3>1. PICK r \in Procs, e \in Conns, i \in Kinds : job[r] = IdleJob /\ EnterRefresh(r, e, i)
      BY <2>1, <2>4 DEF Procs
    <3> QED BY <2>1, <3>1, EnteringKeepsFresh
  <2> QED BY <1>1, <2>2, <2>3, <2>4 DEF AttachRefresh
<1>2. ASSUME NEW p \in Runners, NEW c \in Conns, NEW k \in Kinds, SpawnedRefresh(p, c, k)
      PROVE  ToThePage \/ Fresh(d, j)'
  <2>1. /\ UNCHANGED <<page, catalog, wire>> /\ job[p] = IdleJob /\ p \in Procs
        /\ EnterRefresh(p, c, k)
        /\ spawned' = [spawned EXCEPT ![c][k] = @ - 1]
    BY <1>2 DEF SpawnedRefresh, Procs
  <2>2. CASE c = d /\ k = j
    BY <2>1, <2>2, EnteringIsFresh
  <2>3. CASE c # d \/ k # j
    <3>1. spawned'[d][j] = spawned[d][j]
      BY <2>1, <2>3 DEF CatalogTypes
    <3> QED BY <2>1, <3>1, EnteringKeepsFresh
  <2> QED BY <2>2, <2>3
<1>3. ASSUME NEW p \in Procs, FetchPage(p) PROVE ToThePage \/ Fresh(d, j)'
  BY <1>3 DEF ToThePage
<1>4. ASSUME NEW c \in Conns, PageAnswers(c) PROVE ToThePage \/ Fresh(d, j)'
  BY <1>4 DEF ToThePage
<1>5. ASSUME NEW p \in Procs, FetchFails(p) PROVE ToThePage \/ Fresh(d, j)'
  <2>1. /\ UNCHANGED <<page, catalog, sync, spawned>> /\ job[p].at = "wait"
        /\ peer[job[p].conn] # "open"
    BY <1>5 DEF FetchFails, PagesFit
  <2>2. job[p].conn # d /\ job[p].conn \in Conns
    BY <2>1, BusyJob DEF Reached
  <2>3. wire'[d] = wire[d]
    BY <1>5, <2>2 DEF FetchFails, Forget, CatalogTypes
  <2>4. \A q \in Procs : q # p => job'[q] = job[q]
    BY <1>5 DEF FetchFails, CatalogTypes
  <2>5. job'[p] = [job[p] EXCEPT !.at = "store"]
    BY <1>5 DEF FetchFails, CatalogTypes
  <2>6. job'[p].conn = job[p].conn
    BY <2>1, <2>5, JobMoves
  <2>7. \A q \in Procs : (OwnsThen(q, d, j) \/ Owns(q, d, j)) => q # p
    BY <2>2, <2>6 DEF OwnsThen, Owns
  <2>8. \A q \in Procs : OwnsThen(q, d, j) <=> Owns(q, d, j)
    BY <2>4, <2>7 DEF OwnsThen, Owns, Fetches
  <2> QED BY <2>1, <2>3, <2>4, <2>7, <2>8, FreshFrame
<1>6. ASSUME NEW p \in Procs, StoreCatalog(p) PROVE ToThePage \/ Fresh(d, j)'
  <2>1. PICK c, k, again : c = job[p].conn /\ k = job[p].kind /\ again = sync[c][k].dirty
    OBVIOUS
  <2>2. UNCHANGED <<page, spawned, wire>>
    BY <1>6 DEF StoreCatalog
  <2>3. /\ c \in Conns /\ k \in Kinds /\ Owns(p, c, k) /\ job[p].at = "store"
        /\ sync'[c][k] = [inFlight |-> again, dirty |-> FALSE]
        /\ \A e \in Conns, i \in Kinds :
             (e # c \/ i # k) => sync'[e][i] = sync[e][i] /\ catalog'[e][i] = catalog[e][i]
        /\ catalog'[c][k] = job[p].acc
        /\ job'[p].at = "rebuild" /\ job'[p].again = again
        /\ job'[p].conn = c /\ job'[p].kind = k
        /\ \A q \in Procs : q # p => job'[q] = job[q]
    BY <1>6, <2>1, StoreEffect
  <2>4. CASE c # d \/ k # j
    <3>1. \A q \in Procs : (OwnsThen(q, d, j) \/ Owns(q, d, j)) => q # p
      BY <2>3, <2>4 DEF OwnsThen, Owns
    <3>2. \A q \in Procs : OwnsThen(q, d, j) <=> Owns(q, d, j)
      BY <2>3, <3>1 DEF OwnsThen, Owns, Fetches
    <3>3. sync'[d][j] = sync[d][j] /\ catalog'[d][j] = catalog[d][j]
      BY <2>3, <2>4
    <3> QED BY <2>2, <2>3, <3>1, <3>2, <3>3, FreshFrame
  <2>5. CASE c = d /\ k = j
    <3>1. \A q \in Procs : Owns(q, d, j) => q = p
      BY <2>3, <2>5 DEF FlightInv
    <3>2. \A q \in Procs : Owns(q, d, j)' <=> (q = p /\ again)
      BY <2>3, <2>5, <3>1 DEF Owns, Fetches
    <3>3. OwnersSoFar(d, j)'
      <4>1. SoFar(job[p], d, j)'
        BY <2>3 DEF SoFar
      <4> QED BY <3>2, <4>1 DEF OwnersSoFar
    <3>4. RepliesFresh(d, j)'
      <4> SUFFICES ASSUME NEW i \in DOMAIN wire'[d], Reply(wire'[d][i]),
                          job'[wire'[d][i].proc].kind = j
                   PROVE  FALSE
        BY DEF RepliesFresh, Reply
      <4>1. Awaits(wire'[d][i].proc, d) /\ wire'[d][i].proc \in Procs
        BY <2>2 DEF WireInv, Reply
      <4>2. job'[wire'[d][i].proc] = job[wire'[d][i].proc] /\ wire'[d][i].proc # p
        BY <2>3, <4>1 DEF Awaits
      <4>3. Owns(wire'[d][i].proc, d, j)
        BY <4>1, <4>2 DEF Awaits, Owns, Fetches
      <4> QED BY <3>1, <4>1, <4>2, <4>3
    <3>5. StoredFresh(d, j)'
      <4>1. CASE again
        BY <3>2, <4>1 DEF StoredFresh
      <4>2. CASE ~again
        <5>1. ~Due(d, j)
          BY <2>1, <2>2, <2>5, <4>2 DEF Due
        <5>2. SoFar(job[p], d, j)
          BY <2>3, <2>5, <5>1 DEF FreshInv, Fresh, OwnersSoFar
        <5>3. job[p].acc = page[d][j]
          BY <2>3, <5>2 DEF SoFar
        <5> QED BY <2>2, <2>3, <2>5, <5>3 DEF StoredFresh
      <4> QED BY <4>1, <4>2
    <3> QED BY <3>3, <3>4, <3>5 DEF Fresh
  <2> QED BY <2>4, <2>5
<1>7. ASSUME NEW p \in Procs, JobRebuild(p) PROVE ToThePage \/ Fresh(d, j)'
  <2>1. UNCHANGED <<page, catalog, sync, spawned, wire>> /\ job[p].at = "rebuild"
    BY <1>7 DEF JobRebuild
  <2>2. \A q \in Procs : q # p => job'[q] = job[q]
    BY <1>7 DEF JobRebuild, CatalogTypes
  <2>3. job'[p] = [job[p] EXCEPT !.at = "broadcast"]
    BY <1>7 DEF JobRebuild, CatalogTypes
  <2>4. /\ job'[p].at = "broadcast" /\ job'[p].conn = job[p].conn
        /\ job'[p].kind = job[p].kind /\ job'[p].again = job[p].again
    BY <2>1, <2>3, JobMoves
  <2>5. \A q \in Procs : OwnsThen(q, d, j) <=> Owns(q, d, j)
    BY <2>1, <2>2, <2>4 DEF OwnsThen, Owns, Fetches
  <2>6. \A q \in Procs : SoFar(job[q], d, j) => SoFar(job'[q], d, j)
    BY <2>2, <2>4 DEF SoFar
  <2> QED BY <2>1, <2>5, <2>6, FreshFrame
<1>8. ASSUME NEW p \in Procs, JobBroadcast(p) PROVE ToThePage \/ Fresh(d, j)'
  <2>1. UNCHANGED <<page, catalog, sync, spawned, wire>> /\ job[p].at = "broadcast"
    BY <1>8 DEF JobBroadcast
  <2>2. \A q \in Procs : q # p => job'[q] = job[q]
    BY <1>8 DEF JobBroadcast, CatalogTypes
  <2>3. job[p].conn \in Conns /\ job[p].kind \in Kinds
    BY <2>1, BusyJob
  <2>4. CASE job[p].again
    <3>1. job'[p] = Fetching(job[p].conn, job[p].kind, 1, {})
      BY <1>8, <2>4 DEF JobBroadcast, CatalogTypes
    <3>2. job'[p].conn = job[p].conn /\ job'[p].kind = job[p].kind /\ job'[p].at = "fetch"
      BY <3>1 DEF Fetching
    <3>3. \A q \in Procs : OwnsThen(q, d, j) <=> Owns(q, d, j)
      BY <2>1, <2>2, <2>4, <3>2 DEF OwnsThen, Owns, Fetches
    <3>4. Owns(p, d, j) => SoFar(job'[p], d, j)
      BY <2>3, <3>1, BeginsSoFar DEF Owns
    <3> QED BY <2>1, <2>2, <3>3, <3>4, FreshFrame
  <2>5. CASE ~job[p].again
    <3>1. job'[p].at = "idle"
      BY <1>8, <2>5 DEF JobBroadcast, CatalogTypes, IdleJob
    <3>2. ~Owns(p, d, j) /\ ~OwnsThen(p, d, j)
      BY <2>1, <2>5, <3>1 DEF Owns, OwnsThen, Fetches
    <3>3. \A q \in Procs : OwnsThen(q, d, j) <=> Owns(q, d, j)
      BY <2>2, <3>2 DEF OwnsThen, Owns, Fetches
    <3> QED BY <2>1, <2>2, <3>2, <3>3, FreshFrame
  <2> QED BY <2>4, <2>5
<1>9. ASSUME NEW c \in Conns, NEW k \in Kinds, PageChanges(c, k)
      PROVE  ToThePage \/ Fresh(d, j)'
  <2>1. /\ UNCHANGED <<catalog, sync, spawned, job>>
        /\ wire' = [wire EXCEPT ![c] = Append(@, Note(k))]
        /\ \E names : page' = [page EXCEPT ![c][k] = names]
    BY <1>9 DEF PageChanges, Note
  <2>2. c # d => wire'[d] = wire[d]
    BY <2>1 DEF CatalogTypes
  <2>3. c # d \/ k # j => page'[d][j] = page[d][j]
    BY <2>1 DEF CatalogTypes
  <2>4. c = d => /\ \A i \in DOMAIN wire[d] : i \in DOMAIN wire'[d] /\ wire'[d][i] = wire[d][i]
                 /\ \E i \in DOMAIN wire'[d] : wire'[d][i] = Note(k)
    <3> SUFFICES ASSUME c = d
                 PROVE  /\ \A i \in DOMAIN wire[d] :
                             i \in DOMAIN wire'[d] /\ wire'[d][i] = wire[d][i]
                        /\ \E i \in DOMAIN wire'[d] : wire'[d][i] = Note(k)
      OBVIOUS
    <3>1. wire[d] \in Seq(Messages) /\ wire'[d] = Append(wire[d], Note(k))
      BY <2>1 DEF CatalogTypes
    <3>2. /\ DOMAIN wire[d] = 1..Len(wire[d]) /\ Len(wire[d]) \in Nat
          /\ DOMAIN wire'[d] = 1..(Len(wire[d]) + 1)
          /\ \A i \in DOMAIN wire[d] : wire'[d][i] = wire[d][i]
          /\ wire'[d][Len(wire[d]) + 1] = Note(k)
      BY <3>1
    <3> QED BY <3>2
  <2>5. ~(c = d /\ k = j)
    BY <2>4 DEF Due
  <2>6. \A i \in DOMAIN wire[d] : wire[d][i] = Note(j) =>
          \E m \in DOMAIN wire'[d] : wire'[d][m] = Note(j)
    BY <2>2, <2>4
  <2> QED BY <2>1, <2>3, <2>5, <2>6, FreshFrame DEF OwnsThen, Owns, Fetches
<1>10. ASSUME NEW c \in Conns, ReadNotification(c) PROVE ToThePage \/ Fresh(d, j)'
  <2>1. /\ UNCHANGED <<page, catalog, sync>>
        /\ wire' = [wire EXCEPT ![c] = Tail(wire[c])]
        /\ wire[c] \in Seq(Messages) /\ wire[c] # <<>>
    BY <1>10 DEF ReadNotification, CatalogTypes
  <2>2. /\ c # d => wire'[d] = wire[d]
        /\ wire'[c] = Tail(wire[c])
    BY <2>1 DEF CatalogTypes
  <2>3. \A i \in DOMAIN wire[c] : \/ wire[c][i] = Head(wire[c])
                                  \/ \E m \in DOMAIN wire'[c] : wire'[c][m] = wire[c][i]
    <3> DEFINE n == Len(wire[c])
    <3>1. /\ n \in Nat \ {0} /\ DOMAIN wire[c] = 1..n /\ DOMAIN Tail(wire[c]) = 1..(n - 1)
          /\ \A i \in 1..(n - 1) : Tail(wire[c])[i] = wire[c][i + 1]
          /\ Head(wire[c]) = wire[c][1]
      BY <2>1, HeadAndTail
    <3> HIDE DEF n
    <3>2. SUFFICES ASSUME NEW i \in 1..n, i # 1
                   PROVE  \E m \in DOMAIN Tail(wire[c]) : Tail(wire[c])[m] = wire[c][i]
      BY <2>2, <3>1
    <3>3. i - 1 \in 1..(n - 1) /\ (i - 1) + 1 = i
      BY <3>1, <3>2
    <3> QED BY <3>1, <3>3
  <2>4. PICK k : k = Head(wire[c]).kind
    OBVIOUS
  <2>5. /\ job' = job /\ Head(wire[c]) \in Messages /\ Head(wire[c]).type = "note"
        /\ spawned' = IF HandlesNotifications(c)
                      THEN [spawned EXCEPT ![c][k] = @ + 1] ELSE spawned
    BY <1>10, <2>1, <2>4, HeadAndTail DEF ReadNotification
  <2>6. Head(wire[c]) = Note(k) /\ k \in Kinds
    BY <2>4, <2>5 DEF Messages, Note
  <2>7. CASE c = d /\ k = j
    <3>1. CASE HandlesNotifications(c)
      <4>1. spawned'[d][j] = spawned[d][j] + 1 /\ spawned[d][j] \in Nat
        BY <2>5, <2>7, <3>1 DEF CatalogTypes
      <4>2. spawned'[d][j] > 0
        BY <4>1
      <4> QED BY <4>2 DEF Due
    <3>2. CASE ~HandlesNotifications(c)
      <4>1. attach[d] = "notify" /\ todo[d] = KindSeq
        BY <2>7, <3>2 DEF Reached, HandlesNotifications, TodoInv
      <4> QED BY <4>1 DEF TodoDue, Kinds
    <3> QED BY <3>1, <3>2
  <2>8. CASE c # d \/ k # j
    <3>1. spawned'[d][j] = spawned[d][j]
      BY <2>5, <2>6, <2>8 DEF CatalogTypes
    <3>2. k # j => Note(k) # Note(j)
      BY DEF Note
    <3>3. \A i \in DOMAIN wire[d] : wire[d][i] = Note(j) =>
            \E m \in DOMAIN wire'[d] : wire'[d][m] = Note(j)
      BY <2>2, <2>3, <2>6, <2>8, <3>2
    <3> QED BY <2>1, <2>5, <3>1, <3>3, FreshFrame DEF OwnsThen, Owns, Fetches
  <2> QED BY <2>7, <2>8
<1>11. ASSUME NEW c \in Conns, ReadResponse(c) PROVE ToThePage \/ Fresh(d, j)'
  <2>1. /\ UNCHANGED <<page, catalog, sync>>
        /\ wire' = [wire EXCEPT ![c] = Tail(wire[c])]
        /\ wire[c] \in Seq(Messages) /\ wire[c] # <<>>
    BY <1>11 DEF ReadResponse, CatalogTypes
  <2>2. /\ c # d => wire'[d] = wire[d]
        /\ wire'[c] = Tail(wire[c])
    BY <2>1 DEF CatalogTypes
  <2>3. \A i \in DOMAIN wire[c] : \/ wire[c][i] = Head(wire[c])
                                  \/ \E m \in DOMAIN wire'[c] : wire'[c][m] = wire[c][i]
    <3> DEFINE n == Len(wire[c])
    <3>1. /\ n \in Nat \ {0} /\ DOMAIN wire[c] = 1..n /\ DOMAIN Tail(wire[c]) = 1..(n - 1)
          /\ \A i \in 1..(n - 1) : Tail(wire[c])[i] = wire[c][i + 1]
          /\ Head(wire[c]) = wire[c][1]
      BY <2>1, HeadAndTail
    <3> HIDE DEF n
    <3>2. SUFFICES ASSUME NEW i \in 1..n, i # 1
                   PROVE  \E m \in DOMAIN Tail(wire[c]) : Tail(wire[c])[m] = wire[c][i]
      BY <2>2, <3>1
    <3>3. i - 1 \in 1..(n - 1) /\ (i - 1) + 1 = i
      BY <3>1, <3>2
    <3> QED BY <3>1, <3>3
  <2>4. PICK p : p = Head(wire[c]).proc
    OBVIOUS
  <2>5. /\ Head(wire[c]).type = "resp" /\ UNCHANGED spawned
        /\ \A q \in Procs : q # p => job'[q] = job[q]
    BY <1>11, <2>4 DEF ReadResponse, CatalogTypes
  <2>6. Head(wire[c]) # Note(j)
    BY <2>5 DEF Note
  <2>7. \A i \in DOMAIN wire[d] : wire[d][i] = Note(j) =>
          \E m \in DOMAIN wire'[d] : wire'[d][m] = Note(j)
    BY <2>2, <2>3, <2>6
  <2>8. CASE p \notin Procs
    BY <2>1, <2>5, <2>7, <2>8, FreshFrame DEF OwnsThen, Owns, Fetches
  <2>9. CASE p \in Procs
    <3>1. AnswerRead(p, c)
      BY <1>11, <2>4, <2>9, AnswersAreRead
    <3>2. job[p].at = "wait" /\ job[p].conn = c
      BY <3>1 DEF AnswerRead
    <3>3. /\ job'[p].conn = c /\ job'[p].kind = job[p].kind
          /\ job'[p].at \in {"fetch", "store"}
      BY <3>1 DEF AnswerRead
    <3>4. \A q \in Procs : OwnsThen(q, d, j) <=> Owns(q, d, j)
      BY <2>5, <3>2, <3>3 DEF OwnsThen, Owns, Fetches
    <3>5. ~Due(d, j)
      BY <2>1, <2>5, <2>7 DEF Due
    <3>6. Fresh(d, j)
      BY <3>5 DEF FreshInv
    <3>7. ASSUME Owns(p, d, j), SoFar(job[p], d, j) PROVE SoFar(job'[p], d, j)
      <4>1. c = d /\ job[p].kind = j
        BY <3>2, <3>7 DEF Owns
      <4>2. RepliesFresh(d, j)
        BY <3>6 DEF Fresh
      <4> QED BY <2>9, <3>1, <3>7, <4>1, <4>2, AnswerIsSoFar
    <3> QED BY <2>1, <2>5, <2>7, <3>4, <3>7, FreshFrame
  <2> QED BY <2>8, <2>9
<1>12. ASSUME NEW l \in Listeners, CallFails(l) PROVE ToThePage \/ Fresh(d, j)'
  <2>1. call[l].prov \in Conns
    BY <1>12 DEF CallFails, CallInv, IdleCall, NamedCall, RoutedCall
  <2>2. Forgotten(l, call[l].prov) /\ UNCHANGED <<page, catalog, sync, spawned, job>>
    BY <1>12, <2>1, ForgetForgets DEF CallFails
  <2>3. \A i \in DOMAIN wire[d] : wire[d][i] = Note(j) =>
          \E m \in DOMAIN wire'[d] : wire'[d][m] = Note(j)
    <3>1. Note(j).type = "note"
      BY DEF Note
    <3>2. CASE d = call[l].prov
      <4>1. \A i \in DOMAIN wire[d] : wire[d][i].type = "note" =>
              \E m \in DOMAIN wire'[d] : wire'[d][m] = wire[d][i]
        BY <2>2, <3>2 DEF Forgotten
      <4> QED BY <3>1, <4>1
    <3>3. CASE d # call[l].prov
      <4>1. wire'[d] = wire[d]
        BY <2>2, <3>3 DEF Forgotten
      <4> QED BY <4>1
    <3> QED BY <3>2, <3>3
  <2> QED BY <2>2, <2>3, FreshFrame DEF OwnsThen, Owns, Fetches
<1> USE DEF bridge, registry, naming, catalogs, links,
           workers, shutdown, browser, clients, engine, outside
<1>13. CASE UNCHANGED <<page, catalog, sync, job, spawned, wire>>
  BY <1>13, FreshFrame DEF OwnsThen, Owns, Fetches
<1>14. ASSUME NEW c \in Conns,
       \/ Connect(c)
       \/ Initialized(c)
       \/ InitializeFails(c)
       \/ Register(c)
       \/ SetNotificationHandler(c)
       \/ SetCloseHandler(c)
       \/ ProviderClosed(c)
       \/ HangupRebuild(c)
       \/ HangupBroadcast(c)
     PROVE  ToThePage \/ Fresh(d, j)'
  BY <1>13, <1>14
     DEF Connect, Initialized, InitializeFails, Register, SetNotificationHandler,
         SetCloseHandler, ProviderClosed, HangupRebuild, HangupBroadcast
<1>15. ASSUME NEW p \in Peers, Disconnect(p)
      PROVE  ToThePage \/ Fresh(d, j)'
  BY <1>13, <1>15 DEF Disconnect
<1>16. ASSUME NEW a \in Agents, AgentAttach(a) \/ AgentServe(a) \/ AgentClosed(a)
      PROVE  ToThePage \/ Fresh(d, j)'
  BY <1>13, <1>16 DEF AgentAttach, AgentServe, AgentClosed
<1>17. ASSUME NEW s \in Sessions, OpenHTTPSession(s) \/ SessionClose(s) \/ SessionDeregister(s)
      PROVE  ToThePage \/ Fresh(d, j)'
  BY <1>13, <1>17 DEF OpenHTTPSession, SessionClose, SessionDeregister
<1>18. ASSUME NEW l \in Listeners, RouteFound(l) \/ RouteMissing(l) \/ CallSend(l)
      PROVE  ToThePage \/ Fresh(d, j)'
  BY <1>13, <1>18 DEF RouteFound, RouteMissing, CallSend
<1>19. ASSUME NEW l \in Listeners, NEW k \in Kinds, List(l, k) \/ Call(l, k)
      PROVE  ToThePage \/ Fresh(d, j)'
  BY <1>13, <1>19 DEF List, Call
<1>20. CASE IdleTimerFires \/ DaemonClose \/ IdleClose \/ CloseReturns
  BY <1>13, <1>20 DEF IdleTimerFires, DaemonClose, IdleClose, CloseReturns
<1>21. ASSUME NEW x \in Peers \cup Sessions, CloseNext(x)
      PROVE  ToThePage \/ Fresh(d, j)'
  BY <1>13, <1>21 DEF CloseNext
<1>22. CASE UNCHANGED vars
  BY <1>13, <1>22 DEF vars
<1> QED
  BY <1>1, <1>2, <1>3, <1>4, <1>5, <1>6, <1>7, <1>8, <1>9, <1>10, <1>11, <1>12, <1>13,
     <1>14, <1>15, <1>16, <1>17, <1>18, <1>19, <1>20, <1>21, <1>22
     DEF Next, AttachStep, ReadStep, HangupStep, RefreshStep, CallStep, CloseStep

\* The request for a page leaves what its fetch has.
LEMMA FetchPageKeepsFresh ==
  ASSUME RoutingInv, FreshInv, NEW d \in Conns, NEW j \in Kinds, Reached(d), j \in Caps[d],
         ~TodoDue(d, j), ~Due(d, j)', NEW p \in Procs, FetchPage(p)
  PROVE  Fresh(d, j)'
<1> USE DEF RoutingInv
<1>1. PICK c : c = job[p].conn
  OBVIOUS
<1>2. /\ job[p].at = "fetch" /\ UNCHANGED <<wire, page, catalog, sync, spawned>>
      /\ \A q \in Procs : q # p => job'[q] = job[q]
      /\ job'[p].at = IF peer[c] = "open" THEN "wait" ELSE "store"
      /\ job'[p].conn = c /\ job'[p].kind = job[p].kind /\ job'[p].page = job[p].page
      /\ job'[p].acc = job[p].acc /\ job'[p].again = job[p].again
  BY <1>1, FetchPageEffect
<1>3. Fresh(d, j)
  <2>1. ~Due(d, j)
    BY <1>2 DEF Due
  <2> QED BY <2>1 DEF FreshInv
<1>4. \A q \in Procs : OwnsThen(q, d, j) <=> Owns(q, d, j)
  BY <1>1, <1>2 DEF OwnsThen, Owns, Fetches
<1>5. ASSUME NEW q \in Procs, Owns(q, d, j), SoFar(job[q], d, j)
      PROVE  SoFar(job'[q], d, j)
  <2>1. CASE q # p
    BY <1>2, <1>5, <2>1
  <2>2. CASE q = p
    <3>1. c = d
      BY <1>1, <1>5, <2>2 DEF Owns
    <3>2. job'[p].at = "wait"
      BY <1>2, <3>1 DEF Reached
    <3> QED BY <1>2, <1>5, <2>2, <3>2 DEF SoFar
  <2> QED BY <2>1, <2>2
<1>6. RepliesFresh(d, j)'
  <2> SUFFICES ASSUME NEW i \in DOMAIN wire'[d], Reply(wire'[d][i]),
                      job'[wire'[d][i].proc].kind = j
               PROVE  wire'[d][i].names =
                        {x \in page'[d][j] : PageOf[x] = job'[wire'[d][i].proc].page}
    BY DEF RepliesFresh, Reply
  <2>1. wire' = wire /\ Awaits(wire[d][i].proc, d) /\ wire[d][i].proc \in Procs
    BY <1>2 DEF WireInv, Reply
  <2>2. job'[wire[d][i].proc] = job[wire[d][i].proc]
    BY <1>2, <2>1 DEF Awaits
  <2> QED BY <1>2, <1>3, <2>1, <2>2 DEF Fresh, RepliesFresh
<1> QED BY <1>2, <1>3, <1>4, <1>5, <1>6, FreshKept

\* The page answers from the catalog it has.
LEMMA PageAnswersKeepsFresh ==
  ASSUME RoutingInv, AskInv, FreshInv, NEW d \in Conns, NEW j \in Kinds, Reached(d),
         j \in Caps[d], ~TodoDue(d, j), ~Due(d, j)', NEW c \in Conns, PageAnswers(c)
  PROVE  Fresh(d, j)'
<1> USE DEF RoutingInv
<1>1. /\ UNCHANGED <<job, page, catalog, sync, spawned>>
      /\ \A e \in Conns : e # c => wire'[e] = wire[e]
  BY PageAnswersEffect
<1> DEFINE n == Len(wire[c]) + 1
<1>2. PICK r \in asked[c] :
        /\ DOMAIN wire'[c] = 1..n /\ DOMAIN wire[c] = 1..Len(wire[c]) /\ Len(wire[c]) \in Nat
        /\ \A i \in DOMAIN wire[c] : wire'[c][i] = wire[c][i]
        /\ wire'[c][n].proc = r.proc
        /\ wire'[c][n].names = {x \in page[c][r.kind] : PageOf[x] = r.page}
  BY PageAnswersEffect
<1>3. /\ \A i \in DOMAIN wire[c] : i \in DOMAIN wire'[c] /\ wire'[c][i] = wire[c][i]
      /\ \A i \in DOMAIN wire'[c] : i \in DOMAIN wire[c] \/ i = n
  BY <1>2
<1> HIDE DEF n
<1>4. Fresh(d, j)
  <2>1. \A i \in DOMAIN wire[d] : i \in DOMAIN wire'[d] /\ wire'[d][i] = wire[d][i]
    BY <1>1, <1>3
  <2>2. ~Due(d, j)
    BY <1>1, <2>1 DEF Due
  <2> QED BY <2>2 DEF FreshInv
<1>5. RepliesFresh(d, j)'
  <2> SUFFICES ASSUME NEW i \in DOMAIN wire'[d], Reply(wire'[d][i]),
                      job'[wire'[d][i].proc].kind = j
               PROVE  wire'[d][i].names =
                        {x \in page'[d][j] : PageOf[x] = job'[wire'[d][i].proc].page}
    BY DEF RepliesFresh, Reply
  <2>1. CASE i \in DOMAIN wire[d] /\ wire'[d][i] = wire[d][i]
    BY <1>1, <1>4, <2>1 DEF Fresh, RepliesFresh
  <2>2. CASE d = c /\ i = n
    <3>1. r.proc \in Procs /\ job[r.proc].kind = j
      BY <1>1, <1>2, <2>2 DEF Reply
    <3>2. r.kind = j
      BY <3>1 DEF WireInv
    <3>3. r.page = job[r.proc].page
      BY <3>1 DEF AskInv
    <3> QED BY <1>1, <1>2, <2>2, <3>2, <3>3
  <2> QED BY <1>1, <1>3, <2>1, <2>2
<1> QED BY <1>1, <1>4, <1>5, FreshKept DEF OwnsThen, Owns, Fetches

\* attachProvider begins its own fetch of a catalog with what was to do of it.
LEMMA AttachBeginsFresh ==
  ASSUME PagesFit, RoutingInv, NEW d \in Conns, NEW j \in Kinds, j \in Caps[d],
         TodoDue(d, j), ~Due(d, j)', AttachRefresh(d), NothingNew(d)
  PROVE  Fresh(d, j)'
<1> USE DEF RoutingInv
<1> DEFINE n == Len(todo[d])
<1>1. todo[d] \in Seq(Kinds) /\ n \in Nat /\ DOMAIN todo[d] = 1..n
  BY DEF LinkTypes
<1>2. todo[d] # <<>> /\ j \in ToSet(todo[d])
  BY DEF TodoDue, ToSet
<1>3. todo'[d] = Tail(todo[d]) /\ attach'[d] = "refresh"
  BY <1>2 DEF AttachRefresh, LinkTypes
<1>4. j \notin ToSet(Tail(todo[d]))
  BY <1>3 DEF Due, TodoDue
<1>5. /\ n \in Nat \ {0} /\ DOMAIN Tail(todo[d]) = 1..(n - 1)
      /\ \A i \in 1..(n - 1) : Tail(todo[d])[i] = todo[d][i + 1]
      /\ Head(todo[d]) = todo[d][1]
  BY <1>1, <1>2, HeadAndTail
<1> HIDE DEF n
<1>6. j = Head(todo[d])
  <2>1. PICK i \in 1..n : j = todo[d][i]
    BY <1>1, <1>2 DEF ToSet
  <2>2. CASE i = 1
    BY <1>5, <2>1, <2>2
  <2>3. CASE i # 1
    <3>1. i - 1 \in 1..(n - 1) /\ (i - 1) + 1 = i
      BY <1>5, <2>3
    <3>2. Tail(todo[d])[i - 1] = j
      BY <1>5, <2>1, <3>1
    <3> QED BY <1>4, <1>5, <3>1, <3>2 DEF ToSet
  <2> QED BY <2>2, <2>3
<1>7. job[d] = IdleJob /\ EnterRefresh(d, d, j) /\ page' = page
  BY <1>2, <1>6 DEF AttachRefresh, outside, browser
<1> QED BY <1>7, EnteringIsFresh DEF Procs

\* FreshInv is inductive.
LEMMA FreshNext ==
  ASSUME PagesFit, RoutingInv, LabelInv, TodoInv, AskInv, FreshInv, [Next]_vars
  PROVE  FreshInv'
<1> SUFFICES ASSUME NEW d \in Conns, NEW j \in Kinds, Reached(d)', j \in Caps[d], ~Due(d, j)'
             PROVE  Fresh(d, j)'
  BY DEF FreshInv
<1>1. CASE AttachRefresh(d) /\ TodoDue(d, j)
  <2>1. ~ToThePage
    <3>1. SUFFICES todo' # todo
      BY DEF ToThePage, FetchPage, PageAnswers, links
    <3>2. todo[d] # <<>> /\ attach[d] = "refresh" /\ attach'[d] = attach[d]
      BY <1>1 DEF TodoDue, ToSet, AttachRefresh
    <3> QED BY <1>1, <3>2 DEF Due, TodoDue
  <2> QED BY <1>1, <2>1, WireSteps, AttachBeginsFresh
<1>2. CASE Reached(d) /\ ~TodoDue(d, j)
  BY <1>2, WireSteps, FreshSteps, FetchPageKeepsFresh, PageAnswersKeepsFresh DEF ToThePage
<1>3. ASSUME AttachRefresh(d) PROVE Reached(d)
  BY <1>3 DEF AttachRefresh, Reached
<1>4. ~TodoDue(d, j)'
  BY DEF Due
<1> QED BY <1>1, <1>2, <1>3, <1>4, ReachedBefore DEF WasReached

-----------------------------------------------------------------------------
(***************************************************************************)
(* The theorems.                                                           *)
(***************************************************************************)
\* What a listing rests on, and what a stored catalog rests on besides.
ShownInv == EarlyInv /\ ListenerInv /\ ListingInv

StoredInv == OwnedInv /\ TodoInv /\ AskInv /\ FreshInv

\* Both hold of the empty bridge.
LEMMA CatalogInit == Init => ShownInv /\ StoredInv
<1> SUFFICES ASSUME Init PROVE ShownInv /\ StoredInv
  OBVIOUS
<1>1. EarlyInv
  BY DEF Init, EarlyInv, IdleJob
<1>2. ListenerInv /\ ListingInv
  <2>1. view = [l \in Listeners |-> [k \in Kinds |-> view[l][k]]]
    BY DEF Init
  <2>2. \A l \in Listeners, k \in Kinds : view[l][k] = Unlisted
    BY DEF Init
  <2> QED BY <2>1, <2>2 DEF Init, ListenerInv, ListingInv, Peers
<1>3. OwnedInv /\ TodoInv
  BY DEF Init, OwnedInv, TodoInv, Peers
<1>4. AskInv
  BY DEF Init, AskInv
<1>5. FreshInv
  BY DEF Init, FreshInv, Reached, Peers
<1> QED BY <1>1, <1>2, <1>3, <1>4, <1>5 DEF ShownInv, StoredInv

\* What an agent or an HTTP session last listed is what the bridge exposes to its
\* partition, unless a list_changed for it is under way, it has been told, or, for a
\* session, the notification was lost with a full buffer or a broken stream: whatever
\* connects, hangs up, stores or closes in between, no broadcast of notifyChanged and
\* of a hang-up is forgotten.
THEOREM ListingsConverge == Spec => []NoStaleListing
<1>1. LifeInv /\ LabelInv /\ RoutingInv /\ ShownInv /\ [Next]_vars => ShownInv'
  BY EarlyNext, ListenerNext, ListingNext DEF ShownInv
<1>2. LifeInv /\ ShownInv => NoStaleListing
  <2> SUFFICES ASSUME LifeInv, ShownInv, NEW l \in Listeners, NEW k \in Kinds, Live(l),
                      view[l][k] # Unlisted, k \notin notes[l],
                      <<l, k>> \notin missed, ~NotifyPending(profileKey[l], k)
               PROVE  view[l][k] = Exposed(profileKey[l], k)
    BY DEF NoStaleListing
  <2>1. l \in agents \cup sessions
    BY DEF Live, ShownInv, ListenerInv, Listeners
  <2> QED BY <2>1 DEF ShownInv, ListingInv, Listed
<1>3. Init => ShownInv
  BY CatalogInit
<1> QED BY <1>1, <1>2, <1>3, Lifecycle, Labelled, Routing, PTL DEF Spec

\* What is advertised is what is routed, whatever connects, hangs up, stores or rebuilds in
\* between: the listing of a partition and the routing tables are computed by different
\* code, in different sections and with opposite precedences, and agree outside the window
\* between a store and its rebuild. NamesApart is needed: NamespaceName joins label and
\* name with "__" and the code does not keep other names from having it.
THEOREM RoutedAsAdvertised == Spec => [](NamesApart => AdvertisedIsRouted)
<1>1. LifeInv /\ LabelInv /\ RoutingInv /\ EarlyInv /\ TablesCurrent /\ [Next]_vars
      => EarlyInv' /\ TablesCurrent'
  BY EarlyNext, TablesNext
<1>2. LabelInv /\ RoutingInv /\ TablesCurrent => (NamesApart => AdvertisedIsRouted)
  <2> SUFFICES ASSUME LabelInv, RoutingInv, TablesCurrent, NamesApart, ~RebuildPending
               PROVE  AdvertisedIsRouted
    BY DEF AdvertisedIsRouted
  <2> QED BY CurrentTablesAgree DEF LabelInv, RoutingInv, TablesCurrent
<1>3. Init => EarlyInv /\ TablesCurrent
  <2> SUFFICES ASSUME Init PROVE EarlyInv /\ TablesCurrent
    OBVIOUS
  <2>1. EarlyInv
    BY CatalogInit DEF ShownInv
  <2>2. routes = RoutesOver(providers)
    BY DEF Init, RoutesOver
  <2> QED BY <2>1, <2>2 DEF TablesCurrent
<1> QED BY <1>1, <1>2, <1>3, Lifecycle, Labelled, Routing, PTL DEF Spec

\* No list_changed is lost: not one that arrives before attachProvider has its handlers,
\* not one that joins a fetch under way, however many pages the fetch has and however
\* the page answers. Once nothing is on its way, what refreshCatalog stored for a live
\* provider is the page's catalog. PagesFit is needed: a fetch that fails, or that has more
\* pages than it follows, stores less.
THEOREM CatalogsAreCurrent ==
  ASSUME PagesFit
  PROVE  Spec => []NoStaleCatalog
<1>1. /\ LifeInv /\ LabelInv /\ RoutingInv /\ StoredInv /\ [Next]_vars
      => StoredInv'
  BY OwnedNext, TodoNext, AskNext, FreshNext DEF StoredInv
<1>2. LabelInv /\ RoutingInv /\ StoredInv => NoStaleCatalog
  <2> SUFFICES ASSUME LabelInv, RoutingInv, StoredInv, NEW c \in providers, NEW k \in Kinds,
                      peer[c] = "open", k \in Caps[c], ~RefreshPending(c, k)
               PROVE  catalog[c][k] = page[c][k]
    BY DEF NoStaleCatalog
  <2> USE DEF RoutingInv, StoredInv
  <2>1. c \in Conns
    BY DEF LabelInv
  <2>2. attach[c] = "served" /\ ~(spawned[c][k] > 0)
    BY DEF RefreshPending
  <2>3. \A p \in Procs : ~Owns(p, c, k)
    BY DEF RefreshPending, Owns, IdleJob
  <2>4. ~sync[c][k].dirty
    BY <2>1, <2>3 DEF OwnedInv
  <2>5. ~Due(c, k)
    BY <2>2, <2>4 DEF RefreshPending, Due, Note, TodoDue
  <2>6. Fresh(c, k)
    BY <2>1, <2>2, <2>5 DEF FreshInv, Reached
  <2> QED BY <2>3, <2>6 DEF Fresh, StoredFresh
<1>3. Init => StoredInv
  BY CatalogInit
<1> QED BY <1>1, <1>2, <1>3, Lifecycle, Labelled, Routing, PTL DEF Spec

=============================================================================
