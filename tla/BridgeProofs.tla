---------------------------- MODULE BridgeProofs ----------------------------
(***************************************************************************)
(* Proofs about Bridge, for any number of connections, agents and sessions *)
(* and any catalogs.                                                       *)
(*                                                                         *)
(* LifeInv is the inductive invariant behind agentConnections and the idle *)
(* timer; LabelInv the one behind the uniqueness of labels.                *)
(*                                                                         *)
(* RoutingInv is inductive relative to these: stamps (StampInv), types     *)
(* (CatalogTypes, LinkTypes), the label store (IsStore), what is on the    *)
(* wire of a page (WireInv), who is inside refreshCatalog's loop           *)
(* (FlightInv), the routing tables (RouteInv) and the calls (CallInv).     *)
(* Each part has a lemma that every step keeps it, with one step of the    *)
(* proof per action that disturbs the part.                                *)
(***************************************************************************)
EXTENDS Bridge, TLAPS, FiniteSetTheorems, WellFoundedInduction, SequenceTheorems

Places == {"none", "init", "built", "notify", "onclose", "refresh", "served",
           "failed"}

SessionStates == {"none", "open", "closing", "closed"}

LifeTypes ==
  /\ providers \subseteq Conns /\ agents \subseteq Agents
  /\ sessions \subseteq Sessions
  /\ agentConnections \in Nat
  /\ idleTimer \in {"nil", "armed", "fired"}
  /\ closed \in BOOLEAN
  /\ attach \in [Peers -> Places]
  /\ sess \in [Sessions -> SessionStates]

\* Nobody is registered before it has attached, or opened.
NobodyEarly ==
  /\ \A a \in agents : attach[a] # "none"
  /\ \A s \in sessions : sess[s] # "none"

LifeInv == LifeTypes /\ NobodyEarly /\ AgentCountExact /\ IdleTimerExact

-----------------------------------------------------------------------------
(***************************************************************************)
(* The two inputs of checkIdleLocked.                                      *)
(***************************************************************************)
\* The registered agents and sessions can be counted.
LEMMA Countable ==
  ASSUME LifeTypes
  PROVE  /\ IsFiniteSet(agents) /\ Cardinality(agents) \in Nat
         /\ IsFiniteSet(sessions) /\ Cardinality(sessions) \in Nat
<1>1. IsFiniteSet(agents) /\ IsFiniteSet(sessions)
  BY ActorsFinite, FS_Subset DEF LifeTypes
<1> QED BY <1>1, FS_CardinalityType

\* checkIdleLocked establishes IdleTimerExact for the providers and the count it
\* is given, if it held before.
LEMMA CheckIdleExact ==
  ASSUME LifeTypes, IdleTimerExact, NEW provs, NEW count \in Nat,
         CheckIdle(provs, count)
  PROVE  /\ idleTimer' \in {"nil", "armed", "fired"}
         /\ (idleTimer' # "nil") <=>
              (IdleTimeout /\ ~closed /\ provs = {} /\ count = 0)
BY DEF CheckIdle, IdleTimerExact, LifeTypes, Idle

\* Steps that register and deregister nobody.
Quiet ==
  /\ UNCHANGED registry
  /\ attach' \in [Peers -> Places]
  /\ \A a \in Agents : attach[a] # "none" => attach'[a] # "none"
  /\ sess' \in [Sessions -> SessionStates]
  /\ \A s \in Sessions : sess[s] # "none" => sess'[s] # "none"

LEMMA QuietKeepsLifeInv ==
  ASSUME LifeInv, Quiet
  PROVE  LifeInv'
BY DEF LifeInv, Quiet, LifeTypes, NobodyEarly, AgentCountExact, IdleTimerExact,
       Idle, registry

\* A connection is no agent, so what happens to it leaves the agents alone.
LEMMA ConnIsNoAgent == ASSUME NEW c \in Conns PROVE c \in Peers /\ c \notin Agents
BY ActorsDistinct DEF Peers

-----------------------------------------------------------------------------
LEMMA AttachIsQuiet ==
  ASSUME LifeTypes, NEW c \in Conns,
         \/ Connect(c) \/ Initialized(c) \/ InitializeFails(c)
         \/ SetNotificationHandler(c) \/ SetCloseHandler(c) \/ AttachRefresh(c)
  PROVE  Quiet
<1> USE ConnIsNoAgent DEF Quiet, LifeTypes, Places, links, bridge, registry
<1>1. CASE Connect(c) BY <1>1 DEF Connect
<1>2. CASE Initialized(c) BY <1>2 DEF Initialized
<1>3. CASE InitializeFails(c) BY <1>3 DEF InitializeFails
<1>4. CASE SetNotificationHandler(c) BY <1>4 DEF SetNotificationHandler
<1>5. CASE SetCloseHandler(c) BY <1>5 DEF SetCloseHandler
<1>6. CASE AttachRefresh(c)
  <2>1. /\ UNCHANGED <<registry, sess>>
        /\ attach' = attach \/ attach' = [attach EXCEPT ![c] = "served"]
    BY <1>6 DEF AttachRefresh
  <2>2. CASE attach' = attach BY <2>1, <2>2
  <2>3. CASE attach' = [attach EXCEPT ![c] = "served"] BY <2>1, <2>3
  <2> QED BY <2>1, <2>2, <2>3
<1> QED BY <1>1, <1>2, <1>3, <1>4, <1>5, <1>6

LEMMA WorkIsQuiet ==
  ASSUME LifeTypes,
         \/ \E c \in Conns : \/ ReadStep(c) \/ PageAnswers(c)
                             \/ HangupRebuild(c) \/ HangupBroadcast(c)
         \/ \E c \in Conns, k \in Kinds : PageChanges(c, k)
         \/ \E p \in Runners, c \in Conns, k \in Kinds : SpawnedRefresh(p, c, k)
         \/ \E p \in Procs : RefreshStep(p)
         \/ \E p \in Peers : Disconnect(p)
         \/ \E l \in Listeners : CallStep(l)
         \/ \E l \in Listeners, k \in Kinds : List(l, k) \/ Call(l, k)
         \/ CloseReturns
  PROVE  Quiet
<1>1. UNCHANGED <<registry, attach, sess>>
  <2> USE DEF registry, links, bridge
  <2>1. ASSUME NEW c \in Conns, ReadStep(c)
        PROVE  UNCHANGED <<registry, attach, sess>>
    BY <2>1 DEF ReadStep, ReadNotification, ReadResponse
  <2>2. ASSUME NEW c \in Conns,
               PageAnswers(c) \/ HangupRebuild(c) \/ HangupBroadcast(c)
        PROVE  UNCHANGED <<registry, attach, sess>>
    BY <2>2 DEF PageAnswers, HangupRebuild, HangupBroadcast
  <2>3. ASSUME NEW c \in Conns, NEW k \in Kinds, PageChanges(c, k)
        PROVE  UNCHANGED <<registry, attach, sess>>
    BY <2>3 DEF PageChanges
  <2>4. ASSUME NEW p \in Runners, NEW c \in Conns, NEW k \in Kinds,
               SpawnedRefresh(p, c, k)
        PROVE  UNCHANGED <<registry, attach, sess>>
    BY <2>4 DEF SpawnedRefresh
  <2>5. ASSUME NEW p \in Procs, RefreshStep(p)
        PROVE  UNCHANGED <<registry, attach, sess>>
    BY <2>5 DEF RefreshStep, FetchPage, FetchFails, StoreCatalog, JobRebuild,
                JobBroadcast
  <2>6. ASSUME NEW p \in Peers, Disconnect(p)
        PROVE  UNCHANGED <<registry, attach, sess>>
    BY <2>6 DEF Disconnect
  <2>7. ASSUME NEW l \in Listeners, CallStep(l)
        PROVE  UNCHANGED <<registry, attach, sess>>
    BY <2>7 DEF CallStep, RouteFound, RouteMissing, CallSend, CallFails
  <2>8. ASSUME NEW l \in Listeners, NEW k \in Kinds, List(l, k) \/ Call(l, k)
        PROVE  UNCHANGED <<registry, attach, sess>>
    BY <2>8 DEF List, Call
  <2>9. ASSUME CloseReturns
        PROVE  UNCHANGED <<registry, attach, sess>>
    BY <2>9 DEF CloseReturns
  <2> QED BY <2>1, <2>2, <2>3, <2>4, <2>5, <2>6, <2>7, <2>8, <2>9
<1> QED BY <1>1 DEF Quiet, LifeTypes

LEMMA ClosingIsQuiet ==
  ASSUME LifeTypes,
         \/ \E a \in Agents : AgentServe(a)
         \/ \E s \in Sessions : SessionClose(s)
         \/ \E x \in Peers \cup Sessions : CloseNext(x)
  PROVE  Quiet
<1> USE DEF Quiet, LifeTypes, Places, SessionStates, bridge, registry
<1>1. ASSUME NEW a \in Agents, AgentServe(a) PROVE Quiet
  BY <1>1 DEF AgentServe, Peers
<1>2. ASSUME NEW s \in Sessions, SessionClose(s) PROVE Quiet
  BY <1>2 DEF SessionClose
<1>3. ASSUME NEW x \in Peers \cup Sessions, CloseNext(x) PROVE Quiet
  BY <1>3 DEF CloseNext
<1> QED BY <1>1, <1>2, <1>3

-----------------------------------------------------------------------------
(***************************************************************************)
(* The sections that register or deregister somebody.                      *)
(***************************************************************************)
LEMMA ProvidersKeepLifeInv ==
  ASSUME LifeInv, NEW c \in Conns, Register(c) \/ ProviderClosed(c)
  PROVE  LifeInv'
<1> USE DEF LifeInv
<1>1. UNCHANGED <<agents, sessions, agentConnections, closed, sess>>
  BY DEF Register, ProviderClosed
<1>2. /\ providers' \subseteq Conns
      /\ attach' \in [Peers -> Places]
      /\ \A a \in Agents : attach'[a] = attach[a]
  <2>1. providers' \in {providers, providers \cup {c}, providers \ {c}}
    BY DEF Register, ProviderClosed
  <2>2. \/ attach' = attach
        \/ attach' = [attach EXCEPT ![c] = "failed"]
        \/ attach' = [attach EXCEPT ![c] = "notify"]
    BY DEF Register, ProviderClosed
  <2>3. attach \in [Peers -> Places] /\ providers \subseteq Conns
    BY DEF LifeTypes
  <2>4. attach' \in [Peers -> Places] /\ \A a \in Agents : attach'[a] = attach[a]
    <3>1. c \in Peers /\ \A a \in Agents : a \in Peers /\ a # c
      BY ConnIsNoAgent DEF Peers
    <3> QED BY <2>2, <2>3, <3>1 DEF Places
  <2> QED BY <2>1, <2>3, <2>4
<1>3. IdleTimerExact' /\ idleTimer' \in {"nil", "armed", "fired"}
  <2>1. CASE UNCHANGED <<providers, idleTimer>>
    BY <1>1, <2>1 DEF IdleTimerExact, Idle, LifeTypes
  <2>2. CASE CheckIdle(providers', agentConnections)
    <3>1. agentConnections \in Nat BY DEF LifeTypes
    <3> QED BY <1>1, <2>2, <3>1, CheckIdleExact DEF IdleTimerExact, Idle
  <2> QED BY <2>1, <2>2 DEF Register, ProviderClosed
<1>4. LifeTypes'
  BY <1>1, <1>2, <1>3 DEF LifeTypes
<1>5. NobodyEarly' /\ AgentCountExact'
  BY <1>1, <1>2 DEF NobodyEarly, AgentCountExact, LifeTypes
<1> QED BY <1>3, <1>4, <1>5

SlotsTyped ==
  /\ agents' \subseteq Agents /\ sessions' \subseteq Sessions
  /\ attach' \in [Peers -> Places]
  /\ sess' \in [Sessions -> SessionStates]
  /\ NobodyEarly'

\* TakeSlot and ReleaseSlot keep the timer exact; the count follows the sets.
LEMMA SlotsKeepLifeInv ==
  ASSUME LifeInv,
         \/ \E a \in Agents : AgentAttach(a) \/ AgentClosed(a)
         \/ \E s \in Sessions : OpenHTTPSession(s) \/ SessionDeregister(s)
  PROVE  LifeInv'
<1> USE DEF LifeInv
<1>1. UNCHANGED <<providers, closed>>
  BY DEF AgentAttach, AgentClosed, OpenHTTPSession, SessionDeregister
<1>2. SlotsTyped
  <2> USE DEF SlotsTyped, LifeTypes, NobodyEarly, Places, SessionStates
  <2>1. ASSUME NEW a \in Agents, AgentAttach(a)
        PROVE  SlotsTyped
    BY <2>1 DEF AgentAttach, Peers
  <2>2. ASSUME NEW a \in Agents, AgentClosed(a)
        PROVE  SlotsTyped
    BY <2>2 DEF AgentClosed
  <2>3. ASSUME NEW s \in Sessions, OpenHTTPSession(s)
        PROVE  SlotsTyped
    BY <2>3 DEF OpenHTTPSession
  <2>4. ASSUME NEW s \in Sessions, SessionDeregister(s)
        PROVE  SlotsTyped
    BY <2>4 DEF SessionDeregister
  <2> QED BY <2>1, <2>2, <2>3, <2>4
<1>3. \/ UNCHANGED <<agents, sessions, agentConnections, idleTimer>>
      \/ TakeSlot /\ \/ \E a \in Agents \ agents :
                          agents' = agents \cup {a} /\ UNCHANGED sessions
                     \/ \E s \in Sessions \ sessions :
                          sessions' = sessions \cup {s} /\ UNCHANGED agents
      \/ ReleaseSlot /\ \/ \E a \in agents :
                             agents' = agents \ {a} /\ UNCHANGED sessions
                        \/ \E s \in sessions :
                             sessions' = sessions \ {s} /\ UNCHANGED agents
  BY DEF AgentAttach, AgentClosed, OpenHTTPSession, SessionDeregister,
         NobodyEarly
<1>4. agentConnections' \in Nat /\ AgentCountExact'
  <2> /\ IsFiniteSet(agents) /\ Cardinality(agents) \in Nat
      /\ IsFiniteSet(sessions) /\ Cardinality(sessions) \in Nat
    BY Countable
  <2>1. CASE UNCHANGED <<agents, sessions, agentConnections, idleTimer>>
    BY <2>1 DEF AgentCountExact, LifeTypes
  <2>2. CASE TakeSlot /\ \E a \in Agents \ agents :
                           agents' = agents \cup {a} /\ UNCHANGED sessions
    <3>1. PICK a \in Agents \ agents :
            agents' = agents \cup {a} /\ UNCHANGED sessions
      BY <2>2
    <3>2. Cardinality(agents') = Cardinality(agents) + 1
      BY <3>1, FS_AddElement
    <3> QED BY <2>2, <3>1, <3>2 DEF TakeSlot, AgentCountExact
  <2>3. CASE TakeSlot /\ \E s \in Sessions \ sessions :
                           sessions' = sessions \cup {s} /\ UNCHANGED agents
    <3>1. PICK s \in Sessions \ sessions :
            sessions' = sessions \cup {s} /\ UNCHANGED agents
      BY <2>3
    <3>2. Cardinality(sessions') = Cardinality(sessions) + 1
      BY <3>1, FS_AddElement
    <3> QED BY <2>3, <3>1, <3>2 DEF TakeSlot, AgentCountExact
  <2>4. CASE ReleaseSlot /\ \E a \in agents :
                              agents' = agents \ {a} /\ UNCHANGED sessions
    <3>1. PICK a \in agents : agents' = agents \ {a} /\ UNCHANGED sessions
      BY <2>4
    <3>2. Cardinality(agents') = Cardinality(agents) - 1
          /\ Cardinality(agents') \in Nat
      BY <3>1, FS_RemoveElement, FS_CardinalityType
    <3> QED BY <2>4, <3>1, <3>2 DEF ReleaseSlot, AgentCountExact
  <2>5. CASE ReleaseSlot /\ \E s \in sessions :
                              sessions' = sessions \ {s} /\ UNCHANGED agents
    <3>1. PICK s \in sessions : sessions' = sessions \ {s} /\ UNCHANGED agents
      BY <2>5
    <3>2. Cardinality(sessions') = Cardinality(sessions) - 1
          /\ Cardinality(sessions') \in Nat
      BY <3>1, FS_RemoveElement, FS_CardinalityType
    <3> QED BY <2>5, <3>1, <3>2 DEF ReleaseSlot, AgentCountExact
  <2> QED BY <1>3, <2>1, <2>2, <2>3, <2>4, <2>5
<1>5. IdleTimerExact' /\ idleTimer' \in {"nil", "armed", "fired"}
  <2>1. CASE UNCHANGED <<agentConnections, idleTimer>>
    BY <1>1, <2>1 DEF IdleTimerExact, Idle, LifeTypes
  <2>2. CASE CheckIdle(providers, agentConnections')
    BY <1>1, <1>4, <2>2, CheckIdleExact DEF IdleTimerExact, Idle
  <2> QED BY <1>3, <2>1, <2>2 DEF TakeSlot, ReleaseSlot
<1> QED BY <1>1, <1>2, <1>4, <1>5 DEF LifeTypes, SlotsTyped

LEMMA CloseKeepsLifeInv ==
  ASSUME LifeInv, IdleTimerFires \/ IdleClose \/ DaemonClose
  PROVE  LifeInv'
<1> USE DEF LifeInv, LifeTypes, IdleTimerExact, Idle, NobodyEarly, AgentCountExact,
            links
<1>1. CASE IdleTimerFires BY <1>1 DEF IdleTimerFires
<1>2. CASE IdleClose BY <1>2 DEF IdleClose, CloseSection
<1>3. CASE DaemonClose BY <1>3 DEF DaemonClose, CloseSection
<1> QED BY <1>1, <1>2, <1>3

-----------------------------------------------------------------------------
LEMMA LifeInvInit == Init => LifeInv
<1> SUFFICES ASSUME Init PROVE LifeInv OBVIOUS
<1>1. LifeTypes BY DEF Init, LifeTypes, Places, SessionStates
<1>2. AgentCountExact BY FS_EmptySet DEF Init, AgentCountExact
<1>3. NobodyEarly /\ IdleTimerExact
  BY DEF Init, NobodyEarly, IdleTimerExact, Idle
<1> QED BY <1>1, <1>2, <1>3 DEF LifeInv

LEMMA LifeInvNext == LifeInv /\ [Next]_vars => LifeInv'
<1> SUFFICES ASSUME LifeInv, [Next]_vars PROVE LifeInv' OBVIOUS
<1>1. LifeTypes BY DEF LifeInv
<1>2. CASE Quiet BY <1>2, QuietKeepsLifeInv
<1>3. CASE \E c \in Conns : Connect(c) \/ AttachStep(c)
  BY <1>1, <1>2, <1>3, AttachIsQuiet, ProvidersKeepLifeInv DEF AttachStep
<1>4. CASE \E c \in Conns : HangupStep(c)
  BY <1>1, <1>2, <1>4, WorkIsQuiet, ProvidersKeepLifeInv DEF HangupStep
<1>5. CASE \/ \E c \in Conns : \/ ReadStep(c) \/ PageAnswers(c)
                               \/ \E k \in Kinds : PageChanges(c, k)
           \/ \E p \in Runners, c \in Conns, k \in Kinds : SpawnedRefresh(p, c, k)
           \/ \E p \in Procs : RefreshStep(p)
           \/ \E p \in Peers : Disconnect(p)
           \/ \E l \in Listeners : CallStep(l)
           \/ \E l \in Listeners, k \in Kinds : List(l, k) \/ Call(l, k)
  BY <1>1, <1>2, <1>5, WorkIsQuiet
<1>6. CASE \/ \E a \in Agents : AgentAttach(a) \/ AgentServe(a) \/ AgentClosed(a)
           \/ \E s \in Sessions : \/ OpenHTTPSession(s) \/ SessionClose(s)
                                  \/ SessionDeregister(s)
  BY <1>1, <1>2, <1>6, ClosingIsQuiet, SlotsKeepLifeInv
<1>7. CASE IdleTimerFires \/ DaemonClose \/ CloseStep
  BY <1>1, <1>2, <1>7, ClosingIsQuiet, WorkIsQuiet, CloseKeepsLifeInv DEF CloseStep
<1>8. CASE UNCHANGED vars
  BY <1>8 DEF vars, bridge, links, registry, LifeInv, LifeTypes, NobodyEarly,
              AgentCountExact, IdleTimerExact, Idle
<1> QED BY <1>3, <1>4, <1>5, <1>6, <1>7, <1>8 DEF Next

\* LifeInv holds in every reachable state.
THEOREM Lifecycle == Spec => []LifeInv
BY LifeInvInit, LifeInvNext, PTL DEF Spec

\* agentConnections is the number of registered agents and HTTP sessions, for any
\* number of them and whatever closes them: checkIdleLocked and the dashboard
\* count right.
THEOREM AgentCountIsExact == Spec => []AgentCountExact
<1>1. LifeInv => AgentCountExact BY DEF LifeInv
<1> QED BY <1>1, Lifecycle, PTL

\* The idle timer exists exactly while an open bridge with an idle timeout has
\* neither a provider nor an agent (checkIdleLocked).
THEOREM IdleTimerIsExact == Spec => []IdleTimerExact
<1>1. LifeInv => IdleTimerExact BY DEF LifeInv
<1> QED BY <1>1, Lifecycle, PTL

-----------------------------------------------------------------------------
(***************************************************************************)
(* A closed bridge.                                                        *)
(***************************************************************************)
StaysClosed ==
  closed => /\ closed'
            /\ providers' \subseteq providers
            /\ agents' \subseteq agents /\ sessions' \subseteq sessions

LEMMA StaysClosedNext == LifeInv /\ [Next]_vars => StaysClosed
<1> SUFFICES ASSUME LifeInv, [Next]_vars, closed PROVE StaysClosed
  BY DEF StaysClosed
<1>1. LifeTypes BY DEF LifeInv
<1>2. CASE UNCHANGED registry BY <1>2 DEF registry, StaysClosed
<1>3. CASE Quiet BY <1>2, <1>3 DEF Quiet
<1>4. CASE \E c \in Conns : Connect(c) \/ AttachStep(c)
  <2>1. ASSUME NEW c \in Conns, Register(c) PROVE StaysClosed
    BY <2>1 DEF Register, Refused, StaysClosed
  <2> QED BY <1>1, <1>3, <1>4, <2>1, AttachIsQuiet DEF AttachStep
<1>5. CASE \E c \in Conns : HangupStep(c)
  <2>1. ASSUME NEW c \in Conns, ProviderClosed(c) PROVE StaysClosed
    BY <2>1 DEF ProviderClosed, StaysClosed
  <2> QED BY <1>1, <1>3, <1>5, <2>1, WorkIsQuiet DEF HangupStep
<1>6. CASE \/ \E c \in Conns : \/ ReadStep(c) \/ PageAnswers(c)
                               \/ \E k \in Kinds : PageChanges(c, k)
           \/ \E p \in Runners, c \in Conns, k \in Kinds : SpawnedRefresh(p, c, k)
           \/ \E p \in Procs : RefreshStep(p)
           \/ \E p \in Peers : Disconnect(p)
           \/ \E l \in Listeners : CallStep(l)
           \/ \E l \in Listeners, k \in Kinds : List(l, k) \/ Call(l, k)
  BY <1>1, <1>3, <1>6, WorkIsQuiet
<1>7. CASE \E a \in Agents : AgentAttach(a) \/ AgentServe(a) \/ AgentClosed(a)
  <2>1. ASSUME NEW a \in Agents, AgentAttach(a) \/ AgentClosed(a)
        PROVE  StaysClosed
    BY <2>1 DEF AgentAttach, AgentClosed, Refused, StaysClosed
  <2> QED BY <1>1, <1>3, <1>7, <2>1, ClosingIsQuiet
<1>8. CASE \E s \in Sessions : \/ OpenHTTPSession(s) \/ SessionClose(s)
                               \/ SessionDeregister(s)
  <2>1. ASSUME NEW s \in Sessions, OpenHTTPSession(s) \/ SessionDeregister(s)
        PROVE  StaysClosed
    BY <2>1 DEF OpenHTTPSession, SessionDeregister, Refused, StaysClosed
  <2> QED BY <1>1, <1>3, <1>8, <2>1, ClosingIsQuiet
<1>9. CASE IdleTimerFires \/ DaemonClose \/ CloseStep
  <2>1. CASE IdleTimerFires \/ DaemonClose \/ IdleClose
    BY <2>1 DEF IdleTimerFires, DaemonClose, IdleClose, CloseSection, StaysClosed
  <2> QED BY <1>1, <1>3, <1>9, <2>1, ClosingIsQuiet, WorkIsQuiet DEF CloseStep
<1>10. CASE UNCHANGED vars BY <1>2, <1>10 DEF vars, bridge
<1> QED BY <1>4, <1>5, <1>6, <1>7, <1>8, <1>9, <1>10 DEF Next

\* Once Close has marked the bridge closed nobody is registered any more, however
\* many connections were half-way through attaching (Register, AgentAttach and
\* OpenHTTPSession look at b.closed in the section that registers).
THEOREM ClosedIsForGood == Spec => ClosedForGood
<1>1. LifeInv /\ [Next]_vars => [StaysClosed]_vars
  BY StaysClosedNext
<1> QED BY <1>1, Lifecycle, PTL DEF Spec, ClosedForGood, StaysClosed

-----------------------------------------------------------------------------
(***************************************************************************)
(* Labels.                                                                 *)
(***************************************************************************)
\* A non-empty set of naturals has a least element.
LEMMA NatLeast ==
  ASSUME NEW T \in SUBSET Nat, T # {}
  PROVE  \E i \in T : \A j \in T : i <= j
<1>1. \E i \in T : \A j \in T : <<j, i>> \notin OpToRel(<, Nat)
  BY NatLessThanWellFounded, WFMin
<1>2. ASSUME NEW i \in T, NEW j \in T, <<j, i>> \notin OpToRel(<, Nat)
      PROVE  i <= j
  <2>1. i \in Nat /\ j \in Nat BY <1>2
  <2>2. ~(j < i) BY <1>2, <2>1 DEF OpToRel
  <2> QED BY <2>1, <2>2
<1> QED BY <1>1, <1>2

\* Fewer labels in use than candidates: one candidate is free.
LEMMA FreeCandidate ==
  ASSUME NEW c \in Conns, providers \subseteq Conns
  PROVE  \E i \in 1..(Cardinality(Conns) + 1) :
           Candidate(Meta[c].base, i) \notin LabelsInUse
<1> DEFINE n == Cardinality(Conns) + 1
           cand(i) == Candidate(Meta[c].base, i)
           user == [i \in 1..n |-> CHOOSE d \in providers : label[d] = cand(i)]
<1>1. IsFiniteSet(providers) /\ Cardinality(providers) <= Cardinality(Conns)
      /\ Cardinality(providers) \in Nat /\ Cardinality(Conns) \in Nat
  BY ActorsFinite, FS_Subset, FS_CardinalityType
<1>2. IsFiniteSet(1..n) /\ Cardinality(1..n) = n
  <2>1. n \in Nat /\ n >= 1 BY <1>1
  <2> QED BY <2>1, FS_Interval
<1> SUFFICES ASSUME \A i \in 1..n : cand(i) \in LabelsInUse PROVE FALSE
  OBVIOUS
<1>3. \A i \in 1..n : user[i] \in providers /\ label[user[i]] = cand(i)
  BY DEF LabelsInUse
<1>4. user \in [1..n -> providers] BY <1>3
<1>5. \E x, y \in 1..n : x # y /\ user[x] = user[y]
  <2>1. Cardinality(providers) < Cardinality(1..n) BY <1>1, <1>2
  <2> HIDE DEF user, n
  <2> QED BY <1>1, <1>2, <1>4, <2>1, FS_PigeonHole
<1> QED BY <1>3, <1>5, CandidatesDistinct

\* uniqueLabel's answer is not in use.
LEMMA UniqueLabelIsFree ==
  ASSUME NEW c \in Conns, providers \subseteq Conns
  PROVE  UniqueLabel(Meta[c].base, LabelsInUse, Cardinality(Conns) + 1)
           \notin LabelsInUse
<1> DEFINE n == Cardinality(Conns) + 1
           cand(i) == Candidate(Meta[c].base, i)
           free == {i \in 1..n : cand(i) \notin LabelsInUse}
<1>0. n \in Nat BY ActorsFinite, FS_CardinalityType
<1>1. free \in SUBSET Nat /\ free # {} BY FreeCandidate
<1>2. PICK i \in free : \A j \in free : i <= j BY <1>1, NatLeast
<1>3. \E m \in 1..n : /\ cand(m) \notin LabelsInUse
                      /\ \A j \in 1..(m - 1) : cand(j) \in LabelsInUse
  <2>1. i \in 1..n /\ cand(i) \notin LabelsInUse BY <1>2
  <2>2. ASSUME NEW j \in 1..(i - 1) PROVE cand(j) \in LabelsInUse
    <3>1. j \in 1..n /\ ~(i <= j) BY <2>1, <1>0
    <3> QED BY <3>1, <1>2
  <2> QED BY <2>1, <2>2
<1> QED BY <1>3 DEF UniqueLabel

\* The keys of a provider form a sequence, so the first usable one exists.
LEMMA KeysAreASequence ==
  ASSUME NEW m
  PROVE  DOMAIN (ExactKeys(m) \o FallbackKeys(m)) \subseteq Nat
<1> DEFINE k1 == <<"tab", m.tab, "provider", m.providerId, m.base>>
           k2 == <<"provider", m.providerId, m.base>>
           k3 == <<"tab", m.tab, m.base>>
           k4 == <<"url", m.url, m.base>>
           K == {k1, k2, k3, k4}
<1>1. ExactKeys(m) \in {<<>>, <<k1>>, <<k2>>}
  BY DEF ExactKeys
<1>2. \E s \in {<<>>, <<k3>>}, t \in {<<>>, <<k4>>} : FallbackKeys(m) = s \o t
  BY DEF FallbackKeys
<1> HIDE DEF k1, k2, k3, k4
<1>3. /\ <<>> \in Seq(K) /\ <<k1>> \in Seq(K) /\ <<k2>> \in Seq(K)
      /\ <<k3>> \in Seq(K) /\ <<k4>> \in Seq(K)
  OBVIOUS
<1> HIDE DEF K
<1>4. ExactKeys(m) \in Seq(K) BY <1>1, <1>3
<1>5. FallbackKeys(m) \in Seq(K)
  <2>1. PICK s \in {<<>>, <<k3>>}, t \in {<<>>, <<k4>>} : FallbackKeys(m) = s \o t
    BY <1>2
  <2>2. s \in Seq(K) /\ t \in Seq(K) BY <1>3
  <2> QED BY <2>1, <2>2
<1> QED BY <1>4, <1>5

\* assignLabel's answer is not in use, whether it honours a reservation or not.
LEMMA AssignedLabelIsFree ==
  ASSUME NEW c \in Conns, providers \subseteq Conns, NEW store
  PROVE  AssignLabel(store, Meta[c], LabelsInUse, Cardinality(Conns) + 1)
           \notin LabelsInUse
<1> DEFINE keys == ExactKeys(Meta[c]) \o FallbackKeys(Meta[c])
           usable == {i \in DOMAIN keys :
                        /\ keys[i] \in Keys(store)
                        /\ Reserved(store, keys[i]) \notin LabelsInUse}
           first == CHOOSE i \in usable : \A j \in usable : i <= j
<1>1. CASE usable = {}
  BY <1>1, UniqueLabelIsFree DEF AssignLabel
<1>2. CASE usable # {}
  <2>1. usable \in SUBSET Nat BY KeysAreASequence
  <2>2. \E i \in usable : \A j \in usable : i <= j BY <1>2, <2>1, NatLeast
  <2>3. first \in usable BY <2>2
  <2>4. Reserved(store, keys[first]) \notin LabelsInUse BY <2>3
  <2> QED BY <1>2, <2>4 DEF AssignLabel
<1> QED BY <1>1, <1>2

\* Registered connections are past the section that registers, and their labels
\* differ.
LabelInv ==
  /\ providers \subseteq Conns
  /\ DOMAIN label = Conns
  /\ attach \in [Peers -> Places]
  /\ \A c \in providers : attach[c] \notin {"none", "init", "built"}
  /\ LabelsUnique

\* Steps that label and register nobody.
Nameless ==
  /\ UNCHANGED label
  /\ providers' \subseteq providers
  /\ attach' \in [Peers -> Places]
  /\ \A c \in Conns : attach[c] \notin {"none", "init", "built"}
                        => attach'[c] \notin {"none", "init", "built"}

LEMMA NamelessKeepsLabelInv == ASSUME LabelInv, Nameless PROVE LabelInv'
BY DEF LabelInv, Nameless, LabelsUnique

LEMMA RegisterKeepsLabelInv ==
  ASSUME LabelInv, NEW c \in Conns, Register(c)
  PROVE  LabelInv'
<1> USE DEF LabelInv
<1>1. c \in Peers /\ c \notin providers BY DEF Register, Peers
<1>2. CASE Refused
  <2>1. /\ UNCHANGED <<label, providers>>
        /\ attach' = [attach EXCEPT ![c] = "failed"]
    BY <1>2 DEF Register
  <2> QED BY <1>1, <2>1 DEF LabelsUnique, Places
<1>3. CASE ~Refused
  <2> DEFINE lab == AssignLabel(reserved, Meta[c], LabelsInUse,
                                Cardinality(Conns) + 1)
  <2>1. /\ label' = [label EXCEPT ![c] = lab]
        /\ providers' = providers \cup {c}
        /\ attach' = [attach EXCEPT ![c] = "notify"]
    BY <1>3 DEF Register
  <2>2. lab \notin LabelsInUse BY AssignedLabelIsFree
  <2> HIDE DEF lab
  <2>3. /\ label'[c] = lab
        /\ \A d \in providers : label'[d] = label[d] /\ label'[d] # lab
    BY <1>1, <2>1, <2>2 DEF LabelsInUse
  <2>4. LabelsUnique' BY <2>1, <2>3 DEF LabelsUnique
  <2> QED BY <1>1, <2>1, <2>4 DEF Places
<1> QED BY <1>2, <1>3

LEMMA AttachIsNameless ==
  ASSUME LabelInv, NEW c \in Conns,
         \/ Connect(c) \/ Initialized(c) \/ InitializeFails(c)
         \/ SetNotificationHandler(c) \/ SetCloseHandler(c) \/ AttachRefresh(c)
         \/ ProviderClosed(c)
  PROVE  Nameless
<1> USE DEF LabelInv, Places
<1>1. c \in Peers BY DEF Peers
<1>2. UNCHANGED label /\ providers' \subseteq providers
  BY DEF Connect, Initialized, InitializeFails, SetNotificationHandler,
         SetCloseHandler, AttachRefresh, ProviderClosed, bridge, naming, registry
<1>3. \/ attach' = attach
      \/ /\ attach[c] \in {"none", "init"}
         /\ \/ attach' = [attach EXCEPT ![c] = "init"]
            \/ attach' = [attach EXCEPT ![c] = "built"]
            \/ attach' = [attach EXCEPT ![c] = "failed"]
      \/ attach' = [attach EXCEPT ![c] = "onclose"]
      \/ attach' = [attach EXCEPT ![c] = "refresh"]
      \/ attach' = [attach EXCEPT ![c] = "served"]
  BY DEF Connect, Initialized, InitializeFails, SetNotificationHandler,
         SetCloseHandler, AttachRefresh, ProviderClosed
<1>4. attach' \in [Peers -> Places] BY <1>1, <1>3
<1>5. ASSUME NEW d \in Conns, attach[d] \notin {"none", "init", "built"}
      PROVE  attach'[d] \notin {"none", "init", "built"}
  <2>1. d \in Peers BY DEF Peers
  <2>2. CASE d = c BY <1>1, <1>3, <1>5, <2>2
  <2>3. CASE d # c BY <1>1, <1>3, <1>5, <2>1, <2>3
  <2> QED BY <2>2, <2>3
<1> QED BY <1>2, <1>4, <1>5 DEF Nameless

LEMMA AgentsAreNameless ==
  ASSUME LabelInv,
         NEW a \in Agents, AgentAttach(a) \/ AgentServe(a) \/ AgentClosed(a)
  PROVE  Nameless
<1>1. UNCHANGED <<label, providers>>
  BY DEF AgentAttach, AgentServe, AgentClosed, naming, bridge, registry
<1>2. \/ attach' = attach
      \/ attach' = [attach EXCEPT ![a] = "failed"]
      \/ attach' = [attach EXCEPT ![a] = "built"]
      \/ attach' = [attach EXCEPT ![a] = "served"]
  BY DEF AgentAttach, AgentServe, AgentClosed
<1>3. a \in Peers /\ \A c \in Conns : c # a
  BY ActorsDistinct DEF Peers
<1>4. /\ attach' \in [Peers -> Places]
      /\ \A c \in Conns : attach'[c] = attach[c]
  <2>1. Conns \subseteq Peers BY DEF Peers
  <2> QED BY <1>2, <1>3, <2>1 DEF LabelInv, Places
<1> QED BY <1>1, <1>4 DEF Nameless

LEMMA WorkIsNameless ==
  ASSUME LabelInv,
         \/ \E c \in Conns : \/ ReadStep(c) \/ PageAnswers(c)
                             \/ HangupRebuild(c) \/ HangupBroadcast(c)
         \/ \E c \in Conns, k \in Kinds : PageChanges(c, k)
         \/ \E p \in Runners, c \in Conns, k \in Kinds : SpawnedRefresh(p, c, k)
         \/ \E p \in Procs : RefreshStep(p)
         \/ \E p \in Peers : Disconnect(p)
         \/ \E l \in Listeners : CallStep(l)
         \/ \E l \in Listeners, k \in Kinds : List(l, k) \/ Call(l, k)
  PROVE  Nameless
<1>1. UNCHANGED <<label, providers, attach>>
  <2> USE DEF registry, links, bridge, naming
  <2>1. ASSUME NEW c \in Conns, ReadStep(c)
        PROVE  UNCHANGED <<label, providers, attach>>
    BY <2>1 DEF ReadStep, ReadNotification, ReadResponse
  <2>2. ASSUME NEW c \in Conns,
               PageAnswers(c) \/ HangupRebuild(c) \/ HangupBroadcast(c)
        PROVE  UNCHANGED <<label, providers, attach>>
    BY <2>2 DEF PageAnswers, HangupRebuild, HangupBroadcast
  <2>3. ASSUME NEW c \in Conns, NEW k \in Kinds, PageChanges(c, k)
        PROVE  UNCHANGED <<label, providers, attach>>
    BY <2>3 DEF PageChanges
  <2>4. ASSUME NEW p \in Runners, NEW c \in Conns, NEW k \in Kinds,
               SpawnedRefresh(p, c, k)
        PROVE  UNCHANGED <<label, providers, attach>>
    BY <2>4 DEF SpawnedRefresh
  <2>5. ASSUME NEW p \in Procs, RefreshStep(p)
        PROVE  UNCHANGED <<label, providers, attach>>
    BY <2>5 DEF RefreshStep, FetchPage, FetchFails, StoreCatalog, JobRebuild,
                JobBroadcast
  <2>6. ASSUME NEW p \in Peers, Disconnect(p)
        PROVE  UNCHANGED <<label, providers, attach>>
    BY <2>6 DEF Disconnect
  <2>7. ASSUME NEW l \in Listeners, CallStep(l)
        PROVE  UNCHANGED <<label, providers, attach>>
    BY <2>7 DEF CallStep, RouteFound, RouteMissing, CallSend, CallFails
  <2>8. ASSUME NEW l \in Listeners, NEW k \in Kinds, List(l, k) \/ Call(l, k)
        PROVE  UNCHANGED <<label, providers, attach>>
    BY <2>8 DEF List, Call
  <2> QED BY <2>1, <2>2, <2>3, <2>4, <2>5, <2>6, <2>7, <2>8
<1> QED BY <1>1 DEF Nameless, LabelInv

LEMMA EndingIsNameless ==
  ASSUME LabelInv,
         \/ \E s \in Sessions : \/ OpenHTTPSession(s) \/ SessionClose(s)
                                \/ SessionDeregister(s)
         \/ IdleTimerFires \/ DaemonClose \/ CloseStep
  PROVE  Nameless
<1>1. UNCHANGED <<label, providers, attach>>
  <2> USE DEF registry, links, bridge, naming
  <2>1. ASSUME NEW s \in Sessions,
               OpenHTTPSession(s) \/ SessionClose(s) \/ SessionDeregister(s)
        PROVE  UNCHANGED <<label, providers, attach>>
    BY <2>1 DEF OpenHTTPSession, SessionClose, SessionDeregister
  <2>2. ASSUME IdleTimerFires \/ DaemonClose \/ CloseStep
        PROVE  UNCHANGED <<label, providers, attach>>
    BY <2>2 DEF IdleTimerFires, DaemonClose, CloseStep, IdleClose, CloseReturns,
                CloseNext
  <2> QED BY <2>1, <2>2
<1> QED BY <1>1 DEF Nameless, LabelInv

LEMMA LabelInvNext == LabelInv /\ [Next]_vars => LabelInv'
<1> SUFFICES ASSUME LabelInv, [Next]_vars PROVE LabelInv' OBVIOUS
<1>1. CASE Nameless BY <1>1, NamelessKeepsLabelInv
<1>2. CASE \E c \in Conns : Connect(c) \/ AttachStep(c)
  BY <1>1, <1>2, AttachIsNameless, RegisterKeepsLabelInv DEF AttachStep
<1>3. CASE \E c \in Conns : HangupStep(c)
  BY <1>1, <1>3, AttachIsNameless, WorkIsNameless DEF HangupStep
<1>4. CASE \/ \E c \in Conns : \/ ReadStep(c) \/ PageAnswers(c)
                               \/ \E k \in Kinds : PageChanges(c, k)
           \/ \E p \in Runners, c \in Conns, k \in Kinds : SpawnedRefresh(p, c, k)
           \/ \E p \in Procs : RefreshStep(p)
           \/ \E p \in Peers : Disconnect(p)
           \/ \E l \in Listeners : CallStep(l)
           \/ \E l \in Listeners, k \in Kinds : List(l, k) \/ Call(l, k)
  BY <1>1, <1>4, WorkIsNameless
<1>5. CASE \E a \in Agents : AgentAttach(a) \/ AgentServe(a) \/ AgentClosed(a)
  BY <1>1, <1>5, AgentsAreNameless
<1>6. CASE \/ \E s \in Sessions : \/ OpenHTTPSession(s) \/ SessionClose(s)
                                  \/ SessionDeregister(s)
           \/ IdleTimerFires \/ DaemonClose \/ CloseStep
  BY <1>1, <1>6, EndingIsNameless
<1>7. CASE UNCHANGED vars
  BY <1>1, <1>7 DEF vars, bridge, links, registry, naming, Nameless, LabelInv
<1> QED BY <1>2, <1>3, <1>4, <1>5, <1>6, <1>7 DEF Next

\* No two registered providers share a label, for any number of connections, any
\* base labels and whatever the store remembers: assignLabel gives a label only
\* if no registered provider has it (labels.go), and attachProvider registers in
\* the same section.
THEOREM LabelsAreUnique == Spec => []LabelsUnique
<1>1. Init => LabelInv
  BY DEF Init, LabelInv, LabelsUnique, Places
<1>2. LabelInv => LabelsUnique BY DEF LabelInv
<1> QED BY <1>1, <1>2, LabelInvNext, PTL DEF Spec
-----------------------------------------------------------------------------
(***************************************************************************)
(* The label store.                                                        *)
(***************************************************************************)
\* The elements of sub are those of seq at the positions I, each taken once.
Takes(sub, seq, I) ==
  /\ Cardinality(I) \in Nat
  /\ DOMAIN sub = 1..Cardinality(I)
  /\ \E pos \in [1..Cardinality(I) -> I] :
       /\ \A m \in 1..Cardinality(I) : sub[m] = seq[pos[m]]
       /\ \A m, l \in 1..Cardinality(I) : pos[m] = pos[l] => m = l
       /\ \A i \in I : \E m \in 1..Cardinality(I) : pos[m] = i

\* Subsequence takes the elements at the given positions, each once.
LEMMA SubsequenceTakes ==
  ASSUME NEW seq, NEW n \in Nat, NEW I \in SUBSET (1..n)
  PROVE  Takes(Subsequence(seq, I), seq, I)
<1> DEFINE upTo(i) == {j \in I : j <= i}
           rank == [i \in I |-> Cardinality(upTo(i))]
           N == Cardinality(I)
           pos == [m \in 1..N |-> CHOOSE i \in I : Cardinality({j \in I : j <= i}) = m]
<1>1. IsFiniteSet(I) /\ N \in Nat
  <2>1. IsFiniteSet(1..n) BY FS_Interval
  <2> QED BY <2>1, FS_Subset, FS_CardinalityType
<1>2. ASSUME NEW i \in I
      PROVE  IsFiniteSet(upTo(i)) /\ Cardinality(upTo(i)) \in 1..N
  <2>1. upTo(i) \in SUBSET I /\ i \in upTo(i)
    OBVIOUS
  <2>2. IsFiniteSet(upTo(i)) /\ Cardinality(upTo(i)) <= N
    BY <1>1, <2>1, FS_Subset
  <2>3. Cardinality(upTo(i)) \in Nat /\ Cardinality(upTo(i)) # 0
    BY <2>1, <2>2, FS_CardinalityType, FS_EmptySet
  <2> QED BY <1>1, <2>2, <2>3
<1>3. ASSUME NEW i \in I, NEW k \in I, i < k
      PROVE  Cardinality(upTo(i)) # Cardinality(upTo(k))
  <2>0. i \in Nat /\ k \in Nat /\ \A j \in I : j \in Nat
    OBVIOUS
  <2>1. k \in upTo(k) /\ k \notin upTo(i)
    BY <1>3, <2>0
  <2>2. \A j \in upTo(i) : j \in upTo(k)
    BY <1>3, <2>0
  <2> QED BY <1>2, <2>1, <2>2, FS_Subset
<1>4. rank \in [I -> 1..N] /\ \A i, k \in I : rank[i] = rank[k] => i = k
  <2>1. rank \in [I -> 1..N] BY <1>2
  <2>2. ASSUME NEW i \in I, NEW k \in I, rank[i] = rank[k] PROVE i = k
    <3>1. i \in Nat /\ k \in Nat OBVIOUS
    <3>2. ~(i < k) /\ ~(k < i) BY <1>3, <2>2
    <3> QED BY <3>1, <3>2
  <2> QED BY <2>1, <2>2
<1>5. \A m \in 1..N : \E i \in I : rank[i] = m
  <2>1. IsFiniteSet(1..N) /\ Cardinality(1..N) = N
    BY <1>1, FS_Interval
  <2>2. rank \in Injection(I, 1..N)
    BY <1>4 DEF Injection, IsInjective
  <2> HIDE DEF rank, N
  <2>3. rank \in Surjection(I, 1..N)
    BY <2>1, <2>2, FS_Injection DEF N
  <2> QED BY <2>3 DEF Surjection
<1>6. \A m \in 1..N : pos[m] \in I /\ Cardinality({j \in I : j <= pos[m]}) = m
  BY <1>5
<1>7. pos \in [1..N -> I] /\ \A m, l \in 1..N : pos[m] = pos[l] => m = l
  BY <1>6
<1>8. /\ DOMAIN Subsequence(seq, I) = 1..N
      /\ \A m \in 1..N : Subsequence(seq, I)[m] = seq[pos[m]]
  BY DEF Subsequence
<1>9. \A i \in I : \E m \in 1..N : pos[m] = i
  <2> SUFFICES ASSUME NEW i \in I PROVE pos[rank[i]] = i
    BY <1>2
  <2>1. rank[i] \in 1..N
    BY <1>2
  <2>2. pos[rank[i]] \in I /\ rank[pos[rank[i]]] = rank[i]
    BY <1>6, <2>1
  <2> HIDE DEF pos, rank
  <2> QED BY <1>4, <2>2
<1> HIDE DEF pos
<1> QED BY <1>1, <1>7, <1>8, <1>9 DEF Takes

\* A store is a sequence in which no key is twice.
IsStore(store) ==
  /\ \E S : store \in Seq(S)
  /\ \A i, j \in DOMAIN store : store[i].key = store[j].key => i = j

\* What Subsequence leaves of a store is a store, of entries it had.
LEMMA SubsequenceIsStore ==
  ASSUME NEW store, IsStore(store), NEW I \in SUBSET (DOMAIN store)
  PROVE  /\ IsStore(Subsequence(store, I))
         /\ \A m \in DOMAIN Subsequence(store, I) :
              \E i \in I : Subsequence(store, I)[m] = store[i]
<1> DEFINE sub == Subsequence(store, I)
           N == Cardinality(I)
<1>1. PICK S : store \in Seq(S)
  BY DEF IsStore
<1>2. Len(store) \in Nat /\ DOMAIN store = 1..Len(store)
  BY <1>1
<1>0. I \in SUBSET (1..Len(store))
  BY <1>2
<1>3. /\ N \in Nat /\ DOMAIN sub = 1..N
      /\ \E pos \in [1..N -> I] :
           /\ \A m \in 1..N : sub[m] = store[pos[m]]
           /\ \A m, l \in 1..N : pos[m] = pos[l] => m = l
  <2> DEFINE n == Len(store)
  <2>1. n \in Nat /\ I \in SUBSET (1..n)
    BY <1>0, <1>2
  <2> HIDE DEF n, sub, N
  <2>2. Takes(Subsequence(store, I), store, I)
    BY <2>1, SubsequenceTakes
  <2> QED BY <2>2 DEF Takes, sub, N
<1>4. PICK pos \in [1..N -> I] :
        /\ \A m \in 1..N : sub[m] = store[pos[m]]
        /\ \A m, l \in 1..N : pos[m] = pos[l] => m = l
  BY <1>3
<1>5. sub = [m \in 1..N |-> sub[m]]
  BY DEF Subsequence
<1> HIDE DEF sub, N
<1>6. \A m \in 1..N : sub[m] \in S /\ pos[m] \in I /\ pos[m] \in DOMAIN store
  BY <1>1, <1>2, <1>4
<1>7. sub \in Seq(S)
  <2>1. sub \in [1..N -> S]
    BY <1>5, <1>6
  <2> QED BY <1>3, <2>1
<1>8. \A m, l \in 1..N : sub[m].key = sub[l].key => m = l
  BY <1>4, <1>6 DEF IsStore
<1>9. IsStore(sub)
  BY <1>3, <1>7, <1>8 DEF IsStore
<1> QED BY <1>3, <1>4, <1>6, <1>9 DEF sub

\* The keys of one provider are different ones.
LEMMA KeysDiffer ==
  ASSUME NEW m
  PROVE  LET keys == ExactKeys(m) \o FallbackKeys(m)
         IN  /\ \E S : keys \in Seq(S)
             /\ \A i, j \in DOMAIN keys : keys[i] = keys[j] => i = j
<1> DEFINE k1 == <<"tab", m.tab, "provider", m.providerId, m.base>>
           k2 == <<"provider", m.providerId, m.base>>
           k3 == <<"tab", m.tab, m.base>>
           k4 == <<"url", m.url, m.base>>
           K == {k1, k2, k3, k4}
<1>1. ExactKeys(m) \in {<<>>, <<k1>>, <<k2>>}
  BY DEF ExactKeys
<1>2. FallbackKeys(m) \in {<<>> \o <<>>, <<k3>> \o <<>>, <<>> \o <<k4>>, <<k3>> \o <<k4>>}
  BY DEF FallbackKeys
<1>3. k1 # k3 /\ k1 # k4 /\ k2 # k3 /\ k2 # k4 /\ k3 # k4
  <2>1. k1[1] = "tab" /\ k2[1] = "provider" /\ k3[1] = "tab" /\ k4[1] = "url"
    OBVIOUS
  <2>2. Len(k1) = 5 /\ Len(k3) = 3
    OBVIOUS
  <2> HIDE DEF k1, k2, k3, k4
  <2> QED BY <2>1, <2>2
<1> HIDE DEF k1, k2, k3, k4
<1>4. FallbackKeys(m) \in {<<>>, <<k3>>, <<k4>>, <<k3, k4>>}
  <2>1. <<>> \o <<>> = <<>> /\ <<k3>> \o <<>> = <<k3>> /\ <<>> \o <<k4>> = <<k4>>
    BY ConcatEmptySeq
  <2>2. <<k3>> \o <<k4>> = <<k3, k4>>
    <3> DEFINE a == <<k3>>
               b == <<k4>>
               c == <<k3, k4>>
    <3>1. a \in Seq({k3, k4}) /\ b \in Seq({k3, k4}) /\ c \in Seq({k3, k4})
      OBVIOUS
    <3>2. Len(a) = 1 /\ Len(b) = 1 /\ Len(c) = 2 /\ a[1] = k3 /\ b[1] = k4 /\ c[1] = k3 /\ c[2] = k4
      OBVIOUS
    <3> HIDE DEF a, b, c
    <3>3. (a \o b) \in Seq({k3, k4}) /\ Len(a \o b) = 2
      BY <3>1, <3>2, ConcatProperties
    <3>6. (a \o b)[1] = a[1] /\ (a \o b)[2] = b[2 - Len(a)]
      BY <3>1, <3>2, ConcatProperties
    <3>4. \A i \in 1..Len(c) : (a \o b)[i] = c[i]
      BY <3>2, <3>3, <3>6
    <3>5. a \o b = c
      BY <3>1, <3>2, <3>3, <3>4, SeqEqual
    <3> QED BY <3>5 DEF a, b, c
  <2> QED BY <1>2, <2>1, <2>2
<1>5. ExactKeys(m) \in Seq(K) /\ FallbackKeys(m) \in Seq(K)
  <2>1. <<>> \in Seq(K) /\ <<k1>> \in Seq(K) /\ <<k2>> \in Seq(K)
    OBVIOUS
  <2>2. <<k3>> \in Seq(K) /\ <<k4>> \in Seq(K) /\ <<k3, k4>> \in Seq(K)
    OBVIOUS
  <2> QED BY <1>1, <1>4, <2>1, <2>2
<1>6. (ExactKeys(m) \o FallbackKeys(m)) \in Seq(K)
  BY <1>5
<1>7. ASSUME NEW e \in {<<>>, <<k1>>, <<k2>>}, NEW f \in {<<>>, <<k3>>, <<k4>>, <<k3, k4>>},
             NEW i \in DOMAIN (e \o f), NEW j \in DOMAIN (e \o f), (e \o f)[i] = (e \o f)[j]
      PROVE  i = j
  <2>1. CASE e = <<>>
    BY <1>3, <1>7, <2>1
  <2>2. CASE e # <<>>
    <3>1. PICK k \in {k1, k2} : e = <<k>>
      BY <2>2
    <3> QED BY <1>3, <1>7, <3>1
  <2> QED BY <2>1, <2>2
<1> QED BY <1>1, <1>4, <1>6, <1>7

\* touch of the keys of a provider, and prune, keep a store a store.
LEMMA RememberKeepsStore ==
  ASSUME NEW store, IsStore(store), NEW m, NEW lab, NEW used
  PROVE  IsStore(RememberLabel(store, m, lab, used))
<1> DEFINE keys == ExactKeys(m) \o FallbackKeys(m)
           entries == Remembered(store, m, lab)
           left == RemoveKeys(store, entries)
<1>1. (\E S : keys \in Seq(S)) /\ \A i, j \in DOMAIN keys : keys[i] = keys[j] => i = j
  BY KeysDiffer
<1>2. Len(keys) \in Nat /\ DOMAIN keys = 1..Len(keys)
  BY <1>1
<1>3. /\ DOMAIN entries = 1..Len(keys)
      /\ \A i \in 1..Len(keys) : entries[i].key = keys[i]
      /\ entries = [i \in 1..Len(keys) |-> entries[i]]
  BY DEF Remembered
<1> HIDE DEF keys, entries
<1>4. IsStore(entries)
  <2> DEFINE S == {entries[i] : i \in 1..Len(keys)}
  <2>1. entries \in [1..Len(keys) -> S]
    BY <1>3
  <2>2. entries \in Seq(S)
    BY <1>2, <2>1
  <2> HIDE DEF S
  <2>3. \A i, j \in DOMAIN entries : entries[i].key = entries[j].key => i = j
    BY <1>1, <1>2, <1>3
  <2> QED BY <2>2, <2>3 DEF IsStore
<1>5. /\ IsStore(left)
      /\ \A i \in DOMAIN left : left[i].key \notin Keys(entries)
  <2> DEFINE I == {i \in DOMAIN store : store[i].key \notin Keys(entries)}
  <2>1. I \in SUBSET (DOMAIN store)
    OBVIOUS
  <2> HIDE DEF I
  <2>2. IsStore(Subsequence(store, I)) /\ \A i \in DOMAIN Subsequence(store, I) :
          \E j \in I : Subsequence(store, I)[i] = store[j]
    BY <2>1, SubsequenceIsStore
  <2>3. \A i \in I : store[i].key \notin Keys(entries)
    BY DEF I
  <2> QED BY <2>2, <2>3 DEF RemoveKeys, I
<1> HIDE DEF left
<1>6. IsStore(left \o entries)
  <2>1. PICK S : left \in Seq(S)
    BY <1>5 DEF IsStore
  <2>2. PICK T : entries \in Seq(T)
    BY <1>4 DEF IsStore
  <2>3. left \in Seq(S \cup T) /\ entries \in Seq(S \cup T)
    BY <2>1, <2>2
  <2> DEFINE both == left \o entries
  <2>4. /\ both \in Seq(S \cup T)
        /\ DOMAIN both = 1..(Len(left) + Len(entries))
        /\ Len(left) \in Nat /\ Len(entries) \in Nat
        /\ \A i \in 1..(Len(left) + Len(entries)) :
             both[i] = IF i <= Len(left) THEN left[i] ELSE entries[i - Len(left)]
    BY <2>3
  <2> HIDE DEF both
  <2>5. /\ DOMAIN left = 1..Len(left) /\ DOMAIN entries = 1..Len(entries)
    BY <2>3
  <2>6. \A i \in DOMAIN entries : entries[i].key \in Keys(entries)
    BY DEF Keys
  <2>7. ASSUME NEW i \in DOMAIN both, NEW j \in DOMAIN both, both[i].key = both[j].key
        PROVE  i = j
    <3>1. CASE i <= Len(left) /\ j <= Len(left)
      <4>1. i \in DOMAIN left /\ j \in DOMAIN left /\ left[i].key = left[j].key
        BY <2>4, <2>5, <2>7, <3>1
      <4> QED BY <1>5, <4>1 DEF IsStore
    <3>2. CASE i > Len(left) /\ j > Len(left)
      <4>1. /\ i - Len(left) \in DOMAIN entries /\ j - Len(left) \in DOMAIN entries
            /\ entries[i - Len(left)].key = entries[j - Len(left)].key
        BY <2>4, <2>5, <2>7, <3>2
      <4>2. i - Len(left) = j - Len(left)
        BY <1>4, <4>1 DEF IsStore
      <4> QED BY <2>4, <4>2
    <3>3. CASE (i <= Len(left)) # (j <= Len(left))
      BY <1>5, <2>4, <2>5, <2>6, <2>7, <3>3
    <3> QED BY <2>4, <3>1, <3>2, <3>3
  <2> QED BY <2>4, <2>7 DEF IsStore, both
<1>7. IsStore(Touch(store, Remembered(store, m, lab)))
  BY <1>6 DEF Touch, left, entries
<1> DEFINE touched == Touch(store, Remembered(store, m, lab))
           kept == {i \in DOMAIN touched :
                      touched[i].label \notin used =>
                        Cardinality({j \in 1..i : touched[j].label \notin used})
                          + MaxReservations > Len(touched)}
<1>8. RememberLabel(store, m, lab, used) = Subsequence(touched, kept)
  BY DEF RememberLabel, Prune
<1> HIDE DEF touched
<1>9. kept \in SUBSET (DOMAIN touched)
  OBVIOUS
<1>10. IsStore(touched)
  BY <1>7 DEF touched
<1> HIDE DEF kept
<1> QED BY <1>8, <1>9, <1>10, SubsequenceIsStore

\* In a store there are as many keys as entries.
LEMMA StoreCountsKeys ==
  ASSUME NEW store, IsStore(store)
  PROVE  Len(store) = Cardinality(Keys(store))
<1>1. PICK S : store \in Seq(S)
  BY DEF IsStore
<1> DEFINE N == Len(store)
           key == [i \in 1..N |-> store[i].key]
<1>2. N \in Nat /\ DOMAIN store = 1..N
  BY <1>1
<1>3. key \in Bijection(1..N, Keys(store))
  BY <1>2 DEF Bijection, Injection, Surjection, IsInjective, Keys, IsStore
<1> HIDE DEF key, N
<1>4. IsFiniteSet(1..N) /\ Cardinality(1..N) = N
  <2>1. 1 \in Int /\ N \in Int /\ (1 > N => N = 0)
    BY <1>2
  <2> QED BY <2>1, FS_Interval
<1>5. Cardinality(Keys(store)) = N
  BY <1>3, <1>4, FS_Bijection DEF ExistsBijection
<1> QED BY <1>5 DEF N

-----------------------------------------------------------------------------
(***************************************************************************)
(* The invariant.                                                          *)
(***************************************************************************)
\* A provider has no stamp before its initialize result, one of 1, 2, ... after.
StampInv ==
  /\ connectedAt \in [Conns -> 0..Cardinality(Conns)]
  /\ \A c \in Conns : attach[c] \in {"none", "init"} => connectedAt[c] = 0

\* The catalogs, the wire to the page and what is waiting there.
Requests ==
  [proc : Procs \cup Listeners, kind : Kinds, page : Nat]

CatalogTypes ==
  /\ catalog \in [Conns -> [Kinds -> SUBSET Names]]
  /\ sync \in [Conns -> [Kinds -> [inFlight : BOOLEAN, dirty : BOOLEAN]]]
  /\ job \in [Procs -> Jobs]
  /\ spawned \in [Conns -> [Kinds -> Nat]]
  /\ page \in [Conns -> [Kinds -> Catalogs]]
  /\ asked \in [Conns -> SUBSET Requests]
  /\ wire \in [Conns -> Seq(Messages)]

LinkTypes ==
  /\ peer \in [Peers -> {"none", "open", "closing", "closed"}]
  /\ todo \in [Conns -> Seq(Kinds)]
  /\ hangup \in [Conns -> [at : {"none", "rebuild", "broadcast"}, left : Seq(Kinds)]]
  /\ \A c \in Conns : hangup[c].at # "none" => hangup[c].left # <<>>
  /\ idleFired \in Nat
  /\ closeTodo \subseteq Peers \cup Sessions
  /\ closing \in Peers \cup Sessions \cup {NoOne}
  /\ notes \in [Listeners -> SUBSET Kinds] /\ missed \subseteq Sessions \X Kinds

\* The response p waits for is on its way to it from c.
Awaits(p, c) == job[p].at = "wait" /\ job[p].conn = c

\* A request or a response of a fetch is the one its fetch waits for, once.
WireInv ==
  \A c \in Conns :
    /\ \A r \in asked[c] : r.proc \in Procs =>
         Awaits(r.proc, c) /\ job[r.proc].kind = r.kind
    /\ \A i \in DOMAIN wire[c] :
         (wire[c][i].type = "resp" /\ wire[c][i].proc \in Procs) =>
           /\ Awaits(wire[c][i].proc, c)
           /\ \A r \in asked[c] : r.proc # wire[c][i].proc
           /\ \A j \in DOMAIN wire[c] :
                (wire[c][j].type = "resp" /\ wire[c][j].proc = wire[c][i].proc) => i = j
    /\ \A r, q \in asked[c] : (r.proc \in Procs /\ r.proc = q.proc) => r = q

\* p is in refreshCatalog's loop for catalog k of c and will store once more.
Owns(p, c, k) ==
  /\ job[p].at # "idle" /\ job[p].conn = c /\ job[p].kind = k
  /\ Fetches(p) \/ job[p].again

FlightInv ==
  \A p \in Procs, c \in Conns, k \in Kinds :
    Owns(p, c, k) => /\ sync[c][k].inFlight
                     /\ \A q \in Procs : Owns(q, c, k) => p = q

\* Every entry of the routing tables.
RouteOf(k, key, r) ==
  /\ r.prov \in providers
  /\ key = <<profileKey[r.prov], AgentName(r.prov, k, r.orig)>>

RouteInv ==
  /\ DOMAIN routes = Kinds
  /\ \A k \in Kinds : \A key \in DOMAIN routes[k] : RouteOf(k, key, routes[k][key])

\* A call before it is routed and after.
NamedCall(x) ==
  \E k \in Kinds : \E n : x = [at |-> "route", kind |-> k, name |-> n]

RoutedCall(x) ==
  \E a \in {"routed", "sent"}, k \in Kinds, c \in Conns : \E n, o :
    x = [at |-> a, kind |-> k, name |-> n, prov |-> c, orig |-> o]

\* A call that was routed knows a provider that has been registered, by its name.
CallInv ==
  /\ DOMAIN call = Listeners
  /\ \A l \in Listeners :
       /\ call[l] = IdleCall \/ NamedCall(call[l]) \/ RoutedCall(call[l])
       /\ RoutedCall(call[l]) =>
            /\ attach[call[l].prov] \notin {"none", "init", "built"}
            /\ profileKey[call[l].prov] = profileKey[l]
            /\ AgentName(call[l].prov, call[l].kind, call[l].orig) = call[l].name

RoutingInv ==
  /\ StampInv /\ CatalogTypes /\ LinkTypes /\ IsStore(reserved)
  /\ WireInv /\ FlightInv /\ RouteInv /\ CallInv

-----------------------------------------------------------------------------
(***************************************************************************)
(* Stamps and the routing tables.                                          *)
(***************************************************************************)
\* The oldest and the newest of some stamped providers are among them.
LEMMA OldestAndNewest ==
  ASSUME connectedAt \in [Conns -> 0..Cardinality(Conns)],
         NEW S \in SUBSET Conns, S # {}
  PROVE  Oldest(S) \in S /\ Newest(S) \in S
<1> DEFINE M == Cardinality(Conns)
           T == {connectedAt[c] : c \in S}
           U == {M - connectedAt[c] : c \in S}
<1>1. M \in Nat
  BY ActorsFinite, FS_CardinalityType
<1> HIDE DEF M
<1>2. \A c \in S : connectedAt[c] \in 0..M
  BY DEF M
<1>3. \E c \in S : \A d \in S : ~Before(d, c)
  <2>1. T \in SUBSET Nat /\ T # {}
    BY <1>1, <1>2
  <2>2. PICK i \in T : \A j \in T : i <= j
    BY <2>1, NatLeast
  <2>3. PICK c \in S : i = connectedAt[c]
    BY <2>2
  <2> QED BY <1>1, <1>2, <2>2, <2>3 DEF Before
<1>4. \E c \in S : \A d \in S : ~Before(c, d)
  <2>1. U \in SUBSET Nat /\ U # {}
    BY <1>1, <1>2
  <2>2. PICK i \in U : \A j \in U : i <= j
    BY <2>1, NatLeast
  <2>3. PICK c \in S : i = M - connectedAt[c]
    BY <2>2
  <2>4. \A d \in S : M - connectedAt[c] <= M - connectedAt[d]
    BY <2>2, <2>3
  <2> QED BY <1>1, <1>2, <2>3, <2>4 DEF Before
<1> QED BY <1>3, <1>4 DEF Oldest, Newest

\* rebuildRoutesLocked routes each key to one of the providers that have it.
LEMMA RoutesOverOwners ==
  ASSUME connectedAt \in [Conns -> 0..Cardinality(Conns)],
         NEW provs \in SUBSET Conns, NEW k \in Kinds,
         NEW key \in DOMAIN RoutesOver(provs)[k]
  PROVE  LET r == RoutesOver(provs)[k][key]
         IN  /\ r.prov \in provs
             /\ key = <<profileKey[r.prov], AgentName(r.prov, k, r.orig)>>
<1> DEFINE keyOf(c, n) == RouteKey(profileKey[c], AgentName(c, k, n))
           owners == {c \in provs : \E n \in catalog[c][k] : keyOf(c, n) = key}
           winner == RouteWinner(k, owners)
           orig == CHOOSE n \in catalog[winner][k] : keyOf(winner, n) = key
           keys == UNION {{keyOf(c, n) : n \in catalog[c][k]} : c \in provs}
<1>1. DOMAIN RoutesOver(provs)[k] = keys
  BY DEF RoutesOver
<1>2. RoutesOver(provs)[k][key] = [prov |-> winner, orig |-> orig]
  BY <1>1 DEF RoutesOver
<1>3. key \in keys
  BY <1>1
<1>4. \E c \in provs : \E n \in catalog[c][k] : keyOf(c, n) = key
  BY <1>3
<1>5. owners \in SUBSET Conns /\ owners # {}
  BY <1>4
<1> HIDE DEF owners
<1>6. winner \in owners
  BY <1>5, OldestAndNewest DEF RouteWinner
<1> HIDE DEF winner
<1>7. winner \in provs /\ \E n \in catalog[winner][k] : keyOf(winner, n) = key
  BY <1>6 DEF owners
<1>8. keyOf(winner, orig) = key
  BY <1>7
<1> QED BY <1>2, <1>7, <1>8 DEF RouteKey
\* A stamp is taken with the initialize result and stays.
LEMMA StampNext ==
  ASSUME RoutingInv, LabelInv, [Next]_vars
  PROVE  StampInv'
<1> USE DEF RoutingInv, StampInv, LabelInv, Peers
<1>1. ASSUME NEW c \in Conns, Connect(c) PROVE StampInv'
  BY <1>1 DEF Connect, bridge, naming
<1>2. ASSUME NEW c \in Conns, Initialized(c) PROVE StampInv'
  <2> DEFINE D == {d \in Conns : connectedAt[d] # 0}
             M == Cardinality(Conns)
  <2>1. D \in SUBSET Conns /\ c \in Conns /\ c \notin D
    BY <1>2 DEF Initialized
  <2>2. Cardinality(D) \in Nat /\ M \in Nat /\ Cardinality(D) <= M /\ Cardinality(D) # M
    BY <2>1, ActorsFinite, FS_Subset, FS_CardinalityType
  <2>3. 1 + Cardinality(D) \in 0..M
    BY <2>2
  <2>4. /\ connectedAt' = [connectedAt EXCEPT ![c] = 1 + Cardinality(D)]
        /\ attach' = [attach EXCEPT ![c] = "built"]
    BY <1>2 DEF Initialized
  <2> HIDE DEF D, M
  <2> QED BY <2>3, <2>4 DEF M
<1>3. ASSUME NEW c \in Conns, InitializeFails(c) PROVE StampInv'
  BY <1>3 DEF InitializeFails, bridge, naming
<1>4. ASSUME NEW c \in Conns, Register(c) PROVE StampInv'
  BY <1>4 DEF Register
<1>5. ASSUME NEW c \in Conns, SetNotificationHandler(c) PROVE StampInv'
  BY <1>5 DEF SetNotificationHandler, bridge, naming
<1>6. ASSUME NEW c \in Conns, SetCloseHandler(c) PROVE StampInv'
  BY <1>6 DEF SetCloseHandler, bridge, naming
<1>7. ASSUME NEW c \in Conns, AttachRefresh(c) PROVE StampInv'
  BY <1>7 DEF AttachRefresh, naming
<1>8. ASSUME NEW a \in Agents, AgentAttach(a) PROVE StampInv'
  BY <1>8, ActorsDistinct DEF AgentAttach, naming
<1>9. ASSUME NEW a \in Agents, AgentServe(a) PROVE StampInv'
  BY <1>9, ActorsDistinct DEF AgentServe, bridge, naming
<1> USE DEF bridge, registry, naming, catalogs, links,
           workers, shutdown, browser, clients, engine, outside
<1>10. CASE UNCHANGED <<connectedAt, attach>>
  BY <1>10 DEF StampInv
<1>11. ASSUME NEW c \in Conns,
       \/ ProviderClosed(c)
       \/ HangupRebuild(c)
       \/ HangupBroadcast(c)
       \/ ReadNotification(c)
       \/ ReadResponse(c)
       \/ PageAnswers(c)
     PROVE  StampInv'
  BY <1>10, <1>11
     DEF ProviderClosed, HangupRebuild, HangupBroadcast, ReadNotification, ReadResponse,
         PageAnswers
<1>12. ASSUME NEW c \in Conns, NEW k \in Kinds, PageChanges(c, k)
      PROVE  StampInv'
  BY <1>10, <1>12 DEF PageChanges
<1>13. ASSUME NEW p \in Runners, NEW c \in Conns, NEW k \in Kinds, SpawnedRefresh(p, c, k)
      PROVE  StampInv'
  BY <1>10, <1>13 DEF SpawnedRefresh
<1>14. ASSUME NEW p \in Procs,
       \/ FetchPage(p)
       \/ FetchFails(p)
       \/ StoreCatalog(p)
       \/ JobRebuild(p)
       \/ JobBroadcast(p)
     PROVE  StampInv'
  BY <1>10, <1>14 DEF FetchPage, FetchFails, StoreCatalog, JobRebuild, JobBroadcast
<1>15. ASSUME NEW p \in Peers, Disconnect(p)
      PROVE  StampInv'
  BY <1>10, <1>15 DEF Disconnect
<1>16. ASSUME NEW a \in Agents, AgentClosed(a)
      PROVE  StampInv'
  BY <1>10, <1>16 DEF AgentClosed
<1>17. ASSUME NEW s \in Sessions, OpenHTTPSession(s) \/ SessionClose(s) \/ SessionDeregister(s)
      PROVE  StampInv'
  BY <1>10, <1>17 DEF OpenHTTPSession, SessionClose, SessionDeregister
<1>18. ASSUME NEW l \in Listeners, RouteFound(l) \/ RouteMissing(l) \/ CallSend(l) \/ CallFails(l)
      PROVE  StampInv'
  BY <1>10, <1>18 DEF RouteFound, RouteMissing, CallSend, CallFails
<1>19. ASSUME NEW l \in Listeners, NEW k \in Kinds, List(l, k) \/ Call(l, k)
      PROVE  StampInv'
  BY <1>10, <1>19 DEF List, Call
<1>20. CASE IdleTimerFires \/ DaemonClose \/ IdleClose \/ CloseReturns
  BY <1>10, <1>20 DEF IdleTimerFires, DaemonClose, IdleClose, CloseReturns
<1>21. ASSUME NEW x \in Peers \cup Sessions, CloseNext(x)
      PROVE  StampInv'
  BY <1>10, <1>21 DEF CloseNext
<1>22. CASE UNCHANGED vars
  BY <1>10, <1>22 DEF vars
<1> QED
  BY <1>1, <1>2, <1>3, <1>4, <1>5, <1>6, <1>7, <1>8, <1>9, <1>10, <1>11, <1>12, <1>13,
     <1>14, <1>15, <1>16, <1>17, <1>18, <1>19, <1>20, <1>21, <1>22
     DEF Next, AttachStep, ReadStep, HangupStep, RefreshStep, CallStep, CloseStep

\* What rebuildRoutesLocked makes of the providers that stay satisfies RouteInv.
LEMMA RebuiltRoutes ==
  ASSUME StampInv, providers \subseteq Conns,
         providers' \subseteq Conns, routes' = RoutesOver(providers'),
         UNCHANGED <<label, profileKey>>
  PROVE  RouteInv'
<1>1. DOMAIN routes' = Kinds
  BY DEF RoutesOver
<1>2. ASSUME NEW k \in Kinds, NEW key \in DOMAIN routes'[k]
      PROVE  RouteOf(k, key, routes[k][key])'
  BY <1>2, RoutesOverOwners DEF RouteOf, AgentName, StampInv
<1> QED BY <1>1, <1>2 DEF RouteInv

\* Whoever is deregistered has no route after the same section: no route outlives its
\* provider, and none is made for another name.
LEMMA RouteNext ==
  ASSUME RoutingInv, LabelInv, [Next]_vars
  PROVE  RouteInv'
<1> USE DEF RoutingInv, LabelInv
<1>1. ASSUME NEW c \in Conns, Register(c) PROVE RouteInv'
  <2>1. c \notin providers /\ UNCHANGED <<routes, profileKey>>
    BY <1>1 DEF Register
  <2>2. providers \subseteq providers' /\ \A d \in providers : label'[d] = label[d]
    BY <1>1, <2>1 DEF Register
  <2> QED BY <2>1, <2>2 DEF RouteInv, RouteOf, AgentName
<1>2. ASSUME NEW c \in Conns, ProviderClosed(c) PROVE RouteInv'
  <2>1. CASE UNCHANGED <<providers, routes>>
    BY <1>2, <2>1 DEF ProviderClosed, naming, RouteInv, RouteOf, AgentName
  <2>2. CASE providers' = providers \ {c} /\ RebuildRoutes(providers')
    BY <1>2, <2>2, RebuiltRoutes DEF ProviderClosed, naming, RebuildRoutes
  <2> QED BY <1>2, <2>1, <2>2 DEF ProviderClosed
<1>3. ASSUME NEW c \in Conns, HangupRebuild(c) PROVE RouteInv'
  <2>1. routes' = RoutesOver(providers) /\ UNCHANGED <<providers, label, profileKey>>
    BY <1>3 DEF HangupRebuild, RebuildRoutes, registry, naming
  <2> QED BY <2>1, RebuiltRoutes
<1>4. ASSUME NEW p \in Procs, JobRebuild(p) PROVE RouteInv'
  <2>1. routes' = RoutesOver(providers) /\ UNCHANGED <<providers, label, profileKey>>
    BY <1>4 DEF JobRebuild, RebuildRoutes, registry, naming
  <2> QED BY <2>1, RebuiltRoutes
<1> USE DEF bridge, registry, naming, catalogs, links,
           workers, shutdown, browser, clients, engine, outside
<1>5. CASE UNCHANGED <<routes, providers, label, profileKey>>
  BY <1>5 DEF RouteInv, RouteOf, AgentName
<1>6. ASSUME NEW c \in Conns,
       \/ Connect(c)
       \/ Initialized(c)
       \/ InitializeFails(c)
       \/ SetNotificationHandler(c)
       \/ SetCloseHandler(c)
       \/ AttachRefresh(c)
       \/ HangupBroadcast(c)
       \/ ReadNotification(c)
       \/ ReadResponse(c)
       \/ PageAnswers(c)
     PROVE  RouteInv'
  BY <1>5, <1>6
     DEF Connect, Initialized, InitializeFails, SetNotificationHandler, SetCloseHandler,
         AttachRefresh, HangupBroadcast, ReadNotification, ReadResponse, PageAnswers
<1>7. ASSUME NEW c \in Conns, NEW k \in Kinds, PageChanges(c, k)
      PROVE  RouteInv'
  BY <1>5, <1>7 DEF PageChanges
<1>8. ASSUME NEW p \in Runners, NEW c \in Conns, NEW k \in Kinds, SpawnedRefresh(p, c, k)
      PROVE  RouteInv'
  BY <1>5, <1>8 DEF SpawnedRefresh
<1>9. ASSUME NEW p \in Procs, FetchPage(p) \/ FetchFails(p) \/ StoreCatalog(p) \/ JobBroadcast(p)
      PROVE  RouteInv'
  BY <1>5, <1>9 DEF FetchPage, FetchFails, StoreCatalog, JobBroadcast
<1>10. ASSUME NEW p \in Peers, Disconnect(p)
      PROVE  RouteInv'
  BY <1>5, <1>10 DEF Disconnect
<1>11. ASSUME NEW a \in Agents, AgentAttach(a) \/ AgentServe(a) \/ AgentClosed(a)
      PROVE  RouteInv'
  BY <1>5, <1>11 DEF AgentAttach, AgentServe, AgentClosed
<1>12. ASSUME NEW s \in Sessions, OpenHTTPSession(s) \/ SessionClose(s) \/ SessionDeregister(s)
      PROVE  RouteInv'
  BY <1>5, <1>12 DEF OpenHTTPSession, SessionClose, SessionDeregister
<1>13. ASSUME NEW l \in Listeners, RouteFound(l) \/ RouteMissing(l) \/ CallSend(l) \/ CallFails(l)
      PROVE  RouteInv'
  BY <1>5, <1>13 DEF RouteFound, RouteMissing, CallSend, CallFails
<1>14. ASSUME NEW l \in Listeners, NEW k \in Kinds, List(l, k) \/ Call(l, k)
      PROVE  RouteInv'
  BY <1>5, <1>14 DEF List, Call
<1>15. CASE IdleTimerFires \/ DaemonClose \/ IdleClose \/ CloseReturns
  BY <1>5, <1>15 DEF IdleTimerFires, DaemonClose, IdleClose, CloseReturns
<1>16. ASSUME NEW x \in Peers \cup Sessions, CloseNext(x)
      PROVE  RouteInv'
  BY <1>5, <1>16 DEF CloseNext
<1>17. CASE UNCHANGED vars
  BY <1>5, <1>17 DEF vars
<1> QED
  BY <1>1, <1>2, <1>3, <1>4, <1>5, <1>6, <1>7, <1>8, <1>9, <1>10, <1>11, <1>12, <1>13,
     <1>14, <1>15, <1>16, <1>17
     DEF Next, AttachStep, ReadStep, HangupStep, RefreshStep, CallStep, CloseStep

\* The calls under way are left alone by whoever leaves names and partitions alone.
LEMMA NamelessKeepsCallInv ==
  ASSUME CallInv, LabelInv, Nameless, UNCHANGED <<call, profileKey>>
  PROVE  CallInv'
<1>1. \A l \in Listeners : RoutedCall(call[l]) => call[l].prov \in Conns
  BY DEF RoutedCall
<1> QED BY <1>1 DEF CallInv, Nameless, AgentName

\* One call changes, to one that is not routed or as RouteFound routes it.
LEMMA OneCallKeepsCallInv ==
  ASSUME CallInv, NEW l \in Listeners, NEW x,
         call' = [call EXCEPT ![l] = x],
         UNCHANGED <<attach, profileKey, label>>,
         \/ x = IdleCall \/ NamedCall(x)
         \/ /\ RoutedCall(x)
            /\ attach[x.prov] \notin {"none", "init", "built"}
            /\ profileKey[x.prov] = profileKey[l]
            /\ AgentName(x.prov, x.kind, x.orig) = x.name
  PROVE  CallInv'
<1>1. /\ DOMAIN call' = Listeners /\ call'[l] = x
      /\ \A m \in Listeners : m # l => call'[m] = call[m]
  BY DEF CallInv
<1>2. ~RoutedCall(IdleCall) /\ (NamedCall(x) => ~RoutedCall(x))
  <2>1. \A y : RoutedCall(y) => y.at \in {"routed", "sent"}
    BY DEF RoutedCall
  <2>2. IdleCall.at = "idle" /\ (NamedCall(x) => x.at = "route")
    BY DEF NamedCall, IdleCall
  <2> QED BY <2>1, <2>2
<1>3. \A k, n : AgentName(x.prov, k, n)' = AgentName(x.prov, k, n)
  BY DEF AgentName
<1>4. \A m \in Listeners : \A k, n :
        AgentName(call[m].prov, k, n)' = AgentName(call'[m].prov, k, n)
  BY DEF AgentName
<1> QED BY <1>1, <1>2, <1>3, <1>4 DEF CallInv

\* A call keeps the provider and the name of the entry it was routed to: label and
\* partition of a provider do not change once it is registered.
LEMMA CallNext ==
  ASSUME RoutingInv, LabelInv, [Next]_vars
  PROVE  CallInv'
<1> USE DEF RoutingInv
<1>1. ASSUME NEW c \in Conns, Connect(c) PROVE CallInv'
  <2>1. Nameless
    BY <1>1, AttachIsNameless
  <2> QED BY <1>1, <2>1, NamelessKeepsCallInv DEF Connect, bridge, naming, clients, outside
<1>2. ASSUME NEW c \in Conns, Initialized(c) PROVE CallInv'
  <2>1. Nameless
    BY <1>2, AttachIsNameless
  <2> QED BY <1>2, <2>1, NamelessKeepsCallInv
             DEF Initialized, bridge, naming, clients, outside
<1>3. ASSUME NEW c \in Conns, InitializeFails(c) PROVE CallInv'
  <2>1. Nameless
    BY <1>3, AttachIsNameless
  <2> QED BY <1>3, <2>1, NamelessKeepsCallInv
             DEF InitializeFails, bridge, naming, clients, outside
<1>4. ASSUME NEW c \in Conns, SetNotificationHandler(c) PROVE CallInv'
  <2>1. Nameless
    BY <1>4, AttachIsNameless
  <2> QED BY <1>4, <2>1, NamelessKeepsCallInv
             DEF SetNotificationHandler, bridge, naming, clients, outside
<1>5. ASSUME NEW c \in Conns, SetCloseHandler(c) PROVE CallInv'
  <2>1. Nameless
    BY <1>5, AttachIsNameless
  <2> QED BY <1>5, <2>1, NamelessKeepsCallInv
             DEF SetCloseHandler, bridge, naming, clients, outside
<1>6. ASSUME NEW c \in Conns, AttachRefresh(c) PROVE CallInv'
  <2>1. Nameless
    BY <1>6, AttachIsNameless
  <2> QED BY <1>6, <2>1, NamelessKeepsCallInv
             DEF AttachRefresh, bridge, naming, clients, outside
<1>7. ASSUME NEW c \in Conns, ProviderClosed(c) PROVE CallInv'
  <2>1. Nameless
    BY <1>7, AttachIsNameless
  <2> QED BY <1>7, <2>1, NamelessKeepsCallInv
             DEF ProviderClosed, bridge, naming, clients, outside
<1>8. ASSUME NEW a \in Agents, AgentAttach(a) PROVE CallInv'
  <2>1. Nameless
    BY <1>8, AgentsAreNameless
  <2> QED BY <1>8, <2>1, NamelessKeepsCallInv
             DEF AgentAttach, bridge, naming, clients, outside
<1>9. ASSUME NEW a \in Agents, AgentServe(a) PROVE CallInv'
  <2>1. Nameless
    BY <1>9, AgentsAreNameless
  <2> QED BY <1>9, <2>1, NamelessKeepsCallInv
             DEF AgentServe, bridge, naming, clients, outside
<1>10. ASSUME NEW a \in Agents, AgentClosed(a) PROVE CallInv'
  <2>1. Nameless
    BY <1>10, AgentsAreNameless
  <2> QED BY <1>10, <2>1, NamelessKeepsCallInv
             DEF AgentClosed, bridge, naming, clients, outside
<1>11. ASSUME NEW c \in Conns, Register(c) PROVE CallInv'
  <2>1. UNCHANGED <<call, profileKey>> /\ c \in Peers /\ attach[c] = "built"
    BY <1>11 DEF Register, clients, outside, Peers
  <2>2. \A d \in Conns : attach[d] \notin {"none", "init", "built"} =>
          label'[d] = label[d] /\ attach'[d] \notin {"none", "init", "built"}
    BY <1>11, <2>1 DEF Register, LabelInv, Peers
  <2>3. \A l \in Listeners : RoutedCall(call[l]) => call[l].prov \in Conns
    BY DEF RoutedCall
  <2> QED BY <2>1, <2>2, <2>3 DEF CallInv, AgentName
<1>12. ASSUME NEW l \in Listeners, RouteMissing(l) PROVE CallInv'
  <2>1. call' = [call EXCEPT ![l] = IdleCall] /\ UNCHANGED <<attach, profileKey, label>>
    BY <1>12 DEF RouteMissing, bridge, naming, links
  <2> QED BY <2>1, OneCallKeepsCallInv
<1>13. ASSUME NEW l \in Listeners, CallFails(l) PROVE CallInv'
  <2>1. call' = [call EXCEPT ![l] = IdleCall] /\ UNCHANGED <<attach, profileKey, label>>
    BY <1>13 DEF CallFails, bridge, naming, links
  <2> QED BY <2>1, OneCallKeepsCallInv
<1>14. ASSUME NEW c \in Conns, ReadResponse(c) PROVE CallInv'
  <2>1. UNCHANGED <<attach, profileKey, label>>
    BY <1>14 DEF ReadResponse, bridge, naming, links
  <2>2. CASE UNCHANGED call
    BY <2>1, <2>2 DEF CallInv, AgentName
  <2>3. CASE \E l \in Listeners : call' = [call EXCEPT ![l] = IdleCall]
    BY <2>1, <2>3, OneCallKeepsCallInv
  <2> QED BY <1>14, <2>2, <2>3 DEF ReadResponse
<1>15. ASSUME NEW l \in Listeners, NEW k \in Kinds, Call(l, k) PROVE CallInv'
  <2>1. UNCHANGED <<attach, profileKey, label>>
    BY <1>15 DEF Call, bridge, naming, links
  <2>2. \E n : call' = [call EXCEPT ![l] = [at |-> "route", kind |-> k, name |-> n]]
    BY <1>15 DEF Call
  <2>3. \A n : NamedCall([at |-> "route", kind |-> k, name |-> n])
    BY DEF NamedCall
  <2> QED BY <2>1, <2>2, <2>3, OneCallKeepsCallInv
<1>16. ASSUME NEW l \in Listeners, RouteFound(l) PROVE CallInv'
  <2>1. UNCHANGED <<attach, profileKey, label>> /\ NamedCall(call[l])
    BY <1>16 DEF RouteFound, bridge, naming, links, CallInv, RoutedCall, IdleCall
  <2>2. PICK k \in Kinds : \E n : call[l] = [at |-> "route", kind |-> k, name |-> n]
    BY <2>1 DEF NamedCall
  <2>3. PICK n : call[l] = [at |-> "route", kind |-> k, name |-> n]
    BY <2>2
  <2> DEFINE key == RouteKey(profileKey[l], n)
             r == routes[k][key]
             x == [at |-> "routed", kind |-> k, name |-> n, prov |-> r.prov, orig |-> r.orig]
  <2>4. call[l].kind = k /\ call[l].name = n
    BY <2>3
  <2>5. call' = [call EXCEPT ![l] = x] /\ key \in DOMAIN routes[k]
    BY <1>16, <2>4 DEF RouteFound, Routed
  <2>6. r.prov \in providers /\ key = <<profileKey[r.prov], AgentName(r.prov, k, r.orig)>>
    BY <2>5 DEF RouteInv, RouteOf
  <2>7. /\ r.prov \in Conns /\ attach[r.prov] \notin {"none", "init", "built"}
        /\ profileKey[r.prov] = profileKey[l] /\ AgentName(r.prov, k, r.orig) = n
    BY <2>6 DEF RouteKey, LabelInv
  <2> HIDE DEF r, key
  <2>8. /\ RoutedCall(x)
        /\ x.prov = r.prov /\ x.kind = k /\ x.orig = r.orig /\ x.name = n
    BY <2>7 DEF RoutedCall
  <2> HIDE DEF x
  <2> QED BY <2>1, <2>5, <2>7, <2>8, OneCallKeepsCallInv
<1>17. ASSUME NEW l \in Listeners, CallSend(l) PROVE CallInv'
  <2>1. UNCHANGED <<attach, profileKey, label>> /\ RoutedCall(call[l])
    BY <1>17 DEF CallSend, bridge, naming, links, CallInv, NamedCall, IdleCall
  <2>2. CASE call' = [call EXCEPT ![l] = IdleCall]
    BY <2>1, <2>2, OneCallKeepsCallInv
  <2>3. CASE call' = [call EXCEPT ![l].at = "sent"]
    <3> DEFINE x == [call[l] EXCEPT !.at = "sent"]
    <3>1. /\ RoutedCall(x) /\ x.prov = call[l].prov /\ x.kind = call[l].kind
          /\ x.orig = call[l].orig /\ x.name = call[l].name
      <4>1. PICK a \in {"routed", "sent"}, k \in Kinds, c \in Conns : \E n, o :
              call[l] = [at |-> a, kind |-> k, name |-> n, prov |-> c, orig |-> o]
        BY <2>1 DEF RoutedCall
      <4>2. PICK n, o :
              call[l] = [at |-> a, kind |-> k, name |-> n, prov |-> c, orig |-> o]
        BY <4>1
      <4>3. x = [at |-> "sent", kind |-> k, name |-> n, prov |-> c, orig |-> o]
        BY <4>2
      <4> HIDE DEF x
      <4>4. RoutedCall(x)
        <5>1. "sent" \in {"routed", "sent"} OBVIOUS
        <5> QED BY <4>3, <5>1 DEF RoutedCall
      <4> QED BY <4>2, <4>3, <4>4
    <3>2. call' = [call EXCEPT ![l] = x]
      BY <2>3
    <3> HIDE DEF x
    <3> QED BY <2>1, <3>1, <3>2, OneCallKeepsCallInv DEF CallInv
  <2> QED BY <1>17, <2>2, <2>3 DEF CallSend
<1> USE DEF bridge, registry, naming, catalogs, links,
           workers, shutdown, browser, clients, engine, outside
<1>18. CASE UNCHANGED <<call, profileKey, label, attach>>
  BY <1>18 DEF CallInv, AgentName
<1>19. ASSUME NEW c \in Conns,
       \/ HangupRebuild(c)
       \/ HangupBroadcast(c)
       \/ ReadNotification(c)
       \/ PageAnswers(c)
     PROVE  CallInv'
  BY <1>18, <1>19 DEF HangupRebuild, HangupBroadcast, ReadNotification, PageAnswers
<1>20. ASSUME NEW c \in Conns, NEW k \in Kinds, PageChanges(c, k)
      PROVE  CallInv'
  BY <1>18, <1>20 DEF PageChanges
<1>21. ASSUME NEW p \in Runners, NEW c \in Conns, NEW k \in Kinds, SpawnedRefresh(p, c, k)
      PROVE  CallInv'
  BY <1>18, <1>21 DEF SpawnedRefresh
<1>22. ASSUME NEW p \in Procs,
       \/ FetchPage(p)
       \/ FetchFails(p)
       \/ StoreCatalog(p)
       \/ JobRebuild(p)
       \/ JobBroadcast(p)
     PROVE  CallInv'
  BY <1>18, <1>22 DEF FetchPage, FetchFails, StoreCatalog, JobRebuild, JobBroadcast
<1>23. ASSUME NEW p \in Peers, Disconnect(p)
      PROVE  CallInv'
  BY <1>18, <1>23 DEF Disconnect
<1>24. ASSUME NEW s \in Sessions, OpenHTTPSession(s) \/ SessionClose(s) \/ SessionDeregister(s)
      PROVE  CallInv'
  BY <1>18, <1>24 DEF OpenHTTPSession, SessionClose, SessionDeregister
<1>25. ASSUME NEW l \in Listeners, NEW k \in Kinds, List(l, k)
      PROVE  CallInv'
  BY <1>18, <1>25 DEF List
<1>26. CASE IdleTimerFires \/ DaemonClose \/ IdleClose \/ CloseReturns
  BY <1>18, <1>26 DEF IdleTimerFires, DaemonClose, IdleClose, CloseReturns
<1>27. ASSUME NEW x \in Peers \cup Sessions, CloseNext(x)
      PROVE  CallInv'
  BY <1>18, <1>27 DEF CloseNext
<1>28. CASE UNCHANGED vars
  BY <1>18, <1>28 DEF vars
<1> QED
  BY <1>1, <1>2, <1>3, <1>4, <1>5, <1>6, <1>7, <1>8, <1>9, <1>10, <1>11, <1>12, <1>13,
     <1>14, <1>15, <1>16, <1>17, <1>18, <1>19, <1>20, <1>21, <1>22, <1>23, <1>24, <1>25,
     <1>26, <1>27, <1>28
     DEF Next, AttachStep, ReadStep, HangupStep, RefreshStep, CallStep, CloseStep

-----------------------------------------------------------------------------
(***************************************************************************)
(* The label store's users, the links and the notifications.               *)
(***************************************************************************)

\* Registering a provider is all that touches the label store.
LEMMA StoreNext ==
  ASSUME RoutingInv, LabelInv, [Next]_vars
  PROVE  IsStore(reserved)'
<1> USE DEF RoutingInv
<1>1. ASSUME NEW c \in Conns, Register(c) PROVE IsStore(reserved)'
  <2>1. UNCHANGED reserved
        \/ \E lab : reserved' = RememberLabel(reserved, Meta[c], lab, LabelsInUse)
    BY <1>1 DEF Register
  <2> QED BY <2>1, RememberKeepsStore DEF RoutingInv
<1> USE DEF bridge, registry, naming, catalogs, links,
           workers, shutdown, browser, clients, engine, outside
<1>2. CASE UNCHANGED reserved
  BY <1>2 DEF RoutingInv
<1>3. ASSUME NEW c \in Conns,
       \/ Connect(c)
       \/ Initialized(c)
       \/ InitializeFails(c)
       \/ SetNotificationHandler(c)
       \/ SetCloseHandler(c)
       \/ AttachRefresh(c)
       \/ ProviderClosed(c)
       \/ HangupRebuild(c)
       \/ HangupBroadcast(c)
       \/ ReadNotification(c)
       \/ ReadResponse(c)
       \/ PageAnswers(c)
     PROVE  IsStore(reserved)'
  BY <1>2, <1>3
     DEF Connect, Initialized, InitializeFails, SetNotificationHandler, SetCloseHandler,
         AttachRefresh, ProviderClosed, HangupRebuild, HangupBroadcast, ReadNotification,
         ReadResponse, PageAnswers
<1>4. ASSUME NEW c \in Conns, NEW k \in Kinds, PageChanges(c, k)
      PROVE  IsStore(reserved)'
  BY <1>2, <1>4 DEF PageChanges
<1>5. ASSUME NEW p \in Runners, NEW c \in Conns, NEW k \in Kinds, SpawnedRefresh(p, c, k)
      PROVE  IsStore(reserved)'
  BY <1>2, <1>5 DEF SpawnedRefresh
<1>6. ASSUME NEW p \in Procs,
       \/ FetchPage(p)
       \/ FetchFails(p)
       \/ StoreCatalog(p)
       \/ JobRebuild(p)
       \/ JobBroadcast(p)
     PROVE  IsStore(reserved)'
  BY <1>2, <1>6 DEF FetchPage, FetchFails, StoreCatalog, JobRebuild, JobBroadcast
<1>7. ASSUME NEW p \in Peers, Disconnect(p)
      PROVE  IsStore(reserved)'
  BY <1>2, <1>7 DEF Disconnect
<1>8. ASSUME NEW a \in Agents, AgentAttach(a) \/ AgentServe(a) \/ AgentClosed(a)
      PROVE  IsStore(reserved)'
  BY <1>2, <1>8 DEF AgentAttach, AgentServe, AgentClosed
<1>9. ASSUME NEW s \in Sessions, OpenHTTPSession(s) \/ SessionClose(s) \/ SessionDeregister(s)
      PROVE  IsStore(reserved)'
  BY <1>2, <1>9 DEF OpenHTTPSession, SessionClose, SessionDeregister
<1>10. ASSUME NEW l \in Listeners, RouteFound(l) \/ RouteMissing(l) \/ CallSend(l) \/ CallFails(l)
      PROVE  IsStore(reserved)'
  BY <1>2, <1>10 DEF RouteFound, RouteMissing, CallSend, CallFails
<1>11. ASSUME NEW l \in Listeners, NEW k \in Kinds, List(l, k) \/ Call(l, k)
      PROVE  IsStore(reserved)'
  BY <1>2, <1>11 DEF List, Call
<1>12. CASE IdleTimerFires \/ DaemonClose \/ IdleClose \/ CloseReturns
  BY <1>2, <1>12 DEF IdleTimerFires, DaemonClose, IdleClose, CloseReturns
<1>13. ASSUME NEW x \in Peers \cup Sessions, CloseNext(x)
      PROVE  IsStore(reserved)'
  BY <1>2, <1>13 DEF CloseNext
<1>14. CASE UNCHANGED vars
  BY <1>2, <1>14 DEF vars
<1> QED
  BY <1>1, <1>2, <1>3, <1>4, <1>5, <1>6, <1>7, <1>8, <1>9, <1>10, <1>11, <1>12, <1>13,
     <1>14
     DEF Next, AttachStep, ReadStep, HangupStep, RefreshStep, CallStep, CloseStep

\* Head and Tail of a list that is not empty.
LEMMA HeadAndTail ==
  ASSUME NEW S, NEW s \in Seq(S), s # <<>>
  PROVE  /\ Head(s) \in S /\ Head(s) = s[1] /\ Tail(s) \in Seq(S)
         /\ Len(s) \in Nat \ {0} /\ DOMAIN s = 1..Len(s)
         /\ DOMAIN Tail(s) = 1..(Len(s) - 1)
         /\ \A i \in 1..(Len(s) - 1) : i + 1 \in DOMAIN s /\ Tail(s)[i] = s[i + 1]
BY HeadTailProperties

\* A broadcast keeps the types of what is told and what is lost.
LEMMA BroadcastTypes ==
  ASSUME LifeInv, LinkTypes, NEW profile, NEW k \in Kinds, Broadcast(profile, k)
  PROVE  notes' \in [Listeners -> SUBSET Kinds] /\ missed' \subseteq Sessions \X Kinds
<1>1. sessions \subseteq Sessions
  BY DEF LifeInv, LifeTypes
<1>2. PICK lost \in SUBSET {s \in sessions : profileKey[s] = profile} :
        /\ notes' = [l \in Listeners |->
                       IF l \in (agents \cup sessions) \ lost /\ profileKey[l] = profile
                       THEN notes[l] \cup {k} ELSE notes[l]]
        /\ missed' = missed \cup {<<s, k>> : s \in lost}
  BY DEF Broadcast
<1>3. {<<s, k>> : s \in lost} \subseteq Sessions \X Kinds
  BY <1>1
<1> QED BY <1>2, <1>3 DEF LinkTypes

\* The links, Close and the notifications keep their types; what a hangup still has to
\* tell is not empty before it is over.
LEMMA LinkNext ==
  ASSUME RoutingInv, LifeInv, [Next]_vars
  PROVE  LinkTypes'
<1> USE DEF RoutingInv, LifeInv, LifeTypes, LinkTypes, Shut, CloseSection,
           links, shutdown, workers, Peers, bridge, engine, clients, outside
<1>1. ASSUME NEW c \in Conns, Connect(c) PROVE LinkTypes'
  BY <1>1 DEF Connect
<1>2. ASSUME NEW c \in Conns, InitializeFails(c) PROVE LinkTypes'
  BY <1>2 DEF InitializeFails
<1>3. ASSUME NEW c \in Conns, SetNotificationHandler(c) PROVE LinkTypes'
  BY <1>3 DEF SetNotificationHandler
<1>4. ASSUME NEW c \in Conns, SetCloseHandler(c) PROVE LinkTypes'
  BY <1>4 DEF SetCloseHandler
<1>5. ASSUME NEW p \in Peers, Disconnect(p) PROVE LinkTypes'
  BY <1>5 DEF Disconnect
<1>6. ASSUME NEW a \in Agents, AgentAttach(a) PROVE LinkTypes'
  BY <1>6 DEF AgentAttach
<1>7. ASSUME NEW a \in Agents, AgentServe(a) PROVE LinkTypes'
  BY <1>7 DEF AgentServe
<1>8. ASSUME NEW a \in Agents, AgentClosed(a) PROVE LinkTypes'
  BY <1>8 DEF AgentClosed
<1>9. ASSUME NEW s \in Sessions, SessionClose(s) PROVE LinkTypes'
  BY <1>9 DEF SessionClose
<1>10. ASSUME NEW s \in Sessions, SessionDeregister(s) PROVE LinkTypes'
  BY <1>10 DEF SessionDeregister
<1>11. ASSUME NEW s \in Sessions, OpenHTTPSession(s) PROVE LinkTypes'
  BY <1>11 DEF OpenHTTPSession
<1>12. CASE IdleTimerFires
  BY <1>12 DEF IdleTimerFires
<1>13. CASE DaemonClose
  BY <1>13 DEF DaemonClose
<1>14. CASE IdleClose
  BY <1>14 DEF IdleClose
<1>15. CASE CloseReturns
  BY <1>15 DEF CloseReturns
<1>16. ASSUME NEW x \in Peers \cup Sessions, CloseNext(x) PROVE LinkTypes'
  BY <1>16 DEF CloseNext
<1>17. ASSUME NEW l \in Listeners, NEW k \in Kinds, List(l, k) PROVE LinkTypes'
  BY <1>17 DEF List
<1>18. ASSUME NEW c \in Conns, Register(c) PROVE LinkTypes'
  BY <1>18, CatalogsAreListed
     DEF Register, LinkTypes, Shut, Peers, engine, outside, shutdown, clients
<1>19. ASSUME NEW c \in Conns, AttachRefresh(c) PROVE LinkTypes'
  <2>1. todo'[c] \in Seq(Kinds) /\ todo' = [todo EXCEPT ![c] = todo'[c]]
    <3>1. todo[c] \in Seq(Kinds)
      BY DEF LinkTypes
    <3>2. CASE todo[c] = <<>>
      BY <1>19, <3>1, <3>2 DEF AttachRefresh, LinkTypes
    <3>3. CASE todo[c] # <<>>
      <4>1. Tail(todo[c]) \in Seq(Kinds)
        BY <3>1, <3>3, HeadAndTail
      <4>2. todo' = [todo EXCEPT ![c] = Tail(todo[c])]
        BY <1>19, <3>3 DEF AttachRefresh
      <4> QED BY <4>1, <4>2 DEF LinkTypes
    <3> QED BY <3>2, <3>3
  <2> QED BY <1>19, <2>1 DEF AttachRefresh, LinkTypes, outside, clients, shutdown
<1>20. ASSUME NEW c \in Conns, HangupBroadcast(c) PROVE LinkTypes'
  <2>1. /\ hangup[c].left \in Seq(Kinds) /\ hangup[c].left # <<>>
        /\ Head(hangup[c].left) \in Kinds /\ Tail(hangup[c].left) \in Seq(Kinds)
    BY <1>20, HeadAndTail DEF HangupBroadcast, LinkTypes
  <2>2. notes' \in [Listeners -> SUBSET Kinds] /\ missed' \subseteq Sessions \X Kinds
    BY <1>20, <2>1, BroadcastTypes DEF HangupBroadcast
  <2> QED BY <1>20, <2>1, <2>2 DEF HangupBroadcast, LinkTypes, engine, shutdown, Peers
<1>21. ASSUME NEW c \in Conns, ProviderClosed(c) PROVE LinkTypes'
  <2>1. c \in Peers
    BY DEF Peers
  <2>2. peer' = peer \/ peer' = [peer EXCEPT ![c] = "closed"]
    BY <1>21 DEF ProviderClosed
  <2>3. \/ hangup' = hangup
        \/ KindSeq = <<>> /\ hangup' = [hangup EXCEPT ![c] = [at |-> "none", left |-> KindSeq]]
        \/ KindSeq # <<>> /\ hangup' = [hangup EXCEPT ![c] = [at |-> "rebuild", left |-> KindSeq]]
    BY <1>21 DEF ProviderClosed
  <2>4. /\ hangup' \in [Conns -> [at : {"none", "rebuild", "broadcast"}, left : Seq(Kinds)]]
        /\ \A d \in Conns : hangup'[d].at # "none" => hangup'[d].left # <<>>
    <3>1. CASE hangup' = hangup
      BY <3>1 DEF LinkTypes
    <3>2. ASSUME NEW a \in {"none", "rebuild"}, a # "none" => KindSeq # <<>>,
                 hangup' = [hangup EXCEPT ![c] = [at |-> a, left |-> KindSeq]]
          PROVE  /\ hangup' \in [Conns -> [at : {"none", "rebuild", "broadcast"},
                                           left : Seq(Kinds)]]
                 /\ \A d \in Conns : hangup'[d].at # "none" => hangup'[d].left # <<>>
      <4> DEFINE h == [at |-> a, left |-> KindSeq]
      <4>1. /\ h \in [at : {"none", "rebuild", "broadcast"}, left : Seq(Kinds)]
            /\ h.at # "none" => h.left # <<>>
        BY <3>2, CatalogsAreListed
      <4> HIDE DEF h
      <4>2. hangup' = [hangup EXCEPT ![c] = h]
        BY <3>2 DEF h
      <4> QED BY <4>1, <4>2 DEF LinkTypes
    <3> QED BY <2>3, <3>1, <3>2
  <2>5. UNCHANGED <<todo, idleFired, closeTodo, closing, notes, missed>>
    BY <1>21 DEF ProviderClosed, engine, shutdown, outside, clients
  <2> QED BY <2>1, <2>2, <2>4, <2>5 DEF LinkTypes
<1>22. ASSUME NEW p \in Procs, JobBroadcast(p) PROVE LinkTypes'
  <2>1. job[p] \in Jobs /\ job[p].at = "broadcast"
    BY <1>22 DEF JobBroadcast, CatalogTypes
  <2>2. job[p].kind \in Kinds
    BY <2>1 DEF Jobs, IdleJob
  <2>3. notes' \in [Listeners -> SUBSET Kinds] /\ missed' \subseteq Sessions \X Kinds
    BY <1>22, <2>2, BroadcastTypes DEF JobBroadcast
  <2> QED BY <1>22, <2>3 DEF JobBroadcast, LinkTypes, links, shutdown
<1>23. ASSUME NEW c \in Conns, HangupRebuild(c) PROVE LinkTypes'
  BY <1>23 DEF HangupRebuild, LinkTypes, Peers, engine, outside, shutdown, clients
<1> USE DEF bridge, registry, naming, catalogs, links,
           workers, shutdown, browser, clients, engine, outside
<1>24. CASE UNCHANGED <<peer, todo, hangup, idleFired, closeTodo, closing, notes, missed>>
  BY <1>24 DEF LinkTypes
<1>25. ASSUME NEW c \in Conns,
       \/ Initialized(c)
       \/ ReadNotification(c)
       \/ ReadResponse(c)
       \/ PageAnswers(c)
     PROVE  LinkTypes'
  BY <1>24, <1>25 DEF Initialized, ReadNotification, ReadResponse, PageAnswers
<1>26. ASSUME NEW c \in Conns, NEW k \in Kinds, PageChanges(c, k)
      PROVE  LinkTypes'
  BY <1>24, <1>26 DEF PageChanges
<1>27. ASSUME NEW p \in Runners, NEW c \in Conns, NEW k \in Kinds, SpawnedRefresh(p, c, k)
      PROVE  LinkTypes'
  BY <1>24, <1>27 DEF SpawnedRefresh
<1>28. ASSUME NEW p \in Procs, FetchPage(p) \/ FetchFails(p) \/ StoreCatalog(p) \/ JobRebuild(p)
      PROVE  LinkTypes'
  BY <1>24, <1>28 DEF FetchPage, FetchFails, StoreCatalog, JobRebuild
<1>29. ASSUME NEW l \in Listeners, RouteFound(l) \/ RouteMissing(l) \/ CallSend(l) \/ CallFails(l)
      PROVE  LinkTypes'
  BY <1>24, <1>29 DEF RouteFound, RouteMissing, CallSend, CallFails
<1>30. ASSUME NEW l \in Listeners, NEW k \in Kinds, Call(l, k)
      PROVE  LinkTypes'
  BY <1>24, <1>30 DEF Call
<1>31. CASE UNCHANGED vars
  BY <1>24, <1>31 DEF vars
<1> QED
  BY <1>1, <1>2, <1>3, <1>4, <1>5, <1>6, <1>7, <1>8, <1>9, <1>10, <1>11, <1>12, <1>13,
     <1>14, <1>15, <1>16, <1>17, <1>18, <1>19, <1>20, <1>21, <1>22, <1>23, <1>24, <1>25,
     <1>26, <1>27, <1>28, <1>29, <1>30, <1>31
     DEF Next, AttachStep, ReadStep, HangupStep, RefreshStep, CallStep, CloseStep

-----------------------------------------------------------------------------
(***************************************************************************)
(* Fetches: the flags, the goroutines and the wire.                        *)
(***************************************************************************)

\* One flag of one catalog's sync record is set: the others stay.
Syncs == [inFlight : BOOLEAN, dirty : BOOLEAN]

\* Setting one catalog's flags leaves those of the others.
LEMMA SyncIsSet ==
  ASSUME sync \in [Conns -> [Kinds -> Syncs]], NEW c \in Conns, NEW k \in Kinds,
         NEW s \in Syncs, sync' = [sync EXCEPT ![c][k] = s]
  PROVE  /\ sync' \in [Conns -> [Kinds -> Syncs]]
         /\ sync'[c][k] = s
         /\ \A d \in Conns, j \in Kinds : (d # c \/ j # k) => sync'[d][j] = sync[d][j]
<1> DEFINE x == [sync[c] EXCEPT ![k] = s]
<1>1. x \in [Kinds -> Syncs] /\ x[k] = s /\ \A j \in Kinds : j # k => x[j] = sync[c][j]
  OBVIOUS
<1>2. sync' = [sync EXCEPT ![c] = x]
  OBVIOUS
<1> HIDE DEF x
<1> QED BY <1>1, <1>2

\* What refreshCatalog's first section does to the flags and to the goroutine.
LEMMA EnterEffect ==
  ASSUME CatalogTypes, NEW p \in Procs, NEW c \in Conns, NEW k \in Kinds,
         EnterRefresh(p, c, k)
  PROVE  /\ sync' \in [Conns -> [Kinds -> Syncs]]
         /\ job' \in [Procs -> Jobs]
         /\ \A d \in Conns, j \in Kinds : (d # c \/ j # k) => sync'[d][j] = sync[d][j]
         /\ sync'[c][k].inFlight
         /\ \/ job' = job /\ sync[c][k].inFlight /\ sync'[c][k].dirty
            \/ /\ ~sync[c][k].inFlight /\ sync'[c][k].dirty = sync[c][k].dirty
               /\ job' = [job EXCEPT ![p] = Fetching(c, k, 1, {})]
<1>1. Fetching(c, k, 1, {}) \in Jobs
  BY CatalogsAreListed DEF Fetching, Jobs
<1>2. sync \in [Conns -> [Kinds -> Syncs]] /\ job \in [Procs -> Jobs]
  BY DEF CatalogTypes, Syncs
<1> DEFINE dirtied == [sync[c][k] EXCEPT !.dirty = TRUE]
           started == [sync[c][k] EXCEPT !.inFlight = TRUE]
<1>3. sync[c][k] \in Syncs
  BY <1>2
<1>4. /\ dirtied \in Syncs /\ dirtied.inFlight = sync[c][k].inFlight /\ dirtied.dirty
      /\ started \in Syncs /\ started.inFlight /\ started.dirty = sync[c][k].dirty
  BY <1>3 DEF Syncs
<1>5. CASE sync[c][k].inFlight
  <2>1. sync' = [sync EXCEPT ![c][k] = dirtied] /\ job' = job
    BY <1>5 DEF EnterRefresh
  <2> HIDE DEF dirtied
  <2>2. /\ sync' \in [Conns -> [Kinds -> Syncs]] /\ sync'[c][k] = dirtied
        /\ \A d \in Conns, j \in Kinds : (d # c \/ j # k) => sync'[d][j] = sync[d][j]
    BY <1>2, <1>4, <2>1, SyncIsSet
  <2>3. sync'[c][k].inFlight /\ sync'[c][k].dirty
    BY <1>4, <1>5, <2>2
  <2> QED BY <1>2, <1>5, <2>1, <2>2, <2>3
<1>6. CASE ~sync[c][k].inFlight
  <2>1. /\ sync' = [sync EXCEPT ![c][k] = started]
        /\ job' = [job EXCEPT ![p] = Fetching(c, k, 1, {})]
    BY <1>6 DEF EnterRefresh
  <2> HIDE DEF started
  <2> QED BY <1>1, <1>2, <1>4, <1>6, <2>1, SyncIsSet
<1> QED BY <1>5, <1>6

\* What is left after a call was forgotten is some of what was there, none of it
\* this call's.
Forgotten(p, c) ==
  /\ asked' = [asked EXCEPT ![c] = {r \in asked[c] : r.proc # p}]
  /\ wire' \in [Conns -> Seq(Messages)]
  /\ \A d \in Conns : d # c => wire'[d] = wire[d]
  /\ \E pos :
       /\ \A i \in DOMAIN wire'[c] :
            /\ pos[i] \in DOMAIN wire[c]
            /\ wire'[c][i] = wire[c][pos[i]]
            /\ wire'[c][i].type = "resp" => wire'[c][i].proc # p
       /\ \A i, j \in DOMAIN wire'[c] : pos[i] = pos[j] => i = j
  /\ \A j \in DOMAIN wire[c] : wire[c][j].type = "note" =>
       \E i \in DOMAIN wire'[c] : wire'[c][i] = wire[c][j]

\* Forget leaves what Forgotten says.
LEMMA ForgetForgets ==
  ASSUME CatalogTypes, NEW p, NEW c \in Conns, Forget(p, c)
  PROVE  Forgotten(p, c)
<1> DEFINE w == wire[c]
           n == Len(w)
           I == {i \in DOMAIN w : w[i].type = "resp" => w[i].proc # p}
           sub == Subsequence(w, I)
           N == Cardinality(I)
<1>1. /\ w \in Seq(Messages) /\ n \in Nat /\ DOMAIN w = 1..n
      /\ \A i \in DOMAIN w : w[i] \in Messages
  BY DEF CatalogTypes
<1>2. /\ I \in SUBSET (1..n) /\ \A i \in I : w[i].type = "resp" => w[i].proc # p
      /\ \A i \in DOMAIN w : w[i].type = "note" => i \in I
  BY <1>1
<1>3. /\ asked' = [asked EXCEPT ![c] = {r \in asked[c] : r.proc # p}]
      /\ wire' = [wire EXCEPT ![c] = sub]
  BY DEF Forget
<1>4. sub = [i \in 1..N |-> sub[i]]
  BY DEF Subsequence
<1> HIDE DEF I, w, n
<1>5. Takes(sub, w, I)
  BY <1>1, <1>2, SubsequenceTakes
<1> HIDE DEF sub
<1>6. PICK pos \in [1..N -> I] :
        /\ \A m \in 1..N : sub[m] = w[pos[m]]
        /\ \A m, l \in 1..N : pos[m] = pos[l] => m = l
        /\ \A i \in I : \E m \in 1..N : pos[m] = i
  BY <1>5 DEF Takes
<1>7. DOMAIN sub = 1..N /\ N \in Nat
  BY <1>5 DEF Takes
<1> HIDE DEF N
<1>8. ASSUME NEW m \in 1..N
      PROVE  /\ pos[m] \in DOMAIN w /\ sub[m] \in Messages
             /\ sub[m].type = "resp" => sub[m].proc # p
  <2>1. pos[m] \in I /\ sub[m] = w[pos[m]]
    BY <1>6
  <2> QED BY <1>1, <1>2, <2>1
<1>9. sub \in Seq(Messages)
  <2>1. sub \in [1..N -> Messages]
    BY <1>4, <1>8
  <2> QED BY <1>7, <2>1
<1>10. /\ wire' \in [Conns -> Seq(Messages)] /\ wire'[c] = sub
       /\ \A d \in Conns : d # c => wire'[d] = wire[d]
  BY <1>3, <1>9 DEF CatalogTypes
<1>11. ASSUME NEW j \in DOMAIN w, w[j].type = "note"
       PROVE  \E i \in DOMAIN wire'[c] : wire'[c][i] = w[j]
  <2>1. PICK m \in 1..N : pos[m] = j
    BY <1>2, <1>6, <1>11
  <2> QED BY <1>6, <1>7, <1>10, <2>1
<1> QED BY <1>3, <1>6, <1>7, <1>8, <1>10, <1>11 DEF Forgotten, w

\* Replies are responses to a fetch. What is asked and replied after the step was
\* asked and replied before it, and whoever waits for it still does.
Reply(m) == m.type = "resp" /\ m.proc \in Procs

NothingNew(c) ==
  /\ \A r \in asked'[c] :
       r.proc \in Procs => r \in asked[c] /\ job'[r.proc] = job[r.proc]
  /\ \E pos :
       /\ \A i \in DOMAIN wire'[c] :
            Reply(wire'[c][i]) => /\ pos[i] \in DOMAIN wire[c]
                                  /\ wire'[c][i] = wire[c][pos[i]]
                                  /\ job'[wire'[c][i].proc] = job[wire'[c][i].proc]
       /\ \A i, j \in DOMAIN wire'[c] :
            (Reply(wire'[c][i]) /\ Reply(wire'[c][j]) /\ pos[i] = pos[j]) => i = j

AwaitsStill(p, c) == job'[p].at = "wait" /\ job'[p].conn = c

\* WireInv at c after the step.
WireStill(c) ==
  /\ \A r \in asked'[c] :
       r.proc \in Procs => AwaitsStill(r.proc, c) /\ job'[r.proc].kind = r.kind
  /\ \A i \in DOMAIN wire'[c] :
       Reply(wire'[c][i]) =>
         /\ AwaitsStill(wire'[c][i].proc, c)
         /\ \A r \in asked'[c] : r.proc # wire'[c][i].proc
         /\ \A j \in DOMAIN wire'[c] :
              (wire'[c][j].type = "resp" /\ wire'[c][j].proc = wire'[c][i].proc) => i = j
  /\ \A r, q \in asked'[c] : (r.proc \in Procs /\ r.proc = q.proc) => r = q

\* WireInv after the step, connection by connection.
LEMMA StillIsNext ==
  ASSUME \A c \in Conns : WireStill(c)
  PROVE  WireInv'
BY DEF WireInv, Awaits, AwaitsStill, WireStill, Reply

\* Where nothing is new, what held on the wire still does.
LEMMA NothingNewIsStill ==
  ASSUME WireInv, NEW c \in Conns, NothingNew(c)
  PROVE  WireStill(c)
<1>1. NothingNew(c)
  OBVIOUS
<1>2. ASSUME NEW r \in asked'[c], r.proc \in Procs
      PROVE  AwaitsStill(r.proc, c) /\ job'[r.proc].kind = r.kind
  BY <1>1, <1>2 DEF NothingNew, WireInv, Awaits, AwaitsStill
<1>3. \A r, q \in asked'[c] : (r.proc \in Procs /\ r.proc = q.proc) => r = q
  BY <1>1 DEF NothingNew, WireInv
<1>4. PICK pos :
       /\ \A i \in DOMAIN wire'[c] :
            Reply(wire'[c][i]) => /\ pos[i] \in DOMAIN wire[c]
                                  /\ wire'[c][i] = wire[c][pos[i]]
                                  /\ job'[wire'[c][i].proc] = job[wire'[c][i].proc]
       /\ \A i, j \in DOMAIN wire'[c] :
            (Reply(wire'[c][i]) /\ Reply(wire'[c][j]) /\ pos[i] = pos[j]) => i = j
  BY <1>1 DEF NothingNew
<1>5. ASSUME NEW i \in DOMAIN wire'[c], Reply(wire'[c][i])
      PROVE  /\ AwaitsStill(wire'[c][i].proc, c)
             /\ \A r \in asked'[c] : r.proc # wire'[c][i].proc
             /\ \A j \in DOMAIN wire'[c] :
                  (wire'[c][j].type = "resp" /\ wire'[c][j].proc = wire'[c][i].proc)
                    => i = j
  <2> DEFINE q == wire'[c][i].proc
  <2>1. /\ q \in Procs /\ pos[i] \in DOMAIN wire[c] /\ wire'[c][i] = wire[c][pos[i]]
        /\ job'[q] = job[q] /\ wire[c][pos[i]].type = "resp" /\ wire[c][pos[i]].proc = q
    BY <1>4, <1>5 DEF Reply
  <2>2. /\ Awaits(q, c)
        /\ \A r \in asked[c] : r.proc # q
        /\ \A j \in DOMAIN wire[c] :
             (wire[c][j].type = "resp" /\ wire[c][j].proc = q) => pos[i] = j
    BY <2>1 DEF WireInv
  <2>3. AwaitsStill(q, c)
    BY <2>1, <2>2 DEF Awaits, AwaitsStill
  <2>4. \A r \in asked'[c] : r.proc # q
    BY <1>1, <2>1, <2>2 DEF NothingNew
  <2>5. ASSUME NEW j \in DOMAIN wire'[c], wire'[c][j].type = "resp",
               wire'[c][j].proc = q
        PROVE  i = j
    <3>1. Reply(wire'[c][j])
      BY <2>1, <2>5 DEF Reply
    <3>2. pos[i] = pos[j]
      BY <1>4, <2>2, <2>5, <3>1
    <3> QED BY <1>4, <1>5, <3>1, <3>2
  <2> QED BY <2>3, <2>4, <2>5
<1> QED BY <1>2, <1>3, <1>5 DEF WireStill

\* The wire of a connection that nobody touches has nothing new on it, if who waits
\* for something of it still does.
LEMMA UntouchedIsNothingNew ==
  ASSUME WireInv, NEW c \in Conns, wire'[c] = wire[c], asked'[c] = asked[c],
         \A p \in Procs : Awaits(p, c) => job'[p] = job[p]
  PROVE  NothingNew(c)
<1> DEFINE pos == [i \in DOMAIN wire[c] |-> i]
<1>1. \A r \in asked'[c] :
        r.proc \in Procs => r \in asked[c] /\ job'[r.proc] = job[r.proc]
  BY DEF WireInv
<1>2. \A i \in DOMAIN wire'[c] :
        Reply(wire'[c][i]) => /\ pos[i] \in DOMAIN wire[c]
                              /\ wire'[c][i] = wire[c][pos[i]]
                              /\ job'[wire'[c][i].proc] = job[wire'[c][i].proc]
  BY DEF WireInv, Reply
<1>3. \A i, j \in DOMAIN wire'[c] : pos[i] = pos[j] => i = j
  OBVIOUS
<1> HIDE DEF pos
<1> QED BY <1>1, <1>2, <1>3 DEF NothingNew

\* A call that gives up leaves nothing new, and nothing of its own.
LEMMA ForgottenIsNothingNew ==
  ASSUME WireInv, CatalogTypes, NEW p, NEW c \in Conns, Forgotten(p, c),
         p \in Procs => Awaits(p, c),
         \A q \in Procs : q # p => job'[q] = job[q]
  PROVE  \A d \in Conns : NothingNew(d)
<1>1. asked'[c] = {r \in asked[c] : r.proc # p} /\ \A d \in Conns \ {c} : asked'[d] = asked[d]
  BY DEF Forgotten, CatalogTypes
<1>2. ASSUME NEW d \in Conns, d # c PROVE NothingNew(d)
  <2>1. \A q \in Procs : Awaits(q, d) => job'[q] = job[q]
    BY <1>2 DEF Awaits
  <2> QED BY <1>1, <1>2, <2>1, UntouchedIsNothingNew DEF Forgotten
<1>3. NothingNew(c)
  <2>1. PICK pos :
       /\ \A i \in DOMAIN wire'[c] :
            /\ pos[i] \in DOMAIN wire[c]
            /\ wire'[c][i] = wire[c][pos[i]]
            /\ wire'[c][i].type = "resp" => wire'[c][i].proc # p
       /\ \A i, j \in DOMAIN wire'[c] : pos[i] = pos[j] => i = j
    BY DEF Forgotten
  <2>2. \A i \in DOMAIN wire'[c] :
            Reply(wire'[c][i]) => /\ pos[i] \in DOMAIN wire[c]
                                  /\ wire'[c][i] = wire[c][pos[i]]
                                  /\ job'[wire'[c][i].proc] = job[wire'[c][i].proc]
    BY <2>1 DEF Reply
  <2> QED BY <1>1, <2>1, <2>2 DEF NothingNew
<1> QED BY <1>2, <1>3

\* A goroutine that is in the loop has a connection, a kind, a page and what it has
\* fetched so far.
LEMMA BusyJob ==
  ASSUME CatalogTypes, NEW p \in Procs, job[p].at # "idle"
  PROVE  /\ job[p] \in [at : {"fetch", "wait", "store", "rebuild", "broadcast"},
                        conn : Conns, kind : Kinds, page : 1..MaxCatalogPages,
                        acc : SUBSET Names, again : BOOLEAN]
         /\ job[p].conn \in Conns /\ job[p].kind \in Kinds
         /\ job[p].page \in 1..MaxCatalogPages
         /\ job[p].acc \subseteq Names /\ job[p].again \in BOOLEAN
<1>1. job[p] \in Jobs /\ job[p] # IdleJob
  BY DEF CatalogTypes, IdleJob
<1> QED BY <1>1 DEF Jobs

\* The job of p is another of the same catalog.
LEMMA JobMoves ==
  ASSUME CatalogTypes, NEW p \in Procs, job[p].at # "idle",
         NEW a \in {"fetch", "wait", "store", "rebuild", "broadcast"},
         NEW j, j = [job[p] EXCEPT !.at = a]
  PROVE  /\ j \in Jobs /\ j.at = a /\ j.conn = job[p].conn /\ j.kind = job[p].kind
         /\ j.again = job[p].again
<1>1. job[p] \in [at : {"fetch", "wait", "store", "rebuild", "broadcast"},
                  conn : Conns, kind : Kinds, page : 1..MaxCatalogPages,
                  acc : SUBSET Names, again : BOOLEAN]
  BY BusyJob
<1> QED BY <1>1 DEF Jobs

\* The catalogs, the goroutines that fetch them and the wire keep their types.
LEMMA CatalogNext ==
  ASSUME RoutingInv, LabelInv, [Next]_vars
  PROVE  CatalogTypes'
<1> USE DEF RoutingInv
<1>1. ASSUME NEW c \in Conns, AttachRefresh(c) PROVE CatalogTypes'
  <2>1. CASE UNCHANGED <<sync, job>>
    BY <1>1, <2>1 DEF AttachRefresh, CatalogTypes, outside, browser
  <2>2. ASSUME NEW j \in Kinds, EnterRefresh(c, c, j) PROVE CatalogTypes'
    <3>1. /\ sync' \in [Conns -> [Kinds -> Syncs]] /\ job' \in [Procs -> Jobs]
      BY <2>2, EnterEffect DEF Procs
    <3> QED BY <1>1, <3>1 DEF AttachRefresh, CatalogTypes, Syncs, outside, browser
  <2>3. todo[c] # <<>> => Head(todo[c]) \in Kinds
    BY HeadAndTail DEF LinkTypes
  <2> QED BY <1>1, <2>1, <2>2, <2>3 DEF AttachRefresh
<1>2. ASSUME NEW p \in Runners, NEW c \in Conns, NEW k \in Kinds, SpawnedRefresh(p, c, k)
      PROVE  CatalogTypes'
  <2>1. /\ sync' \in [Conns -> [Kinds -> Syncs]] /\ job' \in [Procs -> Jobs]
    BY <1>2, EnterEffect DEF SpawnedRefresh, Procs
  <2>2. spawned' \in [Conns -> [Kinds -> Nat]]
    <3>1. spawned[c][k] - 1 \in Nat /\ spawned[c] \in [Kinds -> Nat]
      BY <1>2 DEF SpawnedRefresh, CatalogTypes
    <3> DEFINE n == spawned[c][k] - 1
               x == [spawned[c] EXCEPT ![k] = n]
    <3>2. spawned' = [spawned EXCEPT ![c] = x]
      BY <1>2 DEF SpawnedRefresh
    <3> HIDE DEF n
    <3>3. x \in [Kinds -> Nat]
      BY <3>1 DEF n
    <3> HIDE DEF x
    <3> QED BY <3>2, <3>3 DEF CatalogTypes
  <2> QED BY <1>2, <2>1, <2>2 DEF SpawnedRefresh, CatalogTypes, Syncs, outside, browser
<1>3. ASSUME NEW p \in Procs, FetchPage(p) PROVE CatalogTypes'
  <2> DEFINE c == job[p].conn
             r == [proc |-> p, kind |-> job[p].kind, page |-> job[p].page]
  <2>1. job[p].at # "idle"
    BY <1>3 DEF FetchPage
  <2>2. c \in Conns /\ r \in Requests
    BY <2>1, BusyJob, CatalogsAreListed DEF Requests
  <2>3. /\ asked' = asked \/ asked' = [asked EXCEPT ![c] = @ \cup {r}]
        /\ \E a \in {"wait", "store"} : job' = [job EXCEPT ![p].at = a]
        /\ UNCHANGED <<catalog, sync, spawned, page, wire>>
    BY <1>3 DEF FetchPage, bridge, catalogs
  <2> HIDE DEF c, r
  <2>4. job' \in [Procs -> Jobs]
    <3>1. PICK a \in {"wait", "store"} : job' = [job EXCEPT ![p].at = a]
      BY <2>3
    <3> DEFINE j == [job[p] EXCEPT !.at = a]
    <3>2. job' = [job EXCEPT ![p] = j] /\ j \in Jobs
      BY <2>1, <3>1, JobMoves
    <3> HIDE DEF j
    <3> QED BY <3>2 DEF CatalogTypes
  <2>5. asked' \in [Conns -> SUBSET Requests]
    <3> DEFINE x == asked[c] \cup {r}
    <3>1. asked' = asked \/ asked' = [asked EXCEPT ![c] = x]
      BY <2>3
    <3>2. x \in SUBSET Requests
      BY <2>2 DEF CatalogTypes
    <3> HIDE DEF x
    <3> QED BY <3>1, <3>2 DEF CatalogTypes
  <2> QED BY <2>3, <2>4, <2>5 DEF CatalogTypes
<1>4. ASSUME NEW p \in Procs, FetchFails(p) PROVE CatalogTypes'
  <2>1. job[p].at # "idle"
    BY <1>4 DEF FetchFails
  <2> DEFINE j == [job[p] EXCEPT !.at = "store"]
  <2>2. job' = [job EXCEPT ![p] = j] /\ j \in Jobs
    BY <1>4, <2>1, JobMoves DEF FetchFails
  <2> HIDE DEF j
  <2>3. job' \in [Procs -> Jobs]
    BY <2>2 DEF CatalogTypes
  <2>4. job[p].conn \in Conns
    BY <2>1, BusyJob
  <2>5. asked' \in [Conns -> SUBSET Requests] /\ wire' \in [Conns -> Seq(Messages)]
    <3>1. Forgotten(p, job[p].conn)
      BY <1>4, <2>4, ForgetForgets DEF FetchFails
    <3> QED BY <3>1, <2>4 DEF Forgotten, CatalogTypes
  <2> QED BY <1>4, <2>3, <2>5 DEF FetchFails, CatalogTypes, bridge, catalogs
<1>5. ASSUME NEW p \in Procs, JobRebuild(p) PROVE CatalogTypes'
  <2>1. job[p].at # "idle"
    BY <1>5 DEF JobRebuild
  <2> DEFINE j == [job[p] EXCEPT !.at = "broadcast"]
  <2>2. job' = [job EXCEPT ![p] = j] /\ j \in Jobs
    BY <1>5, <2>1, JobMoves DEF JobRebuild
  <2> HIDE DEF j
  <2>3. job' \in [Procs -> Jobs]
    BY <2>2 DEF CatalogTypes
  <2> QED BY <1>5, <2>3 DEF JobRebuild, CatalogTypes, catalogs, outside, browser
<1>6. ASSUME NEW p \in Procs, StoreCatalog(p) PROVE CatalogTypes'
  <2> DEFINE c == job[p].conn
             k == job[p].kind
             again == sync[c][k].dirty
             s == [inFlight |-> again, dirty |-> FALSE]
             acc == job[p].acc
             j == [job[p] EXCEPT !.at = "rebuild", !.again = again]
  <2>1. job[p].at # "idle"
    BY <1>6 DEF StoreCatalog
  <2>2. /\ c \in Conns /\ k \in Kinds /\ acc \subseteq Names /\ again \in BOOLEAN
        /\ s \in Syncs
    BY <2>1, BusyJob DEF CatalogTypes, Syncs
  <2>3. j \in Jobs
    BY <2>1, <2>2, BusyJob DEF Jobs
  <2>4. /\ catalog' = [catalog EXCEPT ![c][k] = acc]
        /\ sync' = [sync EXCEPT ![c][k] = s]
        /\ job' = [job EXCEPT ![p] = j]
    BY <1>6 DEF StoreCatalog
  <2> HIDE DEF c, k, again, s, acc, j
  <2>5. sync' \in [Conns -> [Kinds -> Syncs]]
    BY <2>2, <2>4, SyncIsSet DEF CatalogTypes, Syncs
  <2>6. catalog' \in [Conns -> [Kinds -> SUBSET Names]]
    <3> DEFINE x == [catalog[c] EXCEPT ![k] = acc]
    <3>1. catalog' = [catalog EXCEPT ![c] = x] /\ x \in [Kinds -> SUBSET Names]
      BY <2>2, <2>4 DEF CatalogTypes
    <3> HIDE DEF x
    <3> QED BY <3>1 DEF CatalogTypes
  <2>7. job' \in [Procs -> Jobs]
    BY <2>3, <2>4 DEF CatalogTypes
  <2>8. UNCHANGED <<spawned, page, asked, wire>>
    BY <1>6 DEF StoreCatalog, outside, browser
  <2> QED BY <2>5, <2>6, <2>7, <2>8 DEF CatalogTypes, Syncs
<1>7. ASSUME NEW p \in Procs, JobBroadcast(p) PROVE CatalogTypes'
  <2>1. job[p].at # "idle"
    BY <1>7 DEF JobBroadcast
  <2>2. Fetching(job[p].conn, job[p].kind, 1, {}) \in Jobs /\ IdleJob \in Jobs
    BY <2>1, BusyJob, CatalogsAreListed DEF Fetching, Jobs
  <2>3. job' \in [Procs -> Jobs]
    BY <1>7, <2>2 DEF JobBroadcast, CatalogTypes
  <2> QED BY <1>7, <2>3 DEF JobBroadcast, CatalogTypes, bridge, catalogs, browser
<1>8. ASSUME NEW c \in Conns, NEW k \in Kinds, PageChanges(c, k) PROVE CatalogTypes'
  <2> DEFINE m == [type |-> "note", kind |-> k]
  <2>1. m \in Messages
    BY DEF Messages
  <2>2. /\ wire' = [wire EXCEPT ![c] = Append(wire[c], m)]
        /\ \E names \in Catalogs : page' = [page EXCEPT ![c][k] = names]
        /\ UNCHANGED <<catalog, sync, job, spawned, asked>>
    BY <1>8 DEF PageChanges, bridge, catalogs, engine, workers
  <2> HIDE DEF m
  <2>3. wire' \in [Conns -> Seq(Messages)]
    BY <2>1, <2>2 DEF CatalogTypes
  <2>4. page' \in [Conns -> [Kinds -> Catalogs]]
    <3>1. PICK names \in Catalogs : page' = [page EXCEPT ![c][k] = names]
      BY <2>2
    <3> DEFINE x == [page[c] EXCEPT ![k] = names]
    <3>2. page' = [page EXCEPT ![c] = x] /\ x \in [Kinds -> Catalogs]
      BY <3>1 DEF CatalogTypes
    <3> HIDE DEF x
    <3> QED BY <3>2 DEF CatalogTypes
  <2> QED BY <2>2, <2>3, <2>4 DEF CatalogTypes
<1>9. ASSUME NEW c \in Conns, PageAnswers(c) PROVE CatalogTypes'
  <2>1. PICK r \in asked[c] :
          /\ asked' = [asked EXCEPT ![c] = @ \ {r}]
          /\ wire' = [wire EXCEPT ![c] = Append(@,
               [type |-> "resp", proc |-> r.proc,
                names |-> {n \in page[c][r.kind] : PageOf[n] = r.page},
                more |-> r.page < NumPages])]
    BY <1>9 DEF PageAnswers
  <2> DEFINE names == {n \in page[c][r.kind] : PageOf[n] = r.page}
             m == [type |-> "resp", proc |-> r.proc, names |-> names,
                   more |-> r.page < NumPages]
  <2>2. r \in Requests
    BY DEF CatalogTypes
  <2>3. names \subseteq Names
    BY <2>2 DEF CatalogTypes, Requests, Names
  <2> HIDE DEF names
  <2>4. m \in Messages
    BY <2>2, <2>3 DEF Messages, Requests
  <2>5. wire' = [wire EXCEPT ![c] = Append(wire[c], m)]
    BY <2>1 DEF names
  <2> HIDE DEF m
  <2>6. wire' \in [Conns -> Seq(Messages)] /\ asked' \in [Conns -> SUBSET Requests]
    BY <2>1, <2>4, <2>5 DEF CatalogTypes
  <2> QED BY <1>9, <2>6 DEF PageAnswers, CatalogTypes, bridge, catalogs, engine, workers
<1>10. ASSUME NEW c \in Conns, ReadNotification(c) PROVE CatalogTypes'
  <2>1. wire[c] \in Seq(Messages) /\ wire[c] # <<>>
    BY <1>10 DEF ReadNotification, CatalogTypes
  <2>2. Head(wire[c]) \in Messages /\ Tail(wire[c]) \in Seq(Messages)
    BY <2>1, HeadAndTail
  <2>3. wire' \in [Conns -> Seq(Messages)]
    BY <1>10, <2>2 DEF ReadNotification, CatalogTypes
  <2>4. Head(wire[c]).kind \in Kinds
    BY <1>10, <2>2 DEF ReadNotification, Messages
  <2>5. spawned' \in [Conns -> [Kinds -> Nat]]
    <3> DEFINE k == Head(wire[c]).kind
               n == spawned[c][k] + 1
               x == [spawned[c] EXCEPT ![k] = n]
    <3>1. n \in Nat
      BY <2>4 DEF CatalogTypes
    <3>2. spawned' = spawned \/ spawned' = [spawned EXCEPT ![c] = x]
      BY <1>10 DEF ReadNotification
    <3> HIDE DEF n
    <3>3. x \in [Kinds -> Nat]
      BY <2>4, <3>1 DEF CatalogTypes
    <3> HIDE DEF x
    <3> QED BY <3>2, <3>3 DEF CatalogTypes
  <2> QED BY <1>10, <2>3, <2>5 DEF ReadNotification, CatalogTypes, bridge, catalogs
<1>11. ASSUME NEW c \in Conns, ReadResponse(c) PROVE CatalogTypes'
  <2>1. wire[c] \in Seq(Messages) /\ wire[c] # <<>>
    BY <1>11 DEF ReadResponse, CatalogTypes
  <2>2. Head(wire[c]) \in Messages /\ Tail(wire[c]) \in Seq(Messages)
    BY <2>1, HeadAndTail
  <2>3. wire' \in [Conns -> Seq(Messages)]
    BY <1>11, <2>2 DEF ReadResponse, CatalogTypes
  <2>4. job' \in [Procs -> Jobs]
    <3> DEFINE m == Head(wire[c])
               p == m.proc
               j == job[p]
               acc == j.acc \cup m.names
               more == Fetching(c, j.kind, j.page + 1, acc)
               done == [j EXCEPT !.at = "store", !.acc = acc]
    <3>1. m.type = "resp" /\ p \in Procs \cup Listeners /\ m.names \subseteq Names
      BY <1>11, <2>2 DEF ReadResponse, Messages
    <3>2. CASE UNCHANGED job
      BY <3>2 DEF CatalogTypes
    <3>3. CASE p \notin Listeners
      <4>1. p \in Procs /\ j.at = "wait"
        <5>1. 1 \in DOMAIN wire[c] /\ wire[c][1] = m
          BY <2>1, HeadAndTail
        <5> HIDE DEF m
        <5> QED BY <3>1, <3>3, <5>1 DEF WireInv, Awaits
      <4>2. /\ j \in [at : {"fetch", "wait", "store", "rebuild", "broadcast"},
                      conn : Conns, kind : Kinds, page : 1..MaxCatalogPages,
                      acc : SUBSET Names, again : BOOLEAN]
            /\ acc \subseteq Names
        BY <3>1, <4>1, BusyJob
      <4>3. /\ j.conn \in Conns /\ j.kind \in Kinds /\ j.page \in 1..MaxCatalogPages
            /\ c \in Conns
        BY <4>1, BusyJob
      <4> HIDE DEF acc, j
      <4>5. j.page < MaxCatalogPages => j.page + 1 \in 1..MaxCatalogPages
        BY <4>3, CatalogsAreListed
      <4>6. j.page < MaxCatalogPages => more \in Jobs
        BY <4>2, <4>3, <4>5 DEF Fetching, Jobs
      <4>7. done \in Jobs
        BY <4>2 DEF Jobs
      <4>4. \/ j.page < MaxCatalogPages /\ job' = [job EXCEPT ![p] = more]
            \/ job' = [job EXCEPT ![p] = done]
        BY <1>11, <3>3 DEF ReadResponse, acc, j
      <4> HIDE DEF more, done
      <4> QED BY <4>4, <4>6, <4>7 DEF CatalogTypes
    <3> QED BY <1>11, <3>2, <3>3 DEF ReadResponse
  <2> QED BY <1>11, <2>3, <2>4 DEF ReadResponse, CatalogTypes, bridge, catalogs
<1>12. ASSUME NEW l \in Listeners, CallSend(l) PROVE CatalogTypes'
  <2>1. call[l].prov \in Conns /\ call[l].kind \in Kinds
    BY <1>12 DEF CallSend, CallInv, IdleCall, NamedCall, RoutedCall
  <2>2. [proc |-> l, kind |-> call[l].kind, page |-> 0] \in Requests
    BY <2>1 DEF Requests
  <2>3. asked' \in [Conns -> SUBSET Requests]
    <3> DEFINE c == call[l].prov
               r == [proc |-> l, kind |-> call[l].kind, page |-> 0]
               x == asked[c] \cup {r}
    <3>1. asked' = asked \/ asked' = [asked EXCEPT ![c] = x]
      BY <1>12 DEF CallSend
    <3> HIDE DEF r
    <3>2. x \in SUBSET Requests
      BY <2>1, <2>2 DEF CatalogTypes, r
    <3> HIDE DEF x
    <3> QED BY <2>1, <3>1, <3>2 DEF CatalogTypes
  <2> QED BY <1>12, <2>3 DEF CallSend, CatalogTypes, bridge, catalogs, engine, workers
<1>13. ASSUME NEW l \in Listeners, CallFails(l) PROVE CatalogTypes'
  <2>1. call[l].prov \in Conns
    BY <1>13 DEF CallFails, CallInv, IdleCall, NamedCall, RoutedCall
  <2>2. Forgotten(l, call[l].prov)
    BY <1>13, <2>1, ForgetForgets DEF CallFails
  <2>3. asked' \in [Conns -> SUBSET Requests] /\ wire' \in [Conns -> Seq(Messages)]
    BY <2>1, <2>2 DEF Forgotten, CatalogTypes
  <2> QED BY <1>13, <2>3 DEF CallFails, CatalogTypes, bridge, catalogs, engine, workers
<1> USE DEF bridge, registry, naming, catalogs, links,
           workers, shutdown, browser, clients, engine, outside
<1>14. CASE UNCHANGED <<catalog, sync, job, spawned, page, asked, wire>>
  BY <1>14 DEF CatalogTypes
<1>15. ASSUME NEW c \in Conns,
       \/ Connect(c)
       \/ Initialized(c)
       \/ InitializeFails(c)
       \/ Register(c)
       \/ SetNotificationHandler(c)
       \/ SetCloseHandler(c)
       \/ ProviderClosed(c)
       \/ HangupRebuild(c)
       \/ HangupBroadcast(c)
     PROVE  CatalogTypes'
  BY <1>14, <1>15
     DEF Connect, Initialized, InitializeFails, Register, SetNotificationHandler,
         SetCloseHandler, ProviderClosed, HangupRebuild, HangupBroadcast
<1>16. ASSUME NEW p \in Peers, Disconnect(p)
      PROVE  CatalogTypes'
  BY <1>14, <1>16 DEF Disconnect
<1>17. ASSUME NEW a \in Agents, AgentAttach(a) \/ AgentServe(a) \/ AgentClosed(a)
      PROVE  CatalogTypes'
  BY <1>14, <1>17 DEF AgentAttach, AgentServe, AgentClosed
<1>18. ASSUME NEW s \in Sessions, OpenHTTPSession(s) \/ SessionClose(s) \/ SessionDeregister(s)
      PROVE  CatalogTypes'
  BY <1>14, <1>18 DEF OpenHTTPSession, SessionClose, SessionDeregister
<1>19. ASSUME NEW l \in Listeners, RouteFound(l) \/ RouteMissing(l)
      PROVE  CatalogTypes'
  BY <1>14, <1>19 DEF RouteFound, RouteMissing
<1>20. ASSUME NEW l \in Listeners, NEW k \in Kinds, List(l, k) \/ Call(l, k)
      PROVE  CatalogTypes'
  BY <1>14, <1>20 DEF List, Call
<1>21. CASE IdleTimerFires \/ DaemonClose \/ IdleClose \/ CloseReturns
  BY <1>14, <1>21 DEF IdleTimerFires, DaemonClose, IdleClose, CloseReturns
<1>22. ASSUME NEW x \in Peers \cup Sessions, CloseNext(x)
      PROVE  CatalogTypes'
  BY <1>14, <1>22 DEF CloseNext
<1>23. CASE UNCHANGED vars
  BY <1>14, <1>23 DEF vars
<1> QED
  BY <1>1, <1>2, <1>3, <1>4, <1>5, <1>6, <1>7, <1>8, <1>9, <1>10, <1>11, <1>12, <1>13,
     <1>14, <1>15, <1>16, <1>17, <1>18, <1>19, <1>20, <1>21, <1>22, <1>23
     DEF Next, AttachStep, ReadStep, HangupStep, RefreshStep, CallStep, CloseStep

\* Goroutines that wait for no answer come and go without a trace on the wire.
LEMMA NothingNewOfJobs ==
  ASSUME WireInv, UNCHANGED <<asked, wire>>,
         \A p \in Procs : job[p].at = "wait" => job'[p] = job[p]
  PROVE  \A c \in Conns : NothingNew(c)
BY UntouchedIsNothingNew DEF Awaits

\* Requests go to the page and answers come back.
ToThePage ==
  (\E p \in Procs : FetchPage(p)) \/ \E c \in Conns : PageAnswers(c)

\* No other step brings anything new for a fetch, or changes one that waits.
LEMMA WireSteps ==
  ASSUME RoutingInv, LabelInv, [Next]_vars
  PROVE  ToThePage \/ \A d \in Conns : NothingNew(d)
<1> USE DEF RoutingInv
<1>1. ASSUME NEW c \in Conns, AttachRefresh(c)
      PROVE  ToThePage \/ \A d \in Conns : NothingNew(d)
  <2>1. todo[c] # <<>> => Head(todo[c]) \in Kinds
    BY HeadAndTail DEF LinkTypes
  <2>2. /\ UNCHANGED <<asked, wire>> /\ job[c] = IdleJob
        /\ \/ job' = job
           \/ \E j \in Kinds : EnterRefresh(c, c, j)
    BY <1>1, <2>1 DEF AttachRefresh, outside, browser
  <2>3. \A p \in Procs : p # c => job'[p] = job[p]
    BY <2>2 DEF EnterRefresh, CatalogTypes
  <2> QED BY <2>2, <2>3, NothingNewOfJobs DEF IdleJob
<1>2. ASSUME NEW p \in Runners, NEW c \in Conns, NEW k \in Kinds, SpawnedRefresh(p, c, k)
      PROVE  ToThePage \/ \A d \in Conns : NothingNew(d)
  <2>1. UNCHANGED <<asked, wire>> /\ job[p] = IdleJob
    BY <1>2 DEF SpawnedRefresh, outside, browser
  <2>2. \A q \in Procs : q # p => job'[q] = job[q]
    BY <1>2 DEF SpawnedRefresh, EnterRefresh, CatalogTypes
  <2> QED BY <2>1, <2>2, NothingNewOfJobs DEF IdleJob
<1>3. ASSUME NEW p \in Procs, StoreCatalog(p)
      PROVE  ToThePage \/ \A d \in Conns : NothingNew(d)
  <2>1. UNCHANGED <<asked, wire>> /\ job[p].at # "wait"
    BY <1>3 DEF StoreCatalog, outside, browser
  <2>2. \A q \in Procs : q # p => job'[q] = job[q]
    BY <1>3 DEF StoreCatalog, CatalogTypes
  <2> QED BY <2>1, <2>2, NothingNewOfJobs
<1>4. ASSUME NEW p \in Procs, JobRebuild(p)
      PROVE  ToThePage \/ \A d \in Conns : NothingNew(d)
  <2>1. UNCHANGED <<asked, wire>> /\ job[p].at # "wait"
    BY <1>4 DEF JobRebuild, outside, browser
  <2>2. \A q \in Procs : q # p => job'[q] = job[q]
    BY <1>4 DEF JobRebuild, CatalogTypes
  <2> QED BY <2>1, <2>2, NothingNewOfJobs
<1>5. ASSUME NEW p \in Procs, JobBroadcast(p)
      PROVE  ToThePage \/ \A d \in Conns : NothingNew(d)
  <2>1. UNCHANGED <<asked, wire>> /\ job[p].at # "wait"
    BY <1>5 DEF JobBroadcast, browser
  <2>2. \A q \in Procs : q # p => job'[q] = job[q]
    BY <1>5 DEF JobBroadcast, CatalogTypes
  <2> QED BY <2>1, <2>2, NothingNewOfJobs
<1>6. ASSUME NEW p \in Procs, FetchFails(p)
      PROVE  ToThePage \/ \A d \in Conns : NothingNew(d)
  <2>1. job[p].at = "wait" /\ job[p].conn \in Conns
    BY <1>6, BusyJob DEF FetchFails
  <2>2. Forgotten(p, job[p].conn)
    BY <1>6, <2>1, ForgetForgets DEF FetchFails
  <2>3. \A q \in Procs : q # p => job'[q] = job[q]
    BY <1>6 DEF FetchFails, CatalogTypes
  <2> QED BY <2>1, <2>2, <2>3, ForgottenIsNothingNew DEF Awaits
<1>7. ASSUME NEW l \in Listeners, CallFails(l)
      PROVE  ToThePage \/ \A d \in Conns : NothingNew(d)
  <2>1. call[l].prov \in Conns
    BY <1>7 DEF CallFails, CallInv, IdleCall, NamedCall, RoutedCall
  <2>2. Forgotten(l, call[l].prov) /\ job' = job
    BY <1>7, <2>1, ForgetForgets DEF CallFails, engine, workers
  <2>3. l \notin Procs
    BY ActorsDistinct DEF Listeners, Procs
  <2> QED BY <2>1, <2>2, <2>3, ForgottenIsNothingNew
<1>8. ASSUME NEW c \in Conns, NEW k \in Kinds, PageChanges(c, k)
      PROVE  ToThePage \/ \A d \in Conns : NothingNew(d)
  <2> DEFINE m == [type |-> "note", kind |-> k]
             n == Len(wire[c])
             pos == [i \in 1..(n + 1) |-> i]
  <2>1. wire' = [wire EXCEPT ![c] = Append(wire[c], m)] /\ UNCHANGED <<asked, job>>
    BY <1>8 DEF PageChanges, engine, workers
  <2>2. ~Reply(m)
    BY DEF Reply
  <2> HIDE DEF m
  <2>3. ASSUME NEW d \in Conns, d # c PROVE NothingNew(d)
    <3>1. wire'[d] = wire[d] /\ asked'[d] = asked[d]
      BY <2>1, <2>2, <2>3 DEF CatalogTypes
    <3> QED BY <2>1, <3>1, UntouchedIsNothingNew
  <2>4. /\ wire'[c] = Append(wire[c], m) /\ asked'[c] = asked[c]
        /\ n \in Nat /\ DOMAIN wire[c] = 1..n /\ DOMAIN wire'[c] = 1..(n + 1)
        /\ wire'[c][n + 1] = m /\ \A i \in 1..n : wire'[c][i] = wire[c][i]
    BY <2>1 DEF CatalogTypes
  <2> HIDE DEF n
  <2>5. \A r \in asked'[c] :
          r.proc \in Procs => r \in asked[c] /\ job'[r.proc] = job[r.proc]
    BY <2>1, <2>4
  <2>6. \A i \in DOMAIN wire'[c] :
          Reply(wire'[c][i]) => /\ pos[i] \in DOMAIN wire[c]
                                /\ wire'[c][i] = wire[c][pos[i]]
                                /\ job'[wire'[c][i].proc] = job[wire'[c][i].proc]
    BY <2>1, <2>2, <2>4
  <2>7. \A i, j \in DOMAIN wire'[c] : pos[i] = pos[j] => i = j
    BY <2>4
  <2> HIDE DEF pos
  <2>8. NothingNew(c)
    BY <2>5, <2>6, <2>7 DEF NothingNew
  <2> QED BY <2>3, <2>8
<1>9. ASSUME NEW c \in Conns, ReadNotification(c)
      PROVE  ToThePage \/ \A d \in Conns : NothingNew(d)
  <2> DEFINE n == Len(wire[c])
             pos == [i \in 1..(n - 1) |-> i + 1]
  <2>1. wire' = [wire EXCEPT ![c] = Tail(wire[c])] /\ UNCHANGED asked
    BY <1>9 DEF ReadNotification
  <2>2. wire[c] \in Seq(Messages) /\ wire[c] # <<>>
    BY <1>9 DEF ReadNotification, CatalogTypes
  <2>3. /\ n \in Nat \ {0} /\ DOMAIN wire[c] = 1..n /\ DOMAIN Tail(wire[c]) = 1..(n - 1)
        /\ \A i \in 1..(n - 1) : Tail(wire[c])[i] = wire[c][i + 1]
        /\ Head(wire[c]) = wire[c][1]
    BY <2>2, HeadAndTail
  <2>4. wire'[c] = Tail(wire[c]) /\ \A d \in Conns : d # c => wire'[d] = wire[d]
    BY <2>1 DEF CatalogTypes
  <2> HIDE DEF n
  <2>5. /\ \A i \in DOMAIN wire'[c] : /\ pos[i] \in DOMAIN wire[c] /\ pos[i] # 1
                                      /\ wire'[c][i] = wire[c][pos[i]]
        /\ \A i, j \in DOMAIN wire'[c] : pos[i] = pos[j] => i = j
    BY <2>3, <2>4
  <2> HIDE DEF pos
  <2>6. job' = job
    BY <1>9 DEF ReadNotification
  <2>7. NothingNew(c)
    BY <2>1, <2>5, <2>6 DEF NothingNew
  <2>8. ASSUME NEW d \in Conns, d # c PROVE NothingNew(d)
    BY <2>1, <2>4, <2>6, <2>8, UntouchedIsNothingNew
  <2> QED BY <2>7, <2>8
<1>10. ASSUME NEW c \in Conns, ReadResponse(c)
       PROVE  ToThePage \/ \A d \in Conns : NothingNew(d)
  <2> DEFINE n == Len(wire[c])
             pos == [i \in 1..(n - 1) |-> i + 1]
  <2>1. wire' = [wire EXCEPT ![c] = Tail(wire[c])] /\ UNCHANGED asked
    BY <1>10 DEF ReadResponse
  <2>2. wire[c] \in Seq(Messages) /\ wire[c] # <<>>
    BY <1>10 DEF ReadResponse, CatalogTypes
  <2>3. /\ n \in Nat \ {0} /\ DOMAIN wire[c] = 1..n /\ DOMAIN Tail(wire[c]) = 1..(n - 1)
        /\ \A i \in 1..(n - 1) : Tail(wire[c])[i] = wire[c][i + 1]
        /\ Head(wire[c]) = wire[c][1]
    BY <2>2, HeadAndTail
  <2>4. wire'[c] = Tail(wire[c]) /\ \A d \in Conns : d # c => wire'[d] = wire[d]
    BY <2>1 DEF CatalogTypes
  <2> HIDE DEF n
  <2>5. /\ \A i \in DOMAIN wire'[c] : /\ pos[i] \in DOMAIN wire[c] /\ pos[i] # 1
                                      /\ wire'[c][i] = wire[c][pos[i]]
        /\ \A i, j \in DOMAIN wire'[c] : pos[i] = pos[j] => i = j
    BY <2>3, <2>4
  <2> HIDE DEF pos
  <2> DEFINE p == Head(wire[c]).proc
  <2>6. wire[c][1].type = "resp" /\ wire[c][1].proc = p /\ 1 \in DOMAIN wire[c]
    BY <1>10, <2>3 DEF ReadResponse
  <2>7. \A q \in Procs : q # p => job'[q] = job[q]
    BY <1>10 DEF ReadResponse, CatalogTypes
  <2> HIDE DEF p
  <2>8. p \in Procs => /\ Awaits(p, c)
                       /\ \A r \in asked[c] : r.proc # p
                       /\ \A j \in DOMAIN wire[c] :
                            (wire[c][j].type = "resp" /\ wire[c][j].proc = p) => j = 1
    BY <2>6 DEF WireInv
  <2>9. NothingNew(c)
    <3>1. \A r \in asked'[c] :
            r.proc \in Procs => r \in asked[c] /\ job'[r.proc] = job[r.proc]
      BY <2>1, <2>7, <2>8
    <3>2. \A i \in DOMAIN wire'[c] :
            Reply(wire'[c][i]) => /\ pos[i] \in DOMAIN wire[c]
                                  /\ wire'[c][i] = wire[c][pos[i]]
                                  /\ job'[wire'[c][i].proc] = job[wire'[c][i].proc]
      BY <2>5, <2>7, <2>8 DEF Reply
    <3> QED BY <2>5, <3>1, <3>2 DEF NothingNew
  <2>10. ASSUME NEW d \in Conns, d # c PROVE NothingNew(d)
    <3>1. \A q \in Procs : Awaits(q, d) => job'[q] = job[q]
      BY <2>7, <2>8, <2>10 DEF Awaits
    <3> QED BY <2>1, <2>4, <2>10, <3>1, UntouchedIsNothingNew
  <2> QED BY <2>9, <2>10
<1>11. ASSUME NEW l \in Listeners, CallSend(l)
       PROVE  ToThePage \/ \A d \in Conns : NothingNew(d)
  <2>1. job' = job /\ wire' = wire
    BY <1>11 DEF CallSend, engine, workers
  <2>2. l \notin Procs
    BY ActorsDistinct DEF Listeners, Procs
  <2>3. \A c \in Conns : \A r \in asked'[c] : r.proc \in Procs => r \in asked[c]
    <3> DEFINE e == call[l].prov
               x == [proc |-> l, kind |-> call[l].kind, page |-> 0]
    <3>1. asked' = asked \/ asked' = [asked EXCEPT ![e] = @ \cup {x}]
      BY <1>11 DEF CallSend
    <3>2. x.proc \notin Procs
      BY <2>2
    <3> HIDE DEF x, e
    <3>3. CASE asked' = asked
      BY <3>3
    <3>4. CASE asked' = [asked EXCEPT ![e] = @ \cup {x}]
      <4>1. \A c \in Conns : asked'[c] = asked[c] \/ asked'[c] = asked[c] \cup {x}
        BY <3>4 DEF CatalogTypes
      <4> QED BY <3>2, <4>1
    <3> QED BY <3>1, <3>3, <3>4
  <2>4. ASSUME NEW c \in Conns PROVE NothingNew(c)
    <3> DEFINE pos == [i \in DOMAIN wire[c] |-> i]
    <3>1. \A i \in DOMAIN wire'[c] : pos[i] \in DOMAIN wire[c] /\ wire'[c][i] = wire[c][pos[i]]
      BY <2>1
    <3>2. \A i, j \in DOMAIN wire'[c] : pos[i] = pos[j] => i = j
      BY <2>1
    <3> HIDE DEF pos
    <3> QED BY <2>1, <2>3, <3>1, <3>2 DEF NothingNew
  <2> QED BY <2>4
<1>12. ASSUME NEW p \in Procs, FetchPage(p)
       PROVE  ToThePage \/ \A d \in Conns : NothingNew(d)
  BY <1>12 DEF ToThePage
<1>13. ASSUME NEW c \in Conns, PageAnswers(c)
       PROVE  ToThePage \/ \A d \in Conns : NothingNew(d)
  BY <1>13 DEF ToThePage
<1> USE DEF bridge, registry, naming, catalogs, links,
           workers, shutdown, browser, clients, engine, outside
<1>14. CASE UNCHANGED <<job, asked, wire>>
  BY <1>14, NothingNewOfJobs
<1>15. ASSUME NEW c \in Conns,
       \/ Connect(c)
       \/ Initialized(c)
       \/ InitializeFails(c)
       \/ Register(c)
       \/ SetNotificationHandler(c)
       \/ SetCloseHandler(c)
       \/ ProviderClosed(c)
       \/ HangupRebuild(c)
       \/ HangupBroadcast(c)
     PROVE  ToThePage \/ \A d \in Conns : NothingNew(d)
  BY <1>14, <1>15
     DEF Connect, Initialized, InitializeFails, Register, SetNotificationHandler,
         SetCloseHandler, ProviderClosed, HangupRebuild, HangupBroadcast
<1>16. ASSUME NEW p \in Peers, Disconnect(p)
      PROVE  ToThePage \/ \A d \in Conns : NothingNew(d)
  BY <1>14, <1>16 DEF Disconnect
<1>17. ASSUME NEW a \in Agents, AgentAttach(a) \/ AgentServe(a) \/ AgentClosed(a)
      PROVE  ToThePage \/ \A d \in Conns : NothingNew(d)
  BY <1>14, <1>17 DEF AgentAttach, AgentServe, AgentClosed
<1>18. ASSUME NEW s \in Sessions, OpenHTTPSession(s) \/ SessionClose(s) \/ SessionDeregister(s)
      PROVE  ToThePage \/ \A d \in Conns : NothingNew(d)
  BY <1>14, <1>18 DEF OpenHTTPSession, SessionClose, SessionDeregister
<1>19. ASSUME NEW l \in Listeners, RouteFound(l) \/ RouteMissing(l)
      PROVE  ToThePage \/ \A d \in Conns : NothingNew(d)
  BY <1>14, <1>19 DEF RouteFound, RouteMissing
<1>20. ASSUME NEW l \in Listeners, NEW k \in Kinds, List(l, k) \/ Call(l, k)
      PROVE  ToThePage \/ \A d \in Conns : NothingNew(d)
  BY <1>14, <1>20 DEF List, Call
<1>21. CASE IdleTimerFires \/ DaemonClose \/ IdleClose \/ CloseReturns
  BY <1>14, <1>21 DEF IdleTimerFires, DaemonClose, IdleClose, CloseReturns
<1>22. ASSUME NEW x \in Peers \cup Sessions, CloseNext(x)
      PROVE  ToThePage \/ \A d \in Conns : NothingNew(d)
  BY <1>14, <1>22 DEF CloseNext
<1>23. CASE UNCHANGED vars
  BY <1>14, <1>23 DEF vars
<1> QED
  BY <1>1, <1>2, <1>3, <1>4, <1>5, <1>6, <1>7, <1>8, <1>9, <1>10, <1>11, <1>12, <1>13,
     <1>14, <1>15, <1>16, <1>17, <1>18, <1>19, <1>20, <1>21, <1>22, <1>23
     DEF Next, AttachStep, ReadStep, HangupStep, RefreshStep, CallStep, CloseStep

\* A fetch asks for its page: the first request of it that is under way.
LEMMA FetchPageKeepsWireInv ==
  ASSUME RoutingInv, NEW p \in Procs, FetchPage(p)
  PROVE  WireInv'
<1> USE DEF RoutingInv
<1> DEFINE c == job[p].conn
           k == job[p].kind
           r == [proc |-> p, kind |-> k, page |-> job[p].page]
<1>1. job[p].at = "fetch" /\ wire' = wire
  BY DEF FetchPage
<1>2. \A q \in Procs : q # p => job'[q] = job[q]
  BY DEF FetchPage, CatalogTypes
<1>3. CASE UNCHANGED asked
  BY <1>1, <1>2, <1>3, NothingNewOfJobs, NothingNewIsStill, StillIsNext
<1>4. CASE /\ asked' = [asked EXCEPT ![c] = @ \cup {r}]
           /\ job' = [job EXCEPT ![p].at = "wait"]
  <2>1. c \in Conns /\ r.proc = p /\ r.kind = k
    BY <1>1, BusyJob
  <2>2. /\ job'[p].at = "wait" /\ job'[p].conn = c /\ job'[p].kind = k
    <3>1. job'[p] = [job[p] EXCEPT !.at = "wait"]
      BY <1>4 DEF CatalogTypes
    <3> QED BY <1>1, <3>1, JobMoves
  <2>3. asked'[c] = asked[c] \cup {r} /\ \A d \in Conns : d # c => asked'[d] = asked[d]
    BY <1>4, <2>1 DEF CatalogTypes
  <2>4. ASSUME NEW d \in Conns
        PROVE  /\ \A q \in asked[d] : q.proc # p
               /\ \A i \in DOMAIN wire[d] : Reply(wire[d][i]) => wire[d][i].proc # p
    BY <1>1 DEF WireInv, Awaits, Reply
  <2> HIDE DEF c, k, r
  <2>5. ASSUME NEW d \in Conns, d # c PROVE WireStill(d)
    <3>1. \A q \in Procs : Awaits(q, d) => job'[q] = job[q]
      BY <1>1, <1>2 DEF Awaits
    <3> QED BY <1>1, <2>3, <2>5, <3>1, UntouchedIsNothingNew, NothingNewIsStill
  <2>6. WireStill(c)
    <3>1. \A q \in asked'[c] :
            q.proc \in Procs => AwaitsStill(q.proc, c) /\ job'[q.proc].kind = q.kind
      BY <1>2, <2>1, <2>2, <2>3, <2>4 DEF WireInv, Awaits, AwaitsStill
    <3>2. \A s, q \in asked'[c] : (s.proc \in Procs /\ s.proc = q.proc) => s = q
      BY <2>1, <2>3, <2>4 DEF WireInv
    <3>3. ASSUME NEW i \in DOMAIN wire'[c], Reply(wire'[c][i])
          PROVE  /\ AwaitsStill(wire'[c][i].proc, c)
                 /\ \A q \in asked'[c] : q.proc # wire'[c][i].proc
                 /\ \A j \in DOMAIN wire'[c] :
                      (wire'[c][j].type = "resp" /\ wire'[c][j].proc = wire'[c][i].proc)
                        => i = j
      BY <1>1, <1>2, <2>1, <2>3, <2>4, <3>3 DEF WireInv, Awaits, AwaitsStill, Reply
    <3> QED BY <3>1, <3>2, <3>3 DEF WireStill
  <2> QED BY <2>5, <2>6, StillIsNext
<1> QED BY <1>3, <1>4 DEF FetchPage

\* The page answers: the response takes the place of the request.
LEMMA PageAnswersKeepsWireInv ==
  ASSUME RoutingInv, NEW c \in Conns, PageAnswers(c)
  PROVE  WireInv'
<1> USE DEF RoutingInv
<1>1. job' = job
  BY DEF PageAnswers, engine, workers
<1>2. PICK r \in asked[c] :
        /\ asked' = [asked EXCEPT ![c] = @ \ {r}]
        /\ wire' = [wire EXCEPT ![c] = Append(@,
             [type |-> "resp", proc |-> r.proc,
              names |-> {n \in page[c][r.kind] : PageOf[n] = r.page},
              more |-> r.page < NumPages])]
  BY DEF PageAnswers
<1>3. ASSUME NEW d \in Conns, d # c PROVE WireStill(d)
  <2>1. wire'[d] = wire[d] /\ asked'[d] = asked[d]
    BY <1>1, <1>2, <1>3 DEF CatalogTypes
  <2> QED BY <1>1, <2>1, UntouchedIsNothingNew, NothingNewIsStill
<1> DEFINE m == [type |-> "resp", proc |-> r.proc,
                 names |-> {n \in page[c][r.kind] : PageOf[n] = r.page},
                 more |-> r.page < NumPages]
           n == Len(wire[c])
<1>4. m.type = "resp" /\ m.proc = r.proc
  OBVIOUS
<1> HIDE DEF m
<1>5. /\ wire'[c] = Append(wire[c], m) /\ asked'[c] = asked[c] \ {r}
      /\ n \in Nat /\ DOMAIN wire[c] = 1..n /\ DOMAIN wire'[c] = 1..(n + 1)
      /\ wire'[c][n + 1] = m /\ \A i \in 1..n : wire'[c][i] = wire[c][i]
  BY <1>2 DEF CatalogTypes, m
<1> HIDE DEF n
<1>6. WireStill(c)
  <2>1. \A q \in asked'[c] :
          q.proc \in Procs => AwaitsStill(q.proc, c) /\ job'[q.proc].kind = q.kind
    BY <1>1, <1>5 DEF WireInv, Awaits, AwaitsStill
  <2>2. \A s, q \in asked'[c] : (s.proc \in Procs /\ s.proc = q.proc) => s = q
    BY <1>5 DEF WireInv
  <2>3. r.proc \in Procs =>
          /\ Awaits(r.proc, c)
          /\ \A q \in asked'[c] : q.proc # r.proc
          /\ \A i \in 1..n : wire[c][i].type = "resp" => wire[c][i].proc # r.proc
    BY <1>5 DEF WireInv
  <2>4. ASSUME NEW i \in DOMAIN wire'[c], Reply(wire'[c][i])
        PROVE  /\ AwaitsStill(wire'[c][i].proc, c)
               /\ \A q \in asked'[c] : q.proc # wire'[c][i].proc
               /\ \A j \in DOMAIN wire'[c] :
                    (wire'[c][j].type = "resp" /\ wire'[c][j].proc = wire'[c][i].proc)
                      => i = j
    <3>1. CASE i = n + 1
      BY <1>1, <1>4, <1>5, <2>3, <2>4, <3>1 DEF Reply, Awaits, AwaitsStill
    <3>2. CASE i \in 1..n
      <4>1. wire'[c][i] = wire[c][i] /\ Reply(wire[c][i])
        BY <1>5, <2>4, <3>2
      <4>2. /\ Awaits(wire[c][i].proc, c)
            /\ \A q \in asked[c] : q.proc # wire[c][i].proc
            /\ \A j \in 1..n : (wire[c][j].type = "resp"
                                  /\ wire[c][j].proc = wire[c][i].proc) => i = j
        BY <1>5, <3>2, <4>1 DEF WireInv, Reply
      <4> QED BY <1>1, <1>4, <1>5, <4>1, <4>2 DEF Awaits, AwaitsStill
    <3> QED BY <1>5, <3>1, <3>2
  <2> QED BY <2>1, <2>2, <2>4 DEF WireStill
<1> QED BY <1>3, <1>6, StillIsNext

\* Each fetch has at most one request or response under way, and waits for it.
LEMMA WireNext ==
  ASSUME RoutingInv, LabelInv, [Next]_vars
  PROVE  WireInv'
<1>1. CASE ToThePage
  BY <1>1, FetchPageKeepsWireInv, PageAnswersKeepsWireInv DEF ToThePage
<1>2. CASE \A d \in Conns : NothingNew(d)
  BY <1>2, NothingNewIsStill, StillIsNext DEF RoutingInv
<1> QED BY <1>1, <1>2, WireSteps

\* Owns after the step.
OwnsThen(p, c, k) ==
  /\ job'[p].at # "idle" /\ job'[p].conn = c /\ job'[p].kind = k
  /\ job'[p].at \in {"fetch", "wait", "store"} \/ job'[p].again

\* Who owns a catalog changes when somebody enters and when somebody stores.
OwnersStay ==
  /\ sync' = sync
  /\ \A p \in Procs, c \in Conns, k \in Kinds : OwnsThen(p, c, k) <=> Owns(p, c, k)

Entering ==
  \E p \in Procs, c \in Conns, k \in Kinds : job[p] = IdleJob /\ EnterRefresh(p, c, k)

Storing == \E p \in Procs : StoreCatalog(p)

\* One goroutine's step leaves the owners if it leaves what that one owns.
LEMMA OneOwnerStays ==
  ASSUME sync' = sync, NEW p,
         \A q \in Procs : q # p => job'[q] = job[q],
         \A c \in Conns, k \in Kinds : p \in Procs => (OwnsThen(p, c, k) <=> Owns(p, c, k))
  PROVE  OwnersStay
BY DEF OwnersStay, OwnsThen, Owns, Fetches

\* Every step leaves the owners, enters or stores.
LEMMA OwnerSteps ==
  ASSUME RoutingInv, LabelInv, [Next]_vars
  PROVE  OwnersStay \/ Entering \/ Storing
<1> USE DEF RoutingInv
<1>1. ASSUME NEW c \in Conns, AttachRefresh(c) PROVE OwnersStay \/ Entering \/ Storing
  <2>1. todo[c] # <<>> => Head(todo[c]) \in Kinds
    BY HeadAndTail DEF LinkTypes
  <2>2. job[c] = IdleJob /\ (UNCHANGED <<job, sync>> \/ \E j \in Kinds : EnterRefresh(c, c, j))
    BY <1>1, <2>1 DEF AttachRefresh
  <2>3. CASE UNCHANGED <<job, sync>>
    BY <2>3 DEF OwnersStay, OwnsThen, Owns, Fetches
  <2> QED BY <2>2, <2>3 DEF Entering, Procs
<1>2. ASSUME NEW p \in Runners, NEW c \in Conns, NEW k \in Kinds, SpawnedRefresh(p, c, k)
      PROVE  OwnersStay \/ Entering \/ Storing
  BY <1>2 DEF SpawnedRefresh, Entering, Procs
<1>3. ASSUME NEW p \in Procs, FetchPage(p) PROVE OwnersStay \/ Entering \/ Storing
  <2>1. job[p].at # "idle" /\ sync' = sync
    BY <1>3 DEF FetchPage, bridge, catalogs
  <2>2. \A q \in Procs : q # p => job'[q] = job[q]
    BY <1>3 DEF FetchPage, CatalogTypes
  <2>3. \E a \in {"wait", "store"} : job'[p] = [job[p] EXCEPT !.at = a]
    BY <1>3 DEF FetchPage, CatalogTypes
  <2>4. PICK a \in {"wait", "store"} : job'[p] = [job[p] EXCEPT !.at = a]
    BY <2>3
  <2>5. /\ job'[p].at = a /\ job'[p].conn = job[p].conn /\ job'[p].kind = job[p].kind
        /\ job[p].at = "fetch"
    BY <1>3, <2>1, <2>4, JobMoves DEF FetchPage
  <2> QED BY <2>1, <2>2, <2>5, OneOwnerStays DEF OwnsThen, Owns, Fetches
<1>4. ASSUME NEW p \in Procs, FetchFails(p) PROVE OwnersStay \/ Entering \/ Storing
  <2>1. job[p].at # "idle" /\ sync' = sync
    BY <1>4 DEF FetchFails, bridge, catalogs
  <2>2. \A q \in Procs : q # p => job'[q] = job[q]
    BY <1>4 DEF FetchFails, CatalogTypes
  <2>3. job'[p] = [job[p] EXCEPT !.at = "store"]
    BY <1>4 DEF FetchFails, CatalogTypes
  <2>4. /\ job'[p].at = "store" /\ job'[p].conn = job[p].conn
        /\ job'[p].kind = job[p].kind /\ job'[p].again = job[p].again
    BY <2>1, <2>3, JobMoves
  <2> QED BY <1>4, <2>1, <2>2, <2>4, OneOwnerStays DEF FetchFails, OwnsThen, Owns, Fetches
<1>5. ASSUME NEW p \in Procs, JobRebuild(p) PROVE OwnersStay \/ Entering \/ Storing
  <2>1. job[p].at # "idle" /\ sync' = sync
    BY <1>5 DEF JobRebuild, bridge, catalogs
  <2>2. \A q \in Procs : q # p => job'[q] = job[q]
    BY <1>5 DEF JobRebuild, CatalogTypes
  <2>3. job'[p] = [job[p] EXCEPT !.at = "broadcast"]
    BY <1>5 DEF JobRebuild, CatalogTypes
  <2>4. /\ job'[p].at = "broadcast" /\ job'[p].conn = job[p].conn
        /\ job'[p].kind = job[p].kind /\ job'[p].again = job[p].again
    BY <2>1, <2>3, JobMoves
  <2> QED BY <1>5, <2>1, <2>2, <2>4, OneOwnerStays DEF JobRebuild, OwnsThen, Owns, Fetches
<1>6. ASSUME NEW p \in Procs, JobBroadcast(p) PROVE OwnersStay \/ Entering \/ Storing
  <2>1. job[p].at # "idle" /\ sync' = sync
    BY <1>6 DEF JobBroadcast, bridge, catalogs
  <2>2. \A q \in Procs : q # p => job'[q] = job[q]
    BY <1>6 DEF JobBroadcast, CatalogTypes
  <2>3. CASE job[p].again
    <3>1. job'[p] = Fetching(job[p].conn, job[p].kind, 1, {})
      BY <1>6, <2>3 DEF JobBroadcast, CatalogTypes
    <3>2. job'[p].conn = job[p].conn /\ job'[p].kind = job[p].kind /\ job'[p].at = "fetch"
      BY <3>1 DEF Fetching
    <3> QED BY <2>1, <2>2, <2>3, <3>2, OneOwnerStays DEF OwnsThen, Owns, Fetches
  <2>4. CASE ~job[p].again
    <3>1. job'[p].at = "idle" /\ job[p].at = "broadcast"
      BY <1>6, <2>4 DEF JobBroadcast, CatalogTypes, IdleJob
    <3> QED BY <2>1, <2>2, <2>4, <3>1, OneOwnerStays DEF OwnsThen, Owns, Fetches
  <2> QED BY <2>3, <2>4
<1>7. ASSUME NEW c \in Conns, ReadResponse(c) PROVE OwnersStay \/ Entering \/ Storing
  <2> DEFINE p == Head(wire[c]).proc
  <2>1. sync' = sync /\ \A q \in Procs : q # p => job'[q] = job[q]
    BY <1>7 DEF ReadResponse, CatalogTypes, bridge, catalogs
  <2>2. CASE UNCHANGED job
    BY <2>1, <2>2 DEF OwnersStay, OwnsThen, Owns, Fetches
  <2>3. CASE p \notin Listeners
    <3>1. wire[c] \in Seq(Messages) /\ wire[c] # <<>> /\ Head(wire[c]).type = "resp"
      BY <1>7 DEF ReadResponse, CatalogTypes
    <3>2. Head(wire[c]) \in Messages /\ Head(wire[c]) = wire[c][1] /\ 1 \in DOMAIN wire[c]
      BY <3>1, HeadAndTail
    <3>3. p \in Procs
      BY <2>3, <3>1, <3>2 DEF Messages
    <3>4. Awaits(p, c)
      BY <3>1, <3>2, <3>3 DEF WireInv
    <3>5. /\ job[p] \in [at : {"fetch", "wait", "store", "rebuild", "broadcast"},
                         conn : Conns, kind : Kinds, page : 1..MaxCatalogPages,
                         acc : SUBSET Names, again : BOOLEAN]
          /\ job[p].at = "wait" /\ job[p].conn = c
      BY <3>3, <3>4, BusyJob DEF Awaits
    <3>6. \E n, acc : \/ job'[p] = Fetching(c, job[p].kind, n, acc)
                      \/ job'[p] = [job[p] EXCEPT !.at = "store", !.acc = acc]
      BY <1>7, <2>3, <3>3 DEF ReadResponse, CatalogTypes
    <3>7. /\ job'[p].conn = c /\ job'[p].kind = job[p].kind
          /\ job'[p].at \in {"fetch", "store"}
      <4>1. PICK n, acc : \/ job'[p] = Fetching(c, job[p].kind, n, acc)
                         \/ job'[p] = [job[p] EXCEPT !.at = "store", !.acc = acc]
        BY <3>6
      <4>2. CASE job'[p] = Fetching(c, job[p].kind, n, acc)
        BY <4>2 DEF Fetching
      <4>3. CASE job'[p] = [job[p] EXCEPT !.at = "store", !.acc = acc]
        BY <3>5, <4>3
      <4> QED BY <4>1, <4>2, <4>3
    <3> HIDE DEF p
    <3> QED BY <2>1, <3>5, <3>7, OneOwnerStays DEF OwnsThen, Owns, Fetches
  <2> QED BY <1>7, <2>2, <2>3 DEF ReadResponse
<1>8. ASSUME NEW p \in Procs, StoreCatalog(p) PROVE OwnersStay \/ Entering \/ Storing
  BY <1>8 DEF Storing
<1> USE DEF bridge, registry, naming, catalogs, links,
           workers, shutdown, browser, clients, engine, outside
<1>9. CASE UNCHANGED <<job, sync>>
  BY <1>9 DEF OwnersStay, OwnsThen, Owns, Fetches
<1>10. ASSUME NEW c \in Conns,
       \/ Connect(c)
       \/ Initialized(c)
       \/ InitializeFails(c)
       \/ Register(c)
       \/ SetNotificationHandler(c)
       \/ SetCloseHandler(c)
       \/ ProviderClosed(c)
       \/ HangupRebuild(c)
       \/ HangupBroadcast(c)
       \/ ReadNotification(c)
       \/ PageAnswers(c)
     PROVE  OwnersStay \/ Entering \/ Storing
  BY <1>9, <1>10
     DEF Connect, Initialized, InitializeFails, Register, SetNotificationHandler,
         SetCloseHandler, ProviderClosed, HangupRebuild, HangupBroadcast, ReadNotification,
         PageAnswers
<1>11. ASSUME NEW c \in Conns, NEW k \in Kinds, PageChanges(c, k)
      PROVE  OwnersStay \/ Entering \/ Storing
  BY <1>9, <1>11 DEF PageChanges
<1>12. ASSUME NEW p \in Peers, Disconnect(p)
      PROVE  OwnersStay \/ Entering \/ Storing
  BY <1>9, <1>12 DEF Disconnect
<1>13. ASSUME NEW a \in Agents, AgentAttach(a) \/ AgentServe(a) \/ AgentClosed(a)
      PROVE  OwnersStay \/ Entering \/ Storing
  BY <1>9, <1>13 DEF AgentAttach, AgentServe, AgentClosed
<1>14. ASSUME NEW s \in Sessions, OpenHTTPSession(s) \/ SessionClose(s) \/ SessionDeregister(s)
      PROVE  OwnersStay \/ Entering \/ Storing
  BY <1>9, <1>14 DEF OpenHTTPSession, SessionClose, SessionDeregister
<1>15. ASSUME NEW l \in Listeners, RouteFound(l) \/ RouteMissing(l) \/ CallSend(l) \/ CallFails(l)
      PROVE  OwnersStay \/ Entering \/ Storing
  BY <1>9, <1>15 DEF RouteFound, RouteMissing, CallSend, CallFails
<1>16. ASSUME NEW l \in Listeners, NEW k \in Kinds, List(l, k) \/ Call(l, k)
      PROVE  OwnersStay \/ Entering \/ Storing
  BY <1>9, <1>16 DEF List, Call
<1>17. CASE IdleTimerFires \/ DaemonClose \/ IdleClose \/ CloseReturns
  BY <1>9, <1>17 DEF IdleTimerFires, DaemonClose, IdleClose, CloseReturns
<1>18. ASSUME NEW x \in Peers \cup Sessions, CloseNext(x)
      PROVE  OwnersStay \/ Entering \/ Storing
  BY <1>9, <1>18 DEF CloseNext
<1>19. CASE UNCHANGED vars
  BY <1>9, <1>19 DEF vars
<1> QED
  BY <1>1, <1>2, <1>3, <1>4, <1>5, <1>6, <1>7, <1>8, <1>9, <1>10, <1>11, <1>12, <1>13,
     <1>14, <1>15, <1>16, <1>17, <1>18, <1>19
     DEF Next, AttachStep, ReadStep, HangupStep, RefreshStep, CallStep, CloseStep

\* Storing ends the fetch, or leaves its owner another one to do.
LEMMA StoreEffect ==
  ASSUME CatalogTypes, NEW p \in Procs, StoreCatalog(p),
         NEW c, c = job[p].conn, NEW k, k = job[p].kind, NEW again, again = sync[c][k].dirty
  PROVE  /\ c \in Conns /\ k \in Kinds /\ Owns(p, c, k) /\ job[p].at = "store"
         /\ sync'[c][k] = [inFlight |-> again, dirty |-> FALSE]
         /\ \A d \in Conns, i \in Kinds :
              (d # c \/ i # k) => sync'[d][i] = sync[d][i] /\ catalog'[d][i] = catalog[d][i]
         /\ catalog'[c][k] = job[p].acc
         /\ job'[p].at = "rebuild" /\ job'[p].again = again
         /\ job'[p].conn = c /\ job'[p].kind = k
         /\ \A q \in Procs : q # p => job'[q] = job[q]
<1> DEFINE s == [inFlight |-> again, dirty |-> FALSE]
           j == [job[p] EXCEPT !.at = "rebuild", !.again = again]
<1>1. job[p].at = "store"
  BY DEF StoreCatalog
<1>2. /\ c \in Conns /\ k \in Kinds /\ again \in BOOLEAN /\ s \in Syncs
      /\ job[p] \in [at : {"fetch", "wait", "store", "rebuild", "broadcast"},
                     conn : Conns, kind : Kinds, page : 1..MaxCatalogPages,
                     acc : SUBSET Names, again : BOOLEAN]
  BY <1>1, BusyJob DEF CatalogTypes, Syncs
<1>3. j.at = "rebuild" /\ j.conn = c /\ j.kind = k /\ j.again = again
  BY <1>2
<1>4. /\ sync' = [sync EXCEPT ![c][k] = s]
      /\ job' = [job EXCEPT ![p] = j]
      /\ catalog' = [catalog EXCEPT ![c][k] = job[p].acc]
  BY DEF StoreCatalog
<1>5. Owns(p, c, k)
  BY <1>1 DEF Owns, Fetches
<1> HIDE DEF s, j
<1>6. /\ sync'[c][k] = s
      /\ \A d \in Conns, i \in Kinds : (d # c \/ i # k) => sync'[d][i] = sync[d][i]
  BY <1>2, <1>4, SyncIsSet DEF CatalogTypes, Syncs
<1>7. job'[p] = j /\ \A q \in Procs : q # p => job'[q] = job[q]
  BY <1>4 DEF CatalogTypes
<1>8. /\ catalog'[c][k] = job[p].acc
      /\ \A d \in Conns, i \in Kinds : (d # c \/ i # k) => catalog'[d][i] = catalog[d][i]
  BY <1>2, <1>4 DEF CatalogTypes
<1> QED BY <1>1, <1>2, <1>3, <1>5, <1>6, <1>7, <1>8 DEF s

\* What entering and storing do to the owners: an owner more where nobody was, or one
\* less, or as many.
LEMMA EnterOwns ==
  ASSUME CatalogTypes, FlightInv, NEW p \in Procs, job[p] = IdleJob,
         NEW c \in Conns, NEW k \in Kinds, EnterRefresh(p, c, k), job' # job
  PROVE  /\ OwnsThen(p, c, k) /\ \A q \in Procs : ~Owns(q, c, k)
         /\ \A q \in Procs, d \in Conns, i \in Kinds :
              (q # p \/ d # c \/ i # k) => (OwnsThen(q, d, i) <=> Owns(q, d, i))
<1>1. ~sync[c][k].inFlight /\ job' = [job EXCEPT ![p] = Fetching(c, k, 1, {})]
  BY EnterEffect
<1>2. /\ job'[p].at = "fetch" /\ job'[p].conn = c /\ job'[p].kind = k
      /\ \A q \in Procs : q # p => job'[q] = job[q]
  BY <1>1 DEF CatalogTypes, Fetching
<1>3. job[p].at = "idle"
  BY DEF IdleJob
<1> QED BY <1>1, <1>2, <1>3 DEF OwnsThen, Owns, Fetches, FlightInv

\* One goroutine at a time is in the loop for a catalog.
LEMMA FlightNext ==
  ASSUME RoutingInv, LabelInv, [Next]_vars
  PROVE  FlightInv'
<1> USE DEF RoutingInv
<1>1. SUFFICES ASSUME NEW p \in Procs, NEW c \in Conns, NEW k \in Kinds, OwnsThen(p, c, k)
               PROVE  /\ sync'[c][k].inFlight
                      /\ \A q \in Procs : OwnsThen(q, c, k) => p = q
  BY DEF FlightInv, Owns, OwnsThen, Fetches
<1>2. CASE OwnersStay
  BY <1>1, <1>2 DEF OwnersStay, FlightInv
<1>3. CASE Entering
  <2>1. PICK r \in Procs, d \in Conns, i \in Kinds : job[r] = IdleJob /\ EnterRefresh(r, d, i)
    BY <1>3 DEF Entering
  <2>2. /\ sync'[d][i].inFlight
        /\ \A e \in Conns, j \in Kinds : (e # d \/ j # i) => sync'[e][j] = sync[e][j]
    BY <2>1, EnterEffect
  <2>3. CASE job' = job
    BY <1>1, <2>2, <2>3 DEF FlightInv, OwnsThen, Owns, Fetches
  <2>4. CASE job' # job
    <3>1. /\ \A q \in Procs : ~Owns(q, d, i)
          /\ \A q \in Procs, e \in Conns, j \in Kinds :
               (q # r \/ e # d \/ j # i) => (OwnsThen(q, e, j) <=> Owns(q, e, j))
      BY <2>1, <2>4, EnterOwns
    <3> QED BY <1>1, <2>2, <3>1 DEF FlightInv
  <2> QED BY <2>3, <2>4
<1>4. CASE Storing
  <2>1. PICK r \in Procs : StoreCatalog(r)
    BY <1>4 DEF Storing
  <2>2. PICK d, i, again : d = job[r].conn /\ i = job[r].kind /\ again = sync[d][i].dirty
    OBVIOUS
  <2>3. /\ d \in Conns /\ i \in Kinds /\ Owns(r, d, i)
        /\ sync'[d][i] = [inFlight |-> again, dirty |-> FALSE]
        /\ \A e \in Conns, j \in Kinds : (e # d \/ j # i) => sync'[e][j] = sync[e][j]
        /\ job'[r].at = "rebuild" /\ job'[r].again = again
        /\ job'[r].conn = d /\ job'[r].kind = i
        /\ \A q \in Procs : q # r => job'[q] = job[q]
    BY <2>1, <2>2, StoreEffect
  <2>4. /\ \A q \in Procs, e \in Conns, j \in Kinds :
             q # r => (OwnsThen(q, e, j) <=> Owns(q, e, j))
        /\ \A e \in Conns, j \in Kinds : OwnsThen(r, e, j) <=> (e = d /\ j = i /\ again)
    BY <2>3 DEF OwnsThen, Owns, Fetches
  <2> QED BY <1>1, <2>3, <2>4 DEF FlightInv
<1> QED BY <1>2, <1>3, <1>4, OwnerSteps

-----------------------------------------------------------------------------
(***************************************************************************)
(* The theorems.                                                           *)
(***************************************************************************)
\* A new bridge has nothing to route and nobody to wait for.
LEMMA RoutingInit == Init => RoutingInv
<1> SUFFICES ASSUME Init PROVE RoutingInv
  OBVIOUS
<1> USE DEF Init
<1>1. StampInv
  <2>1. Cardinality(Conns) \in Nat
    BY ActorsFinite, FS_CardinalityType
  <2> QED BY <2>1 DEF StampInv
<1>2. CatalogTypes
  <2>1. job \in [Procs -> Jobs]
    BY DEF Jobs
  <2>2. wire \in [Conns -> Seq(Messages)]
    OBVIOUS
  <2> QED BY <2>1, <2>2 DEF CatalogTypes
<1>3. LinkTypes
  <2>1. \A c \in Conns : hangup[c] = [at |-> "none", left |-> <<>>]
    OBVIOUS
  <2> QED BY <2>1 DEF LinkTypes
<1>4. IsStore(reserved)
  <2>1. reserved \in Seq({}) /\ DOMAIN reserved = {}
    BY DEF EmptyStore
  <2> QED BY <2>1 DEF IsStore
<1>5. WireInv
  BY DEF WireInv
<1>6. FlightInv
  <2>1. \A p \in Procs : job[p].at = "idle"
    BY DEF IdleJob
  <2> QED BY <2>1 DEF FlightInv, Owns
<1>7. RouteInv
  BY DEF RouteInv
<1>8. CallInv
  <2>1. \A y : RoutedCall(y) => y.at \in {"routed", "sent"}
    BY DEF RoutedCall
  <2>2. DOMAIN call = Listeners /\ \A l \in Listeners : call[l] = IdleCall
    OBVIOUS
  <2>3. IdleCall.at = "idle"
    BY DEF IdleCall
  <2> QED BY <2>1, <2>2, <2>3 DEF CallInv
<1> QED BY <1>1, <1>2, <1>3, <1>4, <1>5, <1>6, <1>7, <1>8 DEF RoutingInv

\* Registered connections are past the section that labels them, in every reachable
\* state.
LEMMA Labelled == Spec => []LabelInv
<1>1. Init => LabelInv
  BY DEF Init, LabelInv, LabelsUnique, Places
<1> QED BY <1>1, LabelInvNext, PTL DEF Spec

\* RoutingInv holds in every reachable state.
THEOREM Routing == Spec => []RoutingInv
<1>1. LifeInv /\ LabelInv /\ RoutingInv /\ [Next]_vars => RoutingInv'
  <2> SUFFICES ASSUME LifeInv, LabelInv, RoutingInv, [Next]_vars PROVE RoutingInv'
    OBVIOUS
  <2>1. StampInv' /\ CatalogTypes' /\ LinkTypes' /\ IsStore(reserved)'
    BY StampNext, CatalogNext, LinkNext, StoreNext
  <2>2. WireInv' /\ FlightInv' /\ RouteInv' /\ CallInv'
    BY WireNext, FlightNext, RouteNext, CallNext
  <2> QED BY <2>1, <2>2 DEF RoutingInv
<1> QED BY <1>1, Lifecycle, Labelled, RoutingInit, PTL DEF Spec

\* Every route leads to a registered provider of the partition that has the name,
\* whatever was registered, refreshed or closed between two rebuilds, and every
\* variable has its type.
THEOREM RoutesAreSound == Spec => []RoutesSound
<1>1. LifeInv /\ LabelInv /\ RoutingInv => RoutesSound
  <2> SUFFICES ASSUME LifeInv, LabelInv, RoutingInv PROVE RoutesSound
    OBVIOUS
  <2>1. Len(reserved) = Cardinality(Keys(reserved))
    BY StoreCountsKeys DEF RoutingInv
  <2>2. \A c \in Conns : \A i \in DOMAIN wire[c] : wire[c][i] \in Messages
    BY DEF RoutingInv, CatalogTypes
  <2>3. DOMAIN label = Conns
    BY DEF LabelInv
  <2>4. TypeOK
    <3>1. /\ providers \subseteq Conns /\ agents \subseteq Agents
          /\ sessions \subseteq Sessions /\ agentConnections \in Nat
          /\ idleTimer \in {"nil", "armed", "fired"} /\ closed \in BOOLEAN
          /\ attach \in [Peers -> Places] /\ sess \in [Sessions -> SessionStates]
      BY DEF LifeInv, LifeTypes
    <3>2. /\ connectedAt \in [Conns -> 0..Cardinality(Conns)]
          /\ DOMAIN routes = Kinds
      BY DEF RoutingInv, StampInv, RouteInv
    <3> QED BY <2>1, <2>2, <2>3, <3>1, <3>2
            DEF TypeOK, RoutingInv, CatalogTypes, LinkTypes, Places, SessionStates
  <2> QED BY <2>4 DEF RoutesSound, RoutingInv, RouteInv, RouteOf
<1> QED BY <1>1, Lifecycle, Labelled, Routing, PTL

\* A call reaches the provider and the entry that its name stood for when it was
\* routed, in the caller's own partition, and these do not change while it waits.
THEOREM CallsKeepTheirNames == Spec => []CallsStayNamed
<1>1. RoutingInv => CallsStayNamed
  <2> SUFFICES ASSUME RoutingInv, NEW l \in Listeners, call[l].at \in {"routed", "sent"}
      PROVE  /\ profileKey[call[l].prov] = profileKey[l]
             /\ AgentName(call[l].prov, call[l].kind, call[l].orig) = call[l].name
    BY DEF CallsStayNamed
  <2>1. RoutedCall(call[l])
    BY DEF RoutingInv, CallInv, NamedCall, IdleCall
  <2> QED BY <2>1 DEF RoutingInv, CallInv
<1> QED BY <1>1, Routing, PTL

\* refreshCatalog's flags let one fetch of a catalog run at a time, although
\* attachProvider and every notification start one in a goroutine of their own.
THEOREM FetchesAreSingle == Spec => []OneFetchPerCatalog
<1>1. RoutingInv => OneFetchPerCatalog
  <2> SUFFICES ASSUME RoutingInv, NEW p \in Procs, NEW q \in Procs, Fetches(p), Fetches(q),
                      job[p].conn = job[q].conn, job[p].kind = job[q].kind
      PROVE  p = q
    BY DEF OneFetchPerCatalog
  <2>1. job[p].at # "idle" /\ job[q].at # "idle"
    BY DEF Fetches
  <2>2. job[p].conn \in Conns /\ job[p].kind \in Kinds
    BY <2>1, BusyJob DEF RoutingInv
  <2>3. Owns(p, job[p].conn, job[p].kind) /\ Owns(q, job[p].conn, job[p].kind)
    BY <2>1 DEF Owns
  <2> QED BY <2>2, <2>3 DEF RoutingInv, FlightInv
<1> QED BY <1>1, Routing, PTL

=============================================================================
