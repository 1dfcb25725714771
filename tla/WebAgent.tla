------------------------------ MODULE WebAgent ------------------------------
(***************************************************************************)
(* Serving the page tools of tabs to agents that run in a web app          *)
(* (packages/extension/src/background.ts and web-agent.ts): the origins    *)
(* that are approved, the routes of tabs, a PageProviderClient per page    *)
(* with its handshake and pending requests, the listing with its labels,   *)
(* and calls by the names a listing gave out.                              *)
(*                                                                         *)
(* An agent is one chat tab; it has one request under way at a time. Every *)
(* page offers one tool, so a name is a label; Browser is the name of a    *)
(* tool of the browser toolset. One action is the code between two awaits. *)
(***************************************************************************)
EXTENDS Naturals, Sequences, FiniteSets, SequencesExt, Selections

CONSTANTS
  Agents, OriginOf,     \* agents, and their origins
  Pages, TitleOf,       \* tabs that are served, and their pages' titles
  Clamped,              \* titles too long to be a literal prefix of a name
  MaxClients, MaxOrigins,
  Nobody, Browser,
  Budgets

Origins == {OriginOf[a] : a \in Agents}
Clients == 1..MaxClients

ClientBound == /\ MaxClients \in Nat /\ MaxOrigins \in Nat \ {0}
               /\ Nobody \notin Agents \cup Pages

VARIABLES
  approvals, kept,  \* webAgentOrigins, newest first: in memory, in storage
  ready,            \* booted has settled
  route,            \* per tab, the agent it serves, Nobody for the daemon
  on,               \* the enabled tabs, in the order they were enabled
  open,             \* per tab, the client of its page, 0 if none
  peer,             \* per client: its tab, whether closed, its handshake, its label
  pending,          \* requests to pages that are not settled
  ask,              \* per agent, its request
  names,            \* per agent, what the last listing called the clients
  change,           \* a change of a route or an approval under way
  left

clientVars == <<open, peer, pending>>
vars == <<approvals, kept, ready, route, on, clientVars, ask, names, change, left>>

Steady == [kind |-> "none", tab |-> Nobody, origin |-> Nobody, todo |-> {}]
NoAsk == [pc |-> "idle", kind |-> "none", name |-> <<>>, cs |-> <<>>, at |-> 0,
          got |-> [c \in Clients |-> "none"]]

Spend(what) == left[what] > 0 /\ left' = [left EXCEPT ![what] = @ - 1]

-----------------------------------------------------------------------------
(***************************************************************************)
(* Origins.                                                                *)
(***************************************************************************)
OriginApproved(o) == o \in ToSet(approvals)
RemoveOrigin(list, o) == Subsequence(list, {i \in DOMAIN list : list[i] # o})
AddOrigin(list, o) ==
  LET all == <<o>> \o RemoveOrigin(list, o)
  IN SubSeq(all, 1, IF Len(all) > MaxOrigins THEN MaxOrigins ELSE Len(all))

-----------------------------------------------------------------------------
(***************************************************************************)
(* PageProviderClient.                                                     *)
(***************************************************************************)
\* The asks that fail when a client's handshake or requests are rejected.
Failing(c, waiting) ==
  [a \in Agents |-> IF ask[a].got[c] \in waiting THEN [ask[a] EXCEPT !.got[c] = "fail"]
                    ELSE ask[a]]

\* mutant: what is pending is dropped without a word to those who wait
AbandonClients(cs) ==
  /\ peer' = [c \in Clients |-> IF c \in cs THEN [peer[c] EXCEPT !.closed = TRUE]
                                ELSE peer[c]]
  /\ pending' = {m \in pending : m.c \notin cs}
  /\ open' = [t \in Pages |-> IF open[t] \in cs THEN 0 ELSE open[t]]
  /\ UNCHANGED ask

\* close: what is pending is rejected, and so is whoever awaits the handshake.
CloseClients(cs) ==
  /\ peer' = [c \in Clients |-> IF c \in cs THEN [peer[c] EXCEPT !.closed = TRUE,
                                                               !.start = "none"]
                                ELSE peer[c]]
  /\ pending' = {m \in pending : m.c \notin cs}
  /\ ask' = [a \in Agents |-> [ask[a] EXCEPT !.got = [c \in Clients |->
               IF c \in cs /\ @[c] \in {"starting", "asked"} THEN "fail" ELSE @[c]]]]
  /\ open' = [t \in Pages |-> IF open[t] \in cs THEN 0 ELSE open[t]]

KeepPageClients(t) == UNCHANGED <<clientVars, ask>>   \* mutant: nothing is closed

CloseAllPageClients(t) == CloseClients({open[t]} \ {0})

\* start, then request, on behalf of a: the handshake is shared by all who come.
Start(a, c) ==
  /\ ask[a].got[c] = "start"
  /\ \/ /\ peer[c].closed
        /\ ask' = [ask EXCEPT ![a].got[c] = "fail"]
        /\ UNCHANGED <<peer, pending>>
     \/ /\ ~peer[c].closed /\ peer[c].start # "done"
        /\ ask' = [ask EXCEPT ![a].got[c] = "starting"]
        /\ peer' = [peer EXCEPT ![c].start = "running"]
        /\ pending' = pending \cup {[c |-> c, kind |-> "initialize", a |-> Nobody,
                                     name |-> <<>>]}
     \/ /\ ~peer[c].closed /\ peer[c].start = "done"
        /\ ask' = [ask EXCEPT ![a].got[c] = "asked"]
        /\ pending' = pending \cup
             {[c |-> c, kind |-> IF ask[a].pc = "calling" THEN "call" ELSE "list",
               a |-> a, name |-> ask[a].name]}
        /\ UNCHANGED peer
  /\ UNCHANGED <<approvals, kept, ready, route, on, open, names, change, left>>

\* deliver: the page answers; an answer to nothing that is pending is dropped.
Deliver(m) ==
  /\ pending' = pending \ {m}
  /\ IF m.kind = "initialize"
     THEN /\ peer' = [peer EXCEPT ![m.c].start = "done"]
          /\ ask' = [a \in Agents |-> [ask[a] EXCEPT !.got[m.c] =
                       IF @ = "starting" THEN "start" ELSE @]]
     ELSE ask' = [ask EXCEPT ![m.a].got[m.c] = "ok"] /\ UNCHANGED peer
  /\ UNCHANGED <<approvals, kept, ready, route, on, open, names, change, left>>

\* The timer of a request; a handshake that failed may be tried again.
Timeout(m) ==
  /\ Spend("pageTimeouts")
  /\ pending' = pending \ {m}
  /\ IF m.kind = "initialize"
     THEN /\ peer' = [peer EXCEPT ![m.c].start = "none"]
          /\ ask' = Failing(m.c, {"starting"})
     ELSE ask' = [ask EXCEPT ![m.a].got[m.c] = "fail"] /\ UNCHANGED peer
  /\ UNCHANGED <<approvals, kept, ready, route, on, open, names, change>>

\* adopt: a navigation takes the call over; the page's end cannot reject it then.
Adopt(m) ==
  /\ m.kind = "call" /\ Spend("takeovers")
  /\ pending' = pending \ {m}
  /\ ask' = [ask EXCEPT ![m.a].got[m.c] = "adopted"]
  /\ UNCHANGED <<approvals, kept, ready, route, on, open, peer, names, change>>

\* The navigation has an outcome.
NavigationReplies(a, c) ==
  /\ ask[a].got[c] = "adopted"
  /\ ask' = [ask EXCEPT ![a].got[c] = "ok"]
  /\ UNCHANGED <<approvals, kept, ready, route, on, clientVars, names, change, left>>

-----------------------------------------------------------------------------
(***************************************************************************)
(* Requests of agents: handleWebAgentRequest.                              *)
(***************************************************************************)
\* A page posts a request, and its content script relays it.
Ask(a, kind, name) ==
  /\ ask[a].pc = "idle" /\ Spend("agentAsks")
  /\ kind = "call" => name \in DOMAIN names[a] \cup {Browser}
  /\ ask' = [ask EXCEPT ![a] = [NoAsk EXCEPT !.pc = "booting", !.kind = kind,
                                             !.name = name]]
  /\ UNCHANGED <<approvals, kept, ready, route, on, clientVars, names, change>>

\* An origin that is not approved is answered with silence.
Silent(a) ==
  /\ ask[a].pc = "booting" /\ ready /\ ~OriginApproved(OriginOf[a])
  /\ ask' = [ask EXCEPT ![a] = NoAsk]
  /\ UNCHANGED <<approvals, kept, ready, route, on, clientVars, names, change, left>>

HandleWebAgentRequest(a) ==
  /\ ask[a].pc = "booting" /\ ready /\ OriginApproved(OriginOf[a])
  /\ ask' = [ask EXCEPT ![a].pc = "gather"]
  /\ UNCHANGED <<approvals, kept, ready, route, on, clientVars, names, change, left>>

\* webAgentTabIds: the enabled tabs that serve this very agent.
WebAgentTabs(a) == Subsequence(on, {i \in DOMAIN on : route[on[i]] = a})
WebAgentPageClients(a) ==
  LET tabs == WebAgentTabs(a)
      served == Subsequence(tabs, {i \in DOMAIN tabs : open[tabs[i]] # 0})
  IN [i \in DOMAIN served |-> open[served[i]]]

\* The title, with a number where an earlier client has it.
LabelOf(cs, i) ==
  LET title(k) == TitleOf[peer[cs[k]].tab]
  IN <<title(i), Cardinality({k \in 1..i : title(k) = title(i)})>>

AssignLabels(cs) ==
  peer' = [c \in Clients |->
    IF c \in ToSet(cs)
    THEN [peer[c] EXCEPT !.label = LabelOf(cs, CHOOSE i \in DOMAIN cs : cs[i] = c)]
    ELSE peer[c]]

\* webAgentToolList: every page is asked at once.
GatherList(a) ==
  LET cs == WebAgentPageClients(a) IN
  /\ ask[a].pc = "gather" /\ ask[a].kind = "list"
  /\ AssignLabels(cs)
  /\ ask' = [ask EXCEPT ![a].pc = "listing", ![a].cs = cs,
               ![a].got = [c \in Clients |-> IF c \in ToSet(cs) THEN "start" ELSE "none"]]
  /\ UNCHANGED <<approvals, kept, ready, route, on, open, pending, names, change, left>>

\* ... and a page that fails is skipped.
Listed(a) ==
  LET said == {c \in ToSet(ask[a].cs) : ask[a].got[c] = "ok"} IN
  /\ ask[a].pc = "listing"
  /\ \A c \in ToSet(ask[a].cs) : ask[a].got[c] \in {"ok", "fail"}
  /\ names' = [names EXCEPT ![a] = [l \in {peer[c].label : c \in said} |->
                                     CHOOSE c \in said : peer[c].label = l]]
  /\ ask' = [ask EXCEPT ![a] = NoAsk]
  /\ UNCHANGED <<approvals, kept, ready, route, on, clientVars, change, left>>

\* webAgentCallTool: labels are given out anew, and the first literal prefix wins.
GatherCall(a) ==
  LET cs == WebAgentPageClients(a)
      hits == {i \in DOMAIN cs : LabelOf(cs, i) = ask[a].name
                                 /\ TitleOf[peer[cs[i]].tab] \notin Clamped}
  IN
  /\ ask[a].pc = "gather" /\ ask[a].kind = "call"
  /\ AssignLabels(cs)
  /\ ask' = [ask EXCEPT ![a] = IF hits # {}
       THEN LET c == cs[CHOOSE i \in hits : TRUE] IN
            [@ EXCEPT !.pc = "calling", !.cs = <<c>>, !.at = 1, !.got[c] = "start"]
       ELSE [@ EXCEPT !.pc = "probing", !.cs = cs, !.at = 0]]
  /\ UNCHANGED <<approvals, kept, ready, route, on, open, pending, names, change, left>>

\* No prefix: page after page is asked for its names, and then the browser toolset.
Probe(a) ==
  LET i == ask[a].at
      said == IF i = 0 THEN "fail" ELSE ask[a].got[ask[a].cs[i]]
      match == said = "ok" /\ peer[ask[a].cs[i]].label = ask[a].name
  IN
  /\ ask[a].pc = "probing" /\ said \in {"ok", "fail"}
  /\ ask' = [ask EXCEPT ![a] =
       IF match THEN [@ EXCEPT !.pc = "calling", !.got[ask[a].cs[i]] = "start"]
       ELSE IF i < Len(@.cs)
       THEN [@ EXCEPT !.at = i + 1, !.got[ask[a].cs[i + 1]] = "start"]
       ELSE [@ EXCEPT !.pc = "browser"]]
  /\ UNCHANGED <<approvals, kept, ready, route, on, clientVars, names, change, left>>

Called(a) ==
  /\ ask[a].pc = "calling" /\ ask[a].got[ask[a].cs[ask[a].at]] \in {"ok", "fail"}
  /\ ask' = [ask EXCEPT ![a] = NoAsk]
  /\ UNCHANGED <<approvals, kept, ready, route, on, clientVars, names, change, left>>

\* LoopbackMcpClient: the browser toolset answers, with an error at the worst.
BrowserAnswers(a) ==
  /\ ask[a].pc = "browser"
  /\ ask' = [ask EXCEPT ![a] = NoAsk]
  /\ UNCHANGED <<approvals, kept, ready, route, on, clientVars, names, change, left>>

-----------------------------------------------------------------------------
(***************************************************************************)
(* Pages, routes and approvals.                                            *)
(***************************************************************************)
NewClient == Cardinality({c \in Clients : peer[c].tab # Nobody}) + 1

\* openPageClient: an enabled page that serves an agent announces its provider.
OpenPageClient(t) ==
  /\ ready /\ t \in ToSet(on) /\ route[t] # Nobody
  /\ open[t] = 0 /\ NewClient \in Clients
  /\ open' = [open EXCEPT ![t] = NewClient]
  /\ peer' = [peer EXCEPT ![NewClient].tab = t]
  /\ UNCHANGED <<approvals, kept, ready, route, on, pending, ask, names, change, left>>

\* The Port of a page disconnects.
PageGoes(t) ==
  /\ open[t] # 0 /\ Spend("pageGoes")
  /\ CloseAllPageClients(t)
  /\ UNCHANGED <<approvals, kept, ready, route, on, names, change>>

\* An agent is chosen for a tab, in the popup or by its own enable_tab:
\* writeTabRoute refuses an origin that is not approved.
SetTabRoute(t, a) ==
  /\ change = Steady /\ ready /\ route[t] # a /\ Spend("reroutes")
  /\ OriginApproved(OriginOf[a])
  /\ route' = [route EXCEPT ![t] = a]
  /\ change' = [Steady EXCEPT !.kind = "route", !.tab = t]
  /\ UNCHANGED <<approvals, kept, ready, on, clientVars, ask, names>>

\* ... once the route is saved, the old consumer loses the page.
TeardownRoute ==
  /\ change.kind = "route"
  /\ CloseAllPageClients(change.tab)
  /\ change' = [change EXCEPT !.kind = "enable"]
  /\ UNCHANGED <<approvals, kept, ready, route, on, names, left>>

EnableTab ==
  /\ change.kind = "enable"
  /\ on' = IF change.tab \in ToSet(on) THEN on ELSE Append(on, change.tab)
  /\ change' = Steady
  /\ UNCHANGED <<approvals, kept, ready, route, clientVars, ask, names, left>>

\* setWebAgentOrigin(origin, true).
Connect(o) ==
  /\ change = Steady /\ ready /\ ~OriginApproved(o) /\ Spend("approvals")
  /\ approvals' = AddOrigin(approvals, o) /\ kept' = approvals'
  /\ UNCHANGED <<ready, route, on, clientVars, ask, names, change>>

\* setWebAgentOrigin(origin, false): serving stops, tab by tab.
Disconnect(o) ==
  /\ change = Steady /\ ready /\ OriginApproved(o) /\ Spend("approvals")
  /\ approvals' = RemoveOrigin(approvals, o) /\ kept' = approvals'
  /\ change' = [kind |-> "disconnect", tab |-> Nobody, origin |-> o,
                todo |-> {t \in Pages : route[t] # Nobody /\ OriginOf[route[t]] = o}]
  /\ UNCHANGED <<ready, route, on, clientVars, ask, names>>

StopServing(t) ==
  /\ change.kind = "disconnect" /\ change.tab = Nobody /\ t \in change.todo
  /\ on' = Subsequence(on, {i \in DOMAIN on : on[i] # t})
  /\ change' = [change EXCEPT !.tab = t]
  /\ UNCHANGED <<approvals, kept, ready, route, clientVars, ask, names, left>>

StoppedServing ==
  /\ change.kind = "disconnect" /\ change.tab # Nobody
  /\ CloseAllPageClients(change.tab)
  /\ change' = [change EXCEPT !.tab = Nobody, !.todo = @ \ {change.tab}]
  /\ UNCHANGED <<approvals, kept, ready, route, on, names, left>>

Disconnected ==
  /\ change.kind = "disconnect" /\ change.todo = {}
  /\ change' = Steady
  /\ UNCHANGED <<approvals, kept, ready, route, on, clientVars, ask, names, left>>

\* The browser recycles the worker; agents that wait get an error from the relay.
Recycled ==
  /\ Spend("agentRestarts")
  /\ ready' = FALSE /\ approvals' = <<>>
  /\ open' = [t \in Pages |-> 0] /\ pending' = {}
  /\ peer' = [c \in Clients |-> [peer[c] EXCEPT !.closed = peer[c].tab # Nobody,
                                              !.start = "none"]]
  /\ ask' = [a \in Agents |-> NoAsk] /\ change' = Steady
  /\ UNCHANGED <<kept, route, on, names>>

Booted ==
  /\ ~ready
  /\ ready' = TRUE /\ approvals' = kept
  /\ UNCHANGED <<kept, route, on, clientVars, ask, names, change, left>>

-----------------------------------------------------------------------------
Init ==
  /\ approvals = <<>> /\ kept = <<>> /\ ready = TRUE
  /\ route = [t \in Pages |-> Nobody] /\ on = <<>>
  /\ open = [t \in Pages |-> 0]
  /\ peer = [c \in Clients |-> [tab |-> Nobody, closed |-> FALSE, start |-> "none",
                                label |-> <<>>]]
  /\ pending = {}
  /\ ask = [a \in Agents |-> NoAsk] /\ names = [a \in Agents |-> <<>>]
  /\ change = Steady
  /\ left \in Budgets

AgentStep(a) ==
  \/ Silent(a) \/ HandleWebAgentRequest(a) \/ GatherList(a) \/ Listed(a)
  \/ GatherCall(a) \/ Probe(a) \/ Called(a) \/ BrowserAnswers(a)
  \/ \E c \in Clients : Start(a, c) \/ NavigationReplies(a, c)

ChangeStep ==
  \/ TeardownRoute \/ EnableTab \/ StoppedServing \/ Disconnected
  \/ \E t \in Pages : StopServing(t)

Next ==
  \/ \E a \in Agents : AgentStep(a) \/ Ask(a, "list", <<>>)
  \/ \E a \in Agents : \E n \in DOMAIN names[a] \cup {Browser} : Ask(a, "call", n)
  \/ \E m \in pending : Deliver(m) \/ Timeout(m) \/ Adopt(m)
  \/ \E t \in Pages : OpenPageClient(t) \/ PageGoes(t)
  \/ \E t \in Pages, a \in Agents : SetTabRoute(t, a)
  \/ \E o \in Origins : Connect(o) \/ Disconnect(o)
  \/ ChangeStep \/ Recycled \/ Booted

Spec == Init /\ [][Next]_vars

\* A request to a page is answered, or its timer fires; awaits end.
PeerDue(c) == \E m \in pending : m.c = c /\ (Deliver(m) \/ Timeout(m))

Fairness ==
  /\ WF_vars(Booted) /\ WF_vars(ChangeStep)
  /\ \A a \in Agents : WF_vars(AgentStep(a))
  /\ \A c \in Clients : WF_vars(PeerDue(c))

FairSpec == Spec /\ Fairness

-----------------------------------------------------------------------------
(***************************************************************************)
(* Properties.                                                             *)
(***************************************************************************)
\* Types; every request that is pending has somebody who waits for it.
TypeOK ==
  /\ ToSet(approvals) \subseteq Origins /\ Len(approvals) <= MaxOrigins
  /\ route \in [Pages -> Agents \cup {Nobody}] /\ IsInjective(on)
  /\ \A t \in Pages : open[t] # 0 => peer[open[t]].tab = t /\ ~peer[open[t]].closed
  /\ \A m \in pending :
       IF m.kind = "initialize" THEN peer[m.c].start = "running"
       ELSE ask[m.a].got[m.c] = "asked"

\* A call that is on its way to a page comes from the agent the tab is set to serve,
\* and its site is connected: two agents never share a page, and a site that was
\* disconnected is not served, except while the change is being carried out.
ServedAsChosen ==
  \A m \in pending : m.kind = "call" =>
    LET t == peer[m.c].tab IN
    \/ route[t] = m.a /\ OriginApproved(OriginOf[m.a])
    \/ change.kind = "route" /\ change.tab = t
    \/ change.kind = "disconnect" /\ t \in change.todo

\* Every request of an agent comes to an end, whatever becomes of the pages.
AsksSettle == \A a \in Agents : ask[a].pc # "idle" ~> ask[a].pc = "idle"

=============================================================================
