---------------------------- MODULE ChoiceProofs ----------------------------
(***************************************************************************)
(* Proofs about what the user chose for a tab: which agent of a web app    *)
(* may call it, which bridge it is pinned to, and that it is not an        *)
(* agent's to close; and about what the agent is told of the tabs and      *)
(* navigations that its calls bring about.                                 *)
(***************************************************************************)
EXTENDS Extension, SequenceTheorems, FiniteSetTheorems, TLAPS

(***************************************************************************)
(* Selections from lists.                                                  *)
(***************************************************************************)
\* The elements of sub are those of list at the positions I, each taken once.
TakenFrom(sub, list, I) ==
  \E pos \in [DOMAIN sub -> I] :
    /\ \A m \in DOMAIN sub : sub[m] = list[pos[m]]
    /\ \A m, l \in DOMAIN sub : pos[m] = pos[l] => m = l
    /\ \A i \in I : \E m \in DOMAIN sub : pos[m] = i

\* A selection from a list is a list of the selected elements, and the first element
\* stays the first if it is selected.
LEMMA SelectionTaken ==
  ASSUME NEW S, NEW list \in Seq(S), NEW I \in SUBSET (DOMAIN list)
  PROVE  /\ Control!Subsequence(list, I) \in Seq(S)
         /\ TakenFrom(Control!Subsequence(list, I), list, I)
         /\ 1 \in I => /\ 1 \in DOMAIN Control!Subsequence(list, I)
                       /\ Control!Subsequence(list, I)[1] = list[1]
<1> DEFINE upTo(i) == {j \in I : j <= i}
           rank == [i \in I |-> Cardinality(upTo(i))]
           N == Cardinality(I)
           sub == Control!Subsequence(list, I)
           pos == [m \in 1..N |-> CHOOSE i \in I : Cardinality(upTo(i)) = m]
<1>1. /\ IsFiniteSet(I) /\ N \in Nat
      /\ \A i \in I : i \in Nat /\ i >= 1
  <2>1. Len(list) \in Nat /\ DOMAIN list = 1..Len(list) OBVIOUS
  <2>2. IsFiniteSet(1..Len(list)) BY <2>1, FS_Interval
  <2>3. I \in SUBSET (1..Len(list)) BY <2>1
  <2>4. IsFiniteSet(I) BY <2>2, <2>3, FS_Subset
  <2> QED BY <2>3, <2>4, FS_CardinalityType
<1>2. ASSUME NEW i \in I
      PROVE  IsFiniteSet(upTo(i)) /\ Cardinality(upTo(i)) \in 1..N
  <2>1. upTo(i) \in SUBSET I /\ i \in upTo(i) BY <1>1
  <2>2. IsFiniteSet(upTo(i)) /\ Cardinality(upTo(i)) <= N BY <1>1, <2>1, FS_Subset
  <2>3. Cardinality(upTo(i)) \in Nat /\ Cardinality(upTo(i)) # 0
    BY <2>1, <2>2, FS_CardinalityType, FS_EmptySet
  <2> QED BY <1>1, <2>2, <2>3
<1>3. ASSUME NEW i \in I, NEW k \in I, i < k
      PROVE  Cardinality(upTo(i)) # Cardinality(upTo(k))
  <2>1. k \in upTo(k) /\ k \notin upTo(i) BY <1>3, <1>1
  <2>2. upTo(i) \in SUBSET upTo(k) BY <1>3, <1>1
  <2> QED BY <1>2, <2>1, <2>2, FS_Subset
<1>4. rank \in [I -> 1..N] /\ \A i, k \in I : rank[i] = rank[k] => i = k
  <2>1. rank \in [I -> 1..N] BY <1>2
  <2>2. ASSUME NEW i \in I, NEW k \in I, rank[i] = rank[k] PROVE i = k
    <3>1. ~(i < k) /\ ~(k < i) BY <1>3, <2>2
    <3> QED BY <3>1, <1>1
  <2> QED BY <2>1, <2>2
<1>5. \A m \in 1..N : \E i \in I : rank[i] = m
  <2>1. IsFiniteSet(1..N) /\ Cardinality(1..N) = N BY <1>1, FS_Interval
  <2>2. rank \in Injection(I, 1..N) BY <1>4 DEF Injection, IsInjective
  <2> HIDE DEF rank, N
  <2>3. rank \in Surjection(I, 1..N) BY <2>1, <2>2, FS_Injection DEF N
  <2> QED BY <2>3 DEF Surjection
<1>6. \A m \in 1..N : pos[m] \in I /\ Cardinality(upTo(pos[m])) = m
  BY <1>5
<1>7. DOMAIN sub = 1..N /\ \A m \in 1..N : sub[m] = list[pos[m]]
  BY DEF Control!Subsequence, Control!Cardinality, Cardinality
<1>8. ASSUME NEW i \in I PROVE rank[i] \in 1..N /\ pos[rank[i]] = i
  <2>1. rank[i] \in 1..N BY <1>2
  <2>2. pos[rank[i]] \in I /\ rank[pos[rank[i]]] = rank[i] BY <1>6, <2>1
  <2> HIDE DEF pos, rank
  <2> QED BY <1>4, <2>1, <2>2
<1>9. 1 \in I => rank[1] = 1
  <2> SUFFICES ASSUME 1 \in I PROVE rank[1] = 1 OBVIOUS
  <2>1. upTo(1) = {1} BY <1>1
  <2> QED BY <2>1, FS_Singleton
<1>10. sub = [m \in 1..N |-> list[pos[m]]]
  BY DEF Control!Subsequence, Control!Cardinality, Cardinality
<1> HIDE DEF pos, sub, upTo, rank
<1>11. \A m, l \in 1..N : pos[m] = pos[l] => m = l
  BY <1>6
<1>12. sub \in Seq(S)
  <2>1. \A m \in 1..N : list[pos[m]] \in S BY <1>6
  <2>2. sub \in [1..N -> S] BY <2>1, <1>10
  <2> QED BY <2>2, <1>1
<1>13. TakenFrom(sub, list, I)
  <2>1. pos \in [DOMAIN sub -> I] BY <1>6, <1>7 DEF pos
  <2>2. \A i \in I : \E m \in DOMAIN sub : pos[m] = i BY <1>7, <1>8
  <2>3. /\ \A m \in DOMAIN sub : sub[m] = list[pos[m]]
        /\ \A m, l \in DOMAIN sub : pos[m] = pos[l] => m = l
    BY <1>7, <1>11
  <2>4. PICK q : q = pos OBVIOUS
  <2> HIDE DEF sub
  <2>5. /\ q \in [DOMAIN sub -> I] /\ \A m \in DOMAIN sub : sub[m] = list[q[m]]
        /\ \A m, l \in DOMAIN sub : q[m] = q[l] => m = l
        /\ \A i \in I : \E m \in DOMAIN sub : q[m] = i
    BY <2>1, <2>2, <2>3, <2>4
  <2> QED BY <2>5 DEF TakenFrom
<1>14. 1 \in I => 1 \in DOMAIN sub /\ sub[1] = list[1]
  BY <1>7, <1>8, <1>9
<1> QED BY <1>12, <1>13, <1>14 DEF sub

-----------------------------------------------------------------------------
(***************************************************************************)
(* Web agents.                                                             *)
(***************************************************************************)
\* What is in a list, and that no element is in it twice.
In(list, x) == \E i \in 1..Len(list) : list[i] = x
NoneTwice(list) == \A i, j \in DOMAIN list : list[i] = list[j] => i = j

\* A selection from a list: elements of it, all that were selected, none twice if none was.
LEMMA SelectionTakes ==
  ASSUME NEW S, NEW list \in Seq(S), NEW I \in SUBSET (DOMAIN list)
  PROVE  /\ Web!Subsequence(list, I) \in Seq(S)
         /\ \A m \in DOMAIN Web!Subsequence(list, I) :
              \E i \in I : Web!Subsequence(list, I)[m] = list[i]
         /\ \A i \in I : \E m \in DOMAIN Web!Subsequence(list, I) :
              Web!Subsequence(list, I)[m] = list[i]
         /\ NoneTwice(list) => NoneTwice(Web!Subsequence(list, I))
<1>1. PICK sub : sub = Control!Subsequence(list, I) OBVIOUS
<1>2. Web!Subsequence(list, I) = sub
  BY <1>1 DEF Web!Subsequence, Control!Subsequence, Web!Cardinality, Control!Cardinality
<1>3. sub \in Seq(S) /\ TakenFrom(sub, list, I) BY <1>1, SelectionTaken
<1>4. PICK pos \in [DOMAIN sub -> I] :
        /\ \A m \in DOMAIN sub : sub[m] = list[pos[m]]
        /\ \A m, l \in DOMAIN sub : pos[m] = pos[l] => m = l
        /\ \A i \in I : \E m \in DOMAIN sub : pos[m] = i
  BY <1>3 DEF TakenFrom
<1>5. NoneTwice(list) => NoneTwice(sub) BY <1>4 DEF NoneTwice
<1>6. \A i \in I : \E m \in DOMAIN sub : sub[m] = list[i] BY <1>4
<1> QED BY <1>2, <1>3, <1>4, <1>5, <1>6

\* A list without an element, and with one in front.
LEMMA WithoutOne ==
  ASSUME NEW S, NEW list \in Seq(S), NoneTwice(list), NEW o
  PROVE  /\ Web!RemoveOrigin(list, o) \in Seq(S)
         /\ NoneTwice(Web!RemoveOrigin(list, o))
         /\ \A x : In(Web!RemoveOrigin(list, o), x) <=> In(list, x) /\ x # o
<1> DEFINE I == {i \in DOMAIN list : list[i] # o}
           sub == Web!RemoveOrigin(list, o)
<1>1. sub = Web!Subsequence(list, I) BY DEF Web!RemoveOrigin
<1>2. I \in SUBSET (DOMAIN list) OBVIOUS
<1>3. /\ sub \in Seq(S) /\ NoneTwice(sub)
      /\ \A m \in DOMAIN sub : \E i \in I : sub[m] = list[i]
      /\ \A i \in I : \E m \in DOMAIN sub : sub[m] = list[i]
  <2> HIDE DEF I
  <2>1. /\ Web!Subsequence(list, I) \in Seq(S)
        /\ \A m \in DOMAIN Web!Subsequence(list, I) :
             \E i \in I : Web!Subsequence(list, I)[m] = list[i]
        /\ \A i \in I : \E m \in DOMAIN Web!Subsequence(list, I) :
             Web!Subsequence(list, I)[m] = list[i]
        /\ NoneTwice(list) => NoneTwice(Web!Subsequence(list, I))
    BY <1>2, SelectionTakes
  <2> QED BY <2>1, <1>1
<1> HIDE DEF sub
<1>4. DOMAIN sub = 1..Len(sub) /\ DOMAIN list = 1..Len(list) BY <1>3
<1>5. ASSUME NEW x PROVE In(sub, x) <=> In(list, x) /\ x # o
  <2>1. ASSUME In(sub, x) PROVE In(list, x) /\ x # o
    BY <2>1, <1>3, <1>4 DEF In
  <2>2. ASSUME In(list, x), x # o PROVE In(sub, x)
    <3>1. PICK i \in 1..Len(list) : list[i] = x BY <2>2 DEF In
    <3>2. i \in I BY <3>1, <2>2, <1>4
    <3>3. PICK m \in DOMAIN sub : sub[m] = list[i] BY <3>2, <1>3
    <3> QED BY <3>1, <3>3, <1>4 DEF In
  <2> QED BY <2>1, <2>2
<1> QED BY <1>3, <1>5 DEF sub

\* A list of distinct elements is no longer than the elements are many.
LEMMA NoLongerThan ==
  ASSUME NEW S, IsFiniteSet(S), NEW list \in Seq(S), NoneTwice(list)
  PROVE  Len(list) <= Cardinality(S)
<1>1. list \in Injection(1..Len(list), S) BY DEF Injection, IsInjective, NoneTwice
<1>2. Cardinality(1..Len(list)) <= Cardinality(S) BY <1>1, FS_Injection
<1>3. Len(list) \in Nat OBVIOUS
<1>4. Cardinality(1..Len(list)) = Len(list) BY <1>3, FS_Interval
<1> QED BY <1>2, <1>4

\* Where there is room for every site, a new approval forgets none.
LEMMA WithOneMore ==
  ASSUME NEW S, IsFiniteSet(S), Cardinality(S) <= MaxOrigins,
         NEW list \in Seq(S), NoneTwice(list), NEW o \in S
  PROVE  /\ Web!AddOrigin(list, o) \in Seq(S)
         /\ NoneTwice(Web!AddOrigin(list, o))
         /\ \A x : In(list, x) => In(Web!AddOrigin(list, o), x)
<1> DEFINE sub == Web!RemoveOrigin(list, o)
           all == <<o>> \o sub
<1>1. sub \in Seq(S) /\ NoneTwice(sub) /\ \A x : In(sub, x) <=> In(list, x) /\ x # o
  BY WithoutOne
<1>2. Web!AddOrigin(list, o)
        = SubSeq(all, 1, IF Len(all) > MaxOrigins THEN MaxOrigins ELSE Len(all))
  BY DEF Web!AddOrigin
<1> HIDE DEF sub
<1>3. /\ all \in Seq(S) /\ Len(all) = Len(sub) + 1 /\ Len(sub) \in Nat
      /\ all[1] = o /\ \A i \in 1..Len(sub) : all[i + 1] = sub[i]
  BY <1>1
<1> HIDE DEF all
<1>4. NoneTwice(all)
  <2> SUFFICES ASSUME NEW i \in 1..Len(all), NEW j \in 1..Len(all), i < j, all[i] = all[j]
               PROVE FALSE
    BY <1>3 DEF NoneTwice
  <2>1. j - 1 \in 1..Len(sub) /\ all[j] = sub[j - 1] BY <1>3
  <2>2. CASE i = 1
    BY <2>1, <2>2, <1>3, <1>1 DEF In
  <2>3. CASE i # 1
    <3>1. i - 1 \in 1..Len(sub) /\ all[i] = sub[i - 1] BY <2>3, <1>3
    <3>2. DOMAIN sub = 1..Len(sub) BY <1>1
    <3>3. i - 1 = j - 1 BY <3>1, <3>2, <2>1, <1>1 DEF NoneTwice
    <3> QED BY <3>3
  <2> QED BY <2>2, <2>3
<1>5. Len(all) <= Cardinality(S) BY <1>3, <1>4, NoLongerThan
<1>6. Cardinality(S) \in Nat BY FS_CardinalityType
<1>7. ~(Len(all) > MaxOrigins) BY <1>5, <1>6, <1>3, Bounds DEF Web!ClientBound
<1>8. Web!AddOrigin(list, o) = all
  <2>1. Web!AddOrigin(list, o) = SubSeq(all, 1, Len(all)) BY <1>2, <1>7
  <2> QED BY <2>1, <1>3
<1>9. ASSUME NEW x, In(list, x) PROVE In(all, x)
  <2>1. CASE x = o BY <2>1, <1>3 DEF In
  <2>2. CASE x # o
    <3>1. PICK i \in 1..Len(sub) : sub[i] = x BY <2>2, <1>9, <1>1 DEF In
    <3> QED BY <3>1, <1>3 DEF In
  <2> QED BY <2>1, <2>2
<1> QED BY <1>3, <1>4, <1>8, <1>9

\* The records of clients, requests of agents and changes.
IsClient(r) == DOMAIN r = {"tab", "closed", "start", "label"} /\ r.closed \in BOOLEAN
IsAsk(r) ==
  /\ DOMAIN r = {"pc", "kind", "name", "cs", "at", "got"}
  /\ r.cs \in Seq(Web!Clients) /\ r.at \in 0..Len(r.cs) /\ DOMAIN r.got = Web!Clients
IsChange(r) == DOMAIN r = {"kind", "tab", "origin", "todo"} /\ r.todo \in SUBSET Pages

OriginsTyped ==
  /\ approvals \in Seq(Web!Origins) /\ NoneTwice(approvals)
  /\ kept \in Seq(Web!Origins) /\ NoneTwice(kept)

WebTyped ==
  /\ OriginsTyped
  /\ DOMAIN route = Pages /\ on \in Seq(Pages) /\ IsChange(change)
  /\ DOMAIN ask = Agents /\ \A a \in Agents : IsAsk(ask[a])

\* A client is of one tab for good; a tab's client is the one that is not closed.
ClientsSound ==
  /\ DOMAIN peer = Web!Clients /\ \A c \in Web!Clients : IsClient(peer[c])
  /\ DOMAIN open = Pages /\ \A t \in Pages : open[t] \in 0..MaxClients
  /\ \E n \in Nat : \A c \in Web!Clients : peer[c].tab # Nobody <=> c <= n
  /\ \A c \in Web!Clients : /\ peer[c].tab \in Pages \cup {Nobody}
                            /\ peer[c].tab = Nobody => ~peer[c].closed
                            /\ peer[c].tab # Nobody /\ ~peer[c].closed => open[peer[c].tab] = c
  /\ \A t \in Pages : open[t] # 0 => peer[open[t]].tab = t /\ ~peer[open[t]].closed

\* The page of t may be asked for a: t serves a, whose site is connected, or a change of
\* that is being carried out.
MayAsk(a, t) ==
  \/ route[t] = a /\ In(approvals, OriginOf[a])
  \/ change.kind = "route" /\ change.tab = t
  \/ change.kind = "disconnect" /\ t \in change.todo

\* The request r of a: it starts only with clients it has; the clients it is about to call
\* are closed, or may be asked; what it is about to gather may be asked.
AskSound(a, r) ==
  /\ \A c \in Web!Clients : r.got[c] \in {"start", "starting"} => In(r.cs, c)
  /\ r.pc \in {"idle", "booting", "gather"} => r.cs = <<>>
  /\ \A c \in Web!Clients : In(r.cs, c) => peer[c].tab \in Pages
  /\ r.pc \in {"probing", "calling"} =>
       \A c \in Web!Clients, t \in Pages :
         In(r.cs, c) /\ peer[c].tab = t => peer[c].closed \/ MayAsk(a, t)
  /\ r.pc = "gather" => \A t \in Pages : In(on, t) /\ route[t] = a => MayAsk(a, t)
  /\ ~ready => r.pc \in {"idle", "booting"}

\* A call that is pending is with a client that is not closed and may be asked.
CallSound(m) ==
  /\ m.c \in Web!Clients /\ (m.kind # "initialize" => m.a \in Agents)
  /\ m.kind = "call" => /\ ~peer[m.c].closed /\ peer[m.c].tab \in Pages
                        /\ \A t \in Pages : peer[m.c].tab = t => MayAsk(m.a, t)
CallsSound == \A m \in pending : CallSound(m)

\* A change is for an agent whose site is connected, or takes tabs out of the list before
\* it closes their clients; a worker that boots has nothing under way.
ChangeSound ==
  /\ ~ready => pending = {} /\ change = Web!Steady
  /\ change.kind \in {"route", "enable"} =>
       /\ change.tab \in Pages /\ route[change.tab] \in Agents
       /\ In(approvals, OriginOf[route[change.tab]])
  /\ change.kind = "disconnect" /\ change.tab # Nobody =>
       change.tab \in Pages /\ ~In(on, change.tab)

WebInv == /\ WebTyped /\ ClientsSound /\ CallsSound /\ ChangeSound
          /\ \A a \in Agents : AskSound(a, ask[a])

\* Agents are no Nobody, nor are pages; clients have numbers.
LEMMA WebNames ==
  /\ Nobody \notin Agents /\ Nobody \notin Pages
  /\ MaxClients \in Nat /\ Web!Clients = 1..MaxClients
  /\ \A a \in Agents : OriginOf[a] \in Web!Origins
  /\ \A o : Web!OriginApproved(o) <=> o \in {approvals[i] : i \in DOMAIN approvals}
BY Bounds DEF Web!ClientBound, Web!Clients, Web!Origins, Web!OriginApproved, Web!ToSet

\* A site is approved if it is in the list.
LEMMA Approved ==
  ASSUME WebTyped, NEW o PROVE Web!OriginApproved(o) <=> In(approvals, o)
<1>1. DOMAIN approvals = 1..Len(approvals) BY DEF WebTyped, OriginsTyped
<1> QED BY <1>1, WebNames DEF In

\* A request that is over, or has not begun.
LEMMA NothingAsked ==
  ASSUME NEW a \in Agents
  PROVE  /\ IsAsk(Web!NoAsk) /\ AskSound(a, Web!NoAsk)
         /\ Web!NoAsk.pc = "idle" /\ Web!NoAsk.cs = <<>> /\ Web!NoAsk.at = 0
         /\ \A c \in Web!Clients : Web!NoAsk.got[c] = "none"
<1> DEFINE r == Web!NoAsk
<1>1. /\ DOMAIN r = {"pc", "kind", "name", "cs", "at", "got"}
      /\ r.pc = "idle" /\ r.cs = <<>> /\ r.at = 0 /\ r.got = [c \in Web!Clients |-> "none"]
  BY DEF Web!NoAsk
<1> HIDE DEF r
<1>2. r.cs \in Seq(Web!Clients) /\ Len(r.cs) = 0 BY <1>1
<1>3. \A c : ~In(r.cs, c) BY <1>2 DEF In
<1>4. IsAsk(r) BY <1>1, <1>2 DEF IsAsk
<1>5. AskSound(a, r) BY <1>1, <1>3 DEF AskSound
<1> QED BY <1>1, <1>4, <1>5 DEF r

\* A step in which agents and clients go on, and routes, approvals and tabs stay: the
\* clients keep their tabs, and what is asked now may be asked.
LEMMA AgentsGoOn ==
  ASSUME WebInv, UNCHANGED <<approvals, kept, ready, route, on, open, change>>,
         DOMAIN peer' = Web!Clients,
         \A c \in Web!Clients : /\ IsClient(peer'[c]) /\ peer'[c].tab = peer[c].tab
                                /\ peer'[c].closed = peer[c].closed,
         \A m \in pending' : m \in pending \/ CallSound(m),
         ~ready => pending' = {},
         DOMAIN ask' = Agents,
         \A a \in Agents : IsAsk(ask'[a]) /\ AskSound(a, ask'[a])
  PROVE  WebInv'
<1>1. WebTyped' BY DEF WebInv, WebTyped, OriginsTyped
<1>2. ClientsSound'
  <2>0. ClientsSound BY DEF WebInv
  <2>1. \E n \in Nat : \A c \in Web!Clients : peer'[c].tab # Nobody <=> c <= n
    BY <2>0 DEF ClientsSound
  <2>2. \A c \in Web!Clients :
          /\ peer'[c].tab \in Pages \cup {Nobody}
          /\ peer'[c].tab = Nobody => ~peer'[c].closed
          /\ peer'[c].tab # Nobody /\ ~peer'[c].closed => open'[peer'[c].tab] = c
    BY <2>0 DEF ClientsSound
  <2>3. ASSUME NEW t \in Pages, open'[t] # 0
        PROVE peer'[open'[t]].tab = t /\ ~peer'[open'[t]].closed
    <3>1. open[t] \in Web!Clients /\ open'[t] = open[t]
      BY <2>0, <2>3, WebNames DEF ClientsSound
    <3>2. peer[open[t]].tab = t /\ ~peer[open[t]].closed
      BY <2>0, <2>3 DEF ClientsSound
    <3> QED BY <3>1, <3>2
  <2> QED BY <2>0, <2>1, <2>2, <2>3 DEF ClientsSound
<1>3. \A a, t : MayAsk(a, t)' <=> MayAsk(a, t) BY DEF MayAsk
<1>4. CallsSound'
  <2> SUFFICES ASSUME NEW m \in pending' PROVE CallSound(m)' BY DEF CallsSound
  <2>1. CallSound(m) BY DEF WebInv, CallsSound
  <2>2. m.c \in Web!Clients BY <2>1 DEF CallSound
  <2>3. peer'[m.c].tab = peer[m.c].tab /\ peer'[m.c].closed = peer[m.c].closed BY <2>2
  <2> QED BY <2>1, <2>3, <1>3 DEF CallSound
<1>5. ChangeSound' BY DEF WebInv, ChangeSound
<1>6. ASSUME NEW a \in Agents PROVE AskSound(a, ask[a])'
  <2>1. AskSound(a, ask'[a]) OBVIOUS
  <2> QED BY <2>1, <1>3 DEF AskSound
<1> QED BY <1>1, <1>2, <1>4, <1>5, <1>6 DEF WebInv

\* What a request keeps when its client fails, or nothing happens to it.
AskStays(r, q) ==
  /\ DOMAIN q = DOMAIN r /\ q.pc = r.pc /\ q.cs = r.cs /\ q.at = r.at
  /\ DOMAIN q.got = DOMAIN r.got
  /\ \A c \in Web!Clients : q.got[c] \in {"start", "starting"} =>
                              r.got[c] \in {"start", "starting"}

\* A step in which routes, approvals or tabs change: clients close at most, and those that
\* are not closed may be asked for whom they might.
LEMMA ChoicesMove ==
  ASSUME WebInv, WebTyped', ClientsSound', ChangeSound', ready' = ready,
         \A c \in Web!Clients : /\ peer'[c].tab = peer[c].tab
                                /\ peer[c].closed => peer'[c].closed,
         \A a \in Agents, c \in Web!Clients, t \in Pages :
           (peer[c].tab = t /\ ~peer'[c].closed /\ MayAsk(a, t)) => MayAsk(a, t)',
         \A a \in Agents, t \in Pages :
           ( /\ \A u \in Pages : In(on, u) /\ route[u] = a => MayAsk(a, u)
             /\ In(on', t) /\ route'[t] = a ) => MayAsk(a, t)',
         \A m \in pending' : m \in pending /\ (m.kind = "call" => ~peer'[m.c].closed),
         \A a \in Agents : AskStays(ask[a], ask'[a])
  PROVE  WebInv'
<1>4. CallsSound'
  <2> SUFFICES ASSUME NEW m \in pending' PROVE CallSound(m)' BY DEF CallsSound
  <2>1. m \in pending /\ CallSound(m) BY DEF WebInv, CallsSound
  <2>2. m.c \in Web!Clients BY <2>1 DEF CallSound
  <2>3. peer'[m.c].tab = peer[m.c].tab /\ (m.kind = "call" => ~peer'[m.c].closed) BY <2>2
  <2>4. ASSUME m.kind = "call", NEW t \in Pages, peer'[m.c].tab = t PROVE MayAsk(m.a, t)'
    <3>1. m.a \in Agents /\ peer[m.c].tab = t /\ MayAsk(m.a, t)
      BY <2>1, <2>3, <2>4 DEF CallSound
    <3> QED BY <3>1, <2>2, <2>3, <2>4
  <2> QED BY <2>1, <2>3, <2>4 DEF CallSound
<1>6. ASSUME NEW a \in Agents PROVE AskSound(a, ask[a])'
  <2>1. AskSound(a, ask[a]) BY DEF WebInv
  <2>2. AskStays(ask[a], ask'[a]) OBVIOUS
  <2>3. \A c \in Web!Clients : ask'[a].got[c] \in {"start", "starting"} => In(ask'[a].cs, c)
    BY <2>1, <2>2 DEF AskSound, AskStays
  <2>4. /\ ask'[a].pc \in {"idle", "booting", "gather"} => ask'[a].cs = <<>>
        /\ ~ready' => ask'[a].pc \in {"idle", "booting"}
    BY <2>1, <2>2 DEF AskSound, AskStays
  <2>5. \A c \in Web!Clients : In(ask'[a].cs, c) => peer'[c].tab \in Pages
    BY <2>1, <2>2 DEF AskSound, AskStays
  <2>6. ASSUME ask'[a].pc \in {"probing", "calling"}, NEW c \in Web!Clients, NEW t \in Pages,
               In(ask'[a].cs, c), peer'[c].tab = t, ~peer'[c].closed
        PROVE MayAsk(a, t)'
    <3>1. peer[c].tab = t /\ ~peer[c].closed BY <2>6
    <3>2. ask[a].pc \in {"probing", "calling"} /\ In(ask[a].cs, c)
      BY <2>2, <2>6 DEF AskStays
    <3>3. MayAsk(a, t) BY <3>1, <3>2, <2>1 DEF AskSound
    <3> QED BY <3>1, <3>3, <2>6
  <2>7. ASSUME ask'[a].pc = "gather", NEW t \in Pages, In(on', t), route'[t] = a
        PROVE MayAsk(a, t)'
    <3>1. \A u \in Pages : In(on, u) /\ route[u] = a => MayAsk(a, u)
      BY <2>1, <2>2, <2>7 DEF AskSound, AskStays
    <3> QED BY <3>1, <2>7
  <2> QED BY <2>3, <2>4, <2>5, <2>6, <2>7 DEF AskSound
<1> QED BY <1>4, <1>6 DEF WebInv

\* The clients keep their tabs, and are as closed as they were.
SameClients ==
  /\ DOMAIN peer' = Web!Clients
  /\ \A c \in Web!Clients : /\ IsClient(peer'[c]) /\ peer'[c].tab = peer[c].tab
                            /\ peer'[c].closed = peer[c].closed

\* What stays as it was is sound as it was.
LEMMA StaysSound ==
  ASSUME NEW a \in Agents, NEW r, NEW q, IsAsk(r), AskSound(a, r), AskStays(r, q)
  PROVE  IsAsk(q) /\ AskSound(a, q)
<1>1. IsAsk(q) BY DEF IsAsk, AskStays
<1>2. \A c \in Web!Clients : q.got[c] \in {"start", "starting"} => In(q.cs, c)
  BY DEF AskSound, AskStays
<1>3. q.pc = r.pc /\ q.cs = r.cs BY DEF AskStays
<1> QED BY <1>1, <1>2, <1>3 DEF AskSound

\* Of an agent's request, what it hears of one client changes.
LEMMA HearsOf ==
  ASSUME WebInv, NEW a \in Agents, NEW c \in Web!Clients, NEW said,
         \/ said \notin {"start", "starting"}
         \/ ask[a].got[c] \in {"start", "starting"}
  PROVE  AskStays(ask[a], [ask[a] EXCEPT !.got[c] = said])
<1> DEFINE q == [ask[a] EXCEPT !.got[c] = said]
<1>1. IsAsk(ask[a]) BY DEF WebInv, WebTyped
<1>2. /\ DOMAIN q = DOMAIN ask[a] /\ q.pc = ask[a].pc /\ q.cs = ask[a].cs /\ q.at = ask[a].at
      /\ q.got = [ask[a].got EXCEPT ![c] = said]
  BY <1>1 DEF IsAsk
<1> HIDE DEF q
<1>3. DOMAIN q.got = DOMAIN ask[a].got BY <1>2
<1>4. \A d \in Web!Clients : q.got[d] \in {"start", "starting"} =>
                               ask[a].got[d] \in {"start", "starting"}
  BY <1>1, <1>2 DEF IsAsk
<1> QED BY <1>2, <1>3, <1>4 DEF AskStays, q

\* One agent's request goes on.
LEMMA OneAskGoesOn ==
  ASSUME WebInv, UNCHANGED <<approvals, kept, ready, route, on, open, change>>,
         SameClients,
         \A m \in pending' : m \in pending \/ CallSound(m),
         ~ready => pending' = {},
         NEW a \in Agents, NEW q, IsAsk(q), AskSound(a, q), ask' = [ask EXCEPT ![a] = q]
  PROVE  WebInv'
<1>1. DOMAIN ask' = Agents BY DEF WebInv, WebTyped
<1>2. ASSUME NEW b \in Agents PROVE IsAsk(ask'[b]) /\ AskSound(b, ask'[b])
  <2>1. IsAsk(ask[b]) /\ AskSound(b, ask[b]) /\ DOMAIN ask = Agents BY DEF WebInv, WebTyped
  <2>2. ask'[b] = IF b = a THEN q ELSE ask[b] BY <2>1
  <2> QED BY <2>1, <2>2
<1> QED BY <1>1, <1>2, AgentsGoOn DEF SameClients

\* All requests may hear of a client.
LEMMA AllAsksStay ==
  ASSUME WebInv, UNCHANGED <<approvals, kept, ready, route, on, open, change>>,
         SameClients,
         \A m \in pending' : m \in pending \/ CallSound(m),
         ~ready => pending' = {},
         DOMAIN ask' = Agents, \A a \in Agents : AskStays(ask[a], ask'[a])
  PROVE  WebInv'
<1>1. ASSUME NEW b \in Agents PROVE IsAsk(ask'[b]) /\ AskSound(b, ask'[b])
  <2>1. IsAsk(ask[b]) /\ AskSound(b, ask[b]) BY DEF WebInv, WebTyped
  <2>2. AskStays(ask[b], ask'[b]) OBVIOUS
  <2> QED BY <2>1, <2>2, StaysSound
<1> QED BY <1>1, AgentsGoOn DEF SameClients

\* Nothing happens to the clients.
LEMMA ClientsStay == ASSUME WebInv, UNCHANGED peer PROVE SameClients
  BY DEF SameClients, WebInv, ClientsSound

\* A client's handshake has another state.
LEMMA HandshakeMoves ==
  ASSUME WebInv, NEW c \in Web!Clients, NEW s, peer' = [peer EXCEPT ![c].start = s]
  PROVE  SameClients
<1>1. DOMAIN peer = Web!Clients /\ \A d \in Web!Clients : IsClient(peer[d])
  BY DEF WebInv, ClientsSound
<1>2. ASSUME NEW d \in Web!Clients
      PROVE  /\ IsClient(peer'[d]) /\ peer'[d].tab = peer[d].tab
             /\ peer'[d].closed = peer[d].closed
  <2>1. CASE d = c
    <3>1. peer'[d] = [peer[d] EXCEPT !.start = s] BY <2>1, <1>1
    <3> QED BY <3>1, <1>1 DEF IsClient
  <2>2. CASE d # c
    <3>1. peer'[d] = peer[d] BY <2>2, <1>1
    <3> QED BY <3>1, <1>1
  <2> QED BY <2>1, <2>2
<1> QED BY <1>1, <1>2 DEF SameClients

\* Clients get labels.
LEMMA LabelsMove ==
  ASSUME WebInv, NEW cs, Web!AssignLabels(cs) PROVE SameClients
<1>1. DOMAIN peer = Web!Clients /\ \A d \in Web!Clients : IsClient(peer[d])
  BY DEF WebInv, ClientsSound
<1>2. PICK lab : peer' = [c \in Web!Clients |->
                            IF c \in Web!ToSet(cs) THEN [peer[c] EXCEPT !.label = lab[c]]
                            ELSE peer[c]]
  <2> DEFINE l == [c \in Web!Clients |->
                     Web!LabelOf(cs, CHOOSE i \in DOMAIN cs : cs[i] = c)]
  <2>1. \A c \in Web!Clients : l[c] = Web!LabelOf(cs, CHOOSE i \in DOMAIN cs : cs[i] = c)
    OBVIOUS
  <2> HIDE DEF l
  <2>2. peer' = [c \in Web!Clients |->
                   IF c \in Web!ToSet(cs) THEN [peer[c] EXCEPT !.label = l[c]] ELSE peer[c]]
    BY <2>1 DEF Web!AssignLabels
  <2> QED BY <2>2
<1>3. ASSUME NEW d \in Web!Clients
      PROVE  /\ IsClient(peer'[d]) /\ peer'[d].tab = peer[d].tab
             /\ peer'[d].closed = peer[d].closed
  <2>1. peer'[d] = [peer[d] EXCEPT !.label = lab[d]] \/ peer'[d] = peer[d] BY <1>2
  <2> QED BY <2>1, <1>1 DEF IsClient
<1>4. DOMAIN peer' = Web!Clients BY <1>2
<1> QED BY <1>3, <1>4 DEF SameClients

\* A client is started for an agent, and its page asked.
LEMMA StartKeeps ==
  ASSUME WebInv, NEW a \in Agents, NEW c \in Web!Clients, Web!Start(a, c) PROVE WebInv'
<1>0. /\ ask[a].got[c] = "start"
      /\ UNCHANGED <<approvals, kept, ready, route, on, open, change>>
  BY DEF Web!Start
<1>1. IsAsk(ask[a]) /\ AskSound(a, ask[a]) /\ DOMAIN ask = Agents BY DEF WebInv, WebTyped
<1>2. ASSUME NEW said PROVE
        LET q == [ask[a] EXCEPT !.got[c] = said] IN
        /\ said \in {"fail", "starting", "asked"} => IsAsk(q) /\ AskSound(a, q)
        /\ [ask EXCEPT ![a].got[c] = said] = [ask EXCEPT ![a] = q]
  BY <1>0, <1>1, HearsOf, StaysSound
<1>3. ready
  BY <1>0, <1>1 DEF AskSound, In
<1>4. In(ask[a].cs, c) BY <1>0, <1>1 DEF AskSound
<1>5. CASE peer[c].closed /\ ask' = [ask EXCEPT ![a].got[c] = "fail"]
             /\ UNCHANGED <<peer, pending>>
  BY <1>5, <1>0, <1>2, <1>3, ClientsStay, OneAskGoesOn
<1>6. CASE /\ ~peer[c].closed /\ peer[c].start # "done"
           /\ ask' = [ask EXCEPT ![a].got[c] = "starting"]
           /\ peer' = [peer EXCEPT ![c].start = "running"]
           /\ pending' = pending \cup {[c |-> c, kind |-> "initialize", a |-> Nobody,
                                        name |-> <<>>]}
  <2>1. \A m \in pending' : m \in pending \/ CallSound(m)
    BY <1>6 DEF CallSound
  <2>2. SameClients BY <1>6, HandshakeMoves
  <2> QED BY <1>6, <1>0, <1>2, <1>3, <2>1, <2>2, OneAskGoesOn
<1>7. CASE /\ ~peer[c].closed /\ peer[c].start = "done"
           /\ ask' = [ask EXCEPT ![a].got[c] = "asked"]
           /\ pending' = pending \cup
                {[c |-> c, kind |-> IF ask[a].pc = "calling" THEN "call" ELSE "list",
                  a |-> a, name |-> ask[a].name]}
           /\ UNCHANGED peer
  <2> DEFINE k == IF ask[a].pc = "calling" THEN "call" ELSE "list"
             n == [c |-> c, kind |-> k, a |-> a, name |-> ask[a].name]
  <2>1. n.c = c /\ n.kind = k /\ n.a = a /\ pending' = pending \cup {n} BY <1>7
  <2> HIDE DEF n
  <2>2. ASSUME n.kind = "call" PROVE /\ ~peer[c].closed /\ peer[c].tab \in Pages
                                     /\ \A t \in Pages : peer[c].tab = t => MayAsk(a, t)
    <3>1. ask[a].pc = "calling" BY <2>1, <2>2
    <3> QED BY <3>1, <1>1, <1>4, <1>7 DEF AskSound
  <2>3. CallSound(n) BY <2>1, <2>2 DEF CallSound
  <2>4. \A m \in pending' : m \in pending \/ CallSound(m) BY <2>1, <2>3
  <2> QED BY <1>7, <1>0, <1>2, <1>3, <2>4, ClientsStay, OneAskGoesOn
<1> QED BY <1>5, <1>6, <1>7 DEF Web!Start

\* A page answers, or its timer fires, or a navigation takes the call over.
LEMMA AnswersKeep ==
  ASSUME WebInv, NEW m \in pending, Web!Deliver(m) \/ Web!Timeout(m) \/ Web!Adopt(m)
  PROVE  WebInv'
<1>0. UNCHANGED <<approvals, kept, ready, route, on, open, change>>
  BY DEF Web!Deliver, Web!Timeout, Web!Adopt
<1>1. /\ m.c \in Web!Clients /\ (m.kind # "initialize" => m.a \in Agents)
      /\ DOMAIN ask = Agents /\ \A a \in Agents : IsAsk(ask[a])
  BY DEF WebInv, WebTyped, CallsSound, CallSound
<1>2. /\ pending' = pending \ {m}
      /\ ~ready => pending' = {}
  BY DEF Web!Deliver, Web!Timeout, Web!Adopt, WebInv, ChangeSound
<1>3. SameClients
  BY <1>1, ClientsStay, HandshakeMoves DEF Web!Deliver, Web!Timeout, Web!Adopt
<1>4. \A a \in Agents : AskStays(ask[a], ask[a]) BY DEF AskStays
<1>5. ASSUME NEW a \in Agents, NEW said, said \notin {"start", "starting"},
             ask' = [ask EXCEPT ![a].got[m.c] = said]
      PROVE  DOMAIN ask' = Agents /\ \A b \in Agents : AskStays(ask[b], ask'[b])
  <2>1. AskStays(ask[a], [ask[a] EXCEPT !.got[m.c] = said]) BY <1>1, <1>5, HearsOf
  <2>2. \A b \in Agents : b # a => ask'[b] = ask[b] BY <1>1, <1>5
  <2>3. ask'[a] = [ask[a] EXCEPT !.got[m.c] = said] BY <1>1, <1>5
  <2>4. DOMAIN ask' = Agents BY <1>1, <1>5
  <2> QED BY <2>1, <2>2, <2>3, <2>4, <1>4
<1>6. DOMAIN ask' = Agents /\ \A b \in Agents : AskStays(ask[b], ask'[b])
  <2>1. CASE m.kind = "initialize"
    <3>1. CASE ask' = [a \in Agents |-> [ask[a] EXCEPT !.got[m.c] =
                         IF @ = "starting" THEN "start" ELSE @]]
      <4>1. ASSUME NEW b \in Agents PROVE AskStays(ask[b], ask'[b])
        <5>1. ask'[b] = [ask[b] EXCEPT !.got[m.c] =
                           IF ask[b].got[m.c] = "starting" THEN "start" ELSE ask[b].got[m.c]]
          BY <3>1
        <5>2. CASE ask[b].got[m.c] = "starting"
          <6>1. ask'[b] = [ask[b] EXCEPT !.got[m.c] = "start"] BY <5>1, <5>2
          <6> QED BY <6>1, <5>2, <1>1, HearsOf
        <5>3. CASE ask[b].got[m.c] # "starting"
          <6>1. IsAsk(ask[b]) BY <1>1
          <6>2. ask'[b] = [ask[b] EXCEPT !.got[m.c] = ask[b].got[m.c]] BY <5>1, <5>3
          <6> DEFINE x == ask[b].got[m.c]
          <6>4. x \notin {"start", "starting"} \/ ask[b].got[m.c] \in {"start", "starting"}
            OBVIOUS
          <6>3. AskStays(ask[b], [ask[b] EXCEPT !.got[m.c] = x])
            BY <6>4, <1>1, HearsOf
          <6> QED BY <6>2, <6>3
        <5> QED BY <5>2, <5>3
      <4> QED BY <4>1, <3>1
    <3>2. CASE ask' = Web!Failing(m.c, {"starting"})
      <4>1. ASSUME NEW b \in Agents PROVE AskStays(ask[b], ask'[b])
        <5>1. \/ ask'[b] = [ask[b] EXCEPT !.got[m.c] = "fail"]
              \/ ask'[b] = ask[b]
          BY <3>2 DEF Web!Failing
        <5>2. AskStays(ask[b], [ask[b] EXCEPT !.got[m.c] = "fail"]) BY <1>1, HearsOf
        <5> QED BY <5>1, <5>2, <1>4
      <4> QED BY <4>1, <3>2 DEF Web!Failing
    <3> QED BY <2>1, <3>1, <3>2 DEF Web!Deliver, Web!Timeout, Web!Adopt
  <2>2. CASE m.kind # "initialize"
    <3>1. m.a \in Agents BY <2>2, <1>1
    <3>2. \/ ask' = [ask EXCEPT ![m.a].got[m.c] = "ok"]
          \/ ask' = [ask EXCEPT ![m.a].got[m.c] = "fail"]
          \/ ask' = [ask EXCEPT ![m.a].got[m.c] = "adopted"]
      BY <2>2 DEF Web!Deliver, Web!Timeout, Web!Adopt
    <3> QED BY <3>1, <3>2, <1>5
  <2> QED BY <2>1, <2>2
<1> QED BY <1>0, <1>2, <1>3, <1>6, AllAsksStay

\* An agent's request goes on without the clients.
LEMMA RequestKeeps ==
  ASSUME WebInv, NEW a \in Agents,
         \/ Web!Silent(a) \/ Web!HandleWebAgentRequest(a) \/ Web!Listed(a) \/ Web!Called(a)
         \/ Web!BrowserAnswers(a)
         \/ \E c \in Web!Clients : Web!NavigationReplies(a, c)
         \/ \E kind, name : Web!Ask(a, kind, name)
  PROVE  WebInv'
<1>0. /\ UNCHANGED <<approvals, kept, ready, route, on, open, peer, pending, change>>
      /\ IsAsk(ask[a]) /\ AskSound(a, ask[a]) /\ DOMAIN ask = Agents
  BY DEF Web!Silent, Web!HandleWebAgentRequest, Web!Listed, Web!Called, Web!BrowserAnswers,
         Web!NavigationReplies, Web!Ask, Web!clientVars, WebInv, WebTyped
<1>1. ~ready => pending' = {} BY <1>0 DEF WebInv, ChangeSound
<1>2. SameClients BY <1>0, ClientsStay
<1>3. ASSUME NEW q, IsAsk(q), AskSound(a, q), ask' = [ask EXCEPT ![a] = q] PROVE WebInv'
  BY <1>0, <1>1, <1>2, <1>3, OneAskGoesOn
<1>4. CASE Web!Silent(a) \/ Web!Listed(a) \/ Web!Called(a) \/ Web!BrowserAnswers(a)
  <2>1. ask' = [ask EXCEPT ![a] = Web!NoAsk]
    BY <1>4 DEF Web!Silent, Web!Listed, Web!Called, Web!BrowserAnswers
  <2> QED BY <2>1, <1>3, NothingAsked
<1>5. CASE Web!HandleWebAgentRequest(a)
  <2> DEFINE q == [ask[a] EXCEPT !.pc = "gather"]
  <2>1. /\ ask[a].pc = "booting" /\ ready /\ Web!OriginApproved(OriginOf[a])
        /\ ask' = [ask EXCEPT ![a] = q]
    BY <1>5 DEF Web!HandleWebAgentRequest
  <2>2. /\ DOMAIN q = DOMAIN ask[a] /\ q.pc = "gather" /\ q.cs = ask[a].cs /\ q.at = ask[a].at
        /\ q.got = ask[a].got
    BY <1>0 DEF IsAsk
  <2> HIDE DEF q
  <2>3. IsAsk(q) BY <2>2, <1>0 DEF IsAsk
  <2>4. In(approvals, OriginOf[a]) BY <2>1, Approved DEF WebInv
  <2>5. \A t \in Pages : In(on, t) /\ route[t] = a => MayAsk(a, t) BY <2>4 DEF MayAsk
  <2>6. AskSound(a, q) BY <2>1, <2>2, <2>5, <1>0 DEF AskSound
  <2> QED BY <2>1, <2>3, <2>6, <1>3
<1>6. CASE \E c \in Web!Clients : Web!NavigationReplies(a, c)
  <2>1. PICK c \in Web!Clients : Web!NavigationReplies(a, c) BY <1>6
  <2> DEFINE q == [ask[a] EXCEPT !.got[c] = "ok"]
  <2>2. ask' = [ask EXCEPT ![a] = q] BY <2>1, <1>0 DEF Web!NavigationReplies
  <2>3. AskStays(ask[a], q) BY HearsOf
  <2> HIDE DEF q
  <2> QED BY <2>2, <2>3, <1>0, <1>3, StaysSound
<1>7. CASE \E kind, name : Web!Ask(a, kind, name)
  <2>1. PICK kind, name : Web!Ask(a, kind, name) BY <1>7
  <2> DEFINE q == [Web!NoAsk EXCEPT !.pc = "booting", !.kind = kind, !.name = name]
  <2>2. ask' = [ask EXCEPT ![a] = q] BY <2>1 DEF Web!Ask
  <2>3. /\ DOMAIN q = DOMAIN Web!NoAsk /\ q.pc = "booting" /\ q.cs = Web!NoAsk.cs
        /\ q.at = Web!NoAsk.at /\ q.got = Web!NoAsk.got
    BY NothingAsked DEF IsAsk
  <2> HIDE DEF q
  <2>4. IsAsk(q) BY <2>3, NothingAsked DEF IsAsk
  <2>5. AskSound(a, q)
    <3>1. AskSound(a, Web!NoAsk) /\ q.cs = <<>> BY <2>3, NothingAsked
    <3> QED BY <2>3, <3>1 DEF AskSound
  <2> QED BY <2>2, <2>4, <2>5, <1>3
<1> QED BY <1>4, <1>5, <1>6, <1>7

\* The clients an agent's request is for are of enabled tabs that serve the agent.
LEMMA ClientsOfAgent ==
  ASSUME WebInv, NEW a \in Agents, NEW cs, cs = Web!WebAgentPageClients(a)
  PROVE  /\ cs \in Seq(Web!Clients)
         /\ \A c \in Web!Clients : In(cs, c) =>
              \E t \in Pages : peer[c].tab = t /\ In(on, t) /\ route[t] = a
         /\ \A c : c \in Web!ToSet(cs) <=> In(cs, c)
<1> DEFINE tabs == Web!WebAgentTabs(a)
           I == {i \in DOMAIN on : route[on[i]] = a}
           J == {i \in DOMAIN tabs : open[tabs[i]] # 0}
           served == Web!Subsequence(tabs, J)
<1>0. /\ on \in Seq(Pages) /\ DOMAIN on = 1..Len(on)
      /\ \A t \in Pages : /\ open[t] \in 0..MaxClients
                          /\ open[t] # 0 => peer[open[t]].tab = t
  BY DEF WebInv, WebTyped, ClientsSound
<1>1. tabs \in Seq(Pages) /\ \A m \in DOMAIN tabs : \E i \in I : tabs[m] = on[i]
  <2>1. tabs = Web!Subsequence(on, I) BY DEF Web!WebAgentTabs
  <2>2. I \in SUBSET (DOMAIN on) OBVIOUS
  <2> HIDE DEF tabs, I
  <2> QED BY <2>1, <2>2, <1>0, SelectionTakes
<1>2. served \in Seq(Pages) /\ \A m \in DOMAIN served : \E i \in J : served[m] = tabs[i]
  <2>1. J \in SUBSET (DOMAIN tabs) OBVIOUS
  <2> HIDE DEF tabs, I, J
  <2> QED BY <2>1, <1>1, SelectionTakes
<1>3. cs = [i \in DOMAIN served |-> open[served[i]]]
  BY DEF Web!WebAgentPageClients
<1> HIDE DEF served, tabs
<1>4. DOMAIN served = 1..Len(served) /\ Len(served) \in Nat BY <1>2
<1>5. ASSUME NEW i \in 1..Len(served)
      PROVE  /\ cs[i] \in Web!Clients
             /\ \E t \in Pages : peer[cs[i]].tab = t /\ In(on, t) /\ route[t] = a
  <2>1. PICK j \in J : served[i] = tabs[j] BY <1>2, <1>4
  <2>2. PICK k \in I : tabs[j] = on[k] BY <1>1, <2>1
  <2>3. /\ served[i] \in Pages /\ served[i] = on[k] /\ k \in 1..Len(on)
        /\ route[served[i]] = a /\ open[served[i]] # 0
    BY <2>1, <2>2, <1>0
  <2>4. cs[i] = open[served[i]] BY <1>3, <1>4
  <2>5. cs[i] \in Web!Clients BY <2>3, <2>4, <1>0, WebNames
  <2>6. peer[cs[i]].tab = served[i] /\ In(on, served[i]) BY <2>3, <2>4, <1>0 DEF In
  <2> QED BY <2>3, <2>5, <2>6
<1>6. cs \in Seq(Web!Clients) /\ Len(cs) = Len(served)
  <2>1. cs = [i \in 1..Len(served) |-> open[served[i]]] BY <1>3, <1>4
  <2>2. cs \in [1..Len(served) -> Web!Clients] BY <2>1, <1>5
  <2> QED BY <2>1, <2>2, <1>4
<1>7. \A c \in Web!Clients : In(cs, c) =>
        \E t \in Pages : peer[c].tab = t /\ In(on, t) /\ route[t] = a
  BY <1>5, <1>6 DEF In
<1>8. \A c : c \in Web!ToSet(cs) <=> In(cs, c)
  <2>1. DOMAIN cs = 1..Len(cs) BY <1>6
  <2> QED BY <2>1 DEF Web!ToSet, In
<1> QED BY <1>6, <1>7, <1>8

\* A listing asks every client of the agent.
LEMMA ListingKeeps ==
  ASSUME WebInv, NEW a \in Agents, Web!GatherList(a) PROVE WebInv'
<1> DEFINE cs == Web!WebAgentPageClients(a)
           got == [c \in Web!Clients |-> IF c \in Web!ToSet(cs) THEN "start" ELSE "none"]
           q == [ask[a] EXCEPT !.pc = "listing", !.cs = cs, !.got = got]
<1>0. /\ UNCHANGED <<approvals, kept, ready, route, on, open, pending, change>>
      /\ IsAsk(ask[a]) /\ AskSound(a, ask[a]) /\ DOMAIN ask = Agents
      /\ ask[a].pc = "gather" /\ Web!AssignLabels(cs)
  BY DEF Web!GatherList, WebInv, WebTyped
<1>1. ask' = [ask EXCEPT ![a] = q] BY <1>0 DEF Web!GatherList
<1>2. /\ cs \in Seq(Web!Clients)
      /\ \A c \in Web!Clients : In(cs, c) => peer[c].tab \in Pages
      /\ \A c : c \in Web!ToSet(cs) <=> In(cs, c)
  <2> HIDE DEF cs
  <2>1. /\ cs \in Seq(Web!Clients)
        /\ \A c \in Web!Clients : In(cs, c) =>
             \E t \in Pages : peer[c].tab = t /\ In(on, t) /\ route[t] = a
        /\ \A c : c \in Web!ToSet(cs) <=> In(cs, c)
    BY ClientsOfAgent DEF cs
  <2> QED BY <2>1
<1>3. SameClients BY <1>0, LabelsMove
<1> HIDE DEF cs
<1>4. /\ DOMAIN got = Web!Clients
      /\ \A c \in Web!Clients : got[c] \in {"start", "starting"} => In(cs, c)
  BY <1>2
<1> HIDE DEF got
<1>5. /\ DOMAIN q = DOMAIN ask[a] /\ q.pc = "listing" /\ q.cs = cs /\ q.at = ask[a].at
      /\ q.got = got
  BY <1>0 DEF IsAsk
<1> HIDE DEF q
<1>6. ready /\ ask[a].at = 0
  <2>1. ask[a].cs = <<>> BY <1>0 DEF AskSound
  <2> QED BY <2>1, <1>0 DEF AskSound, IsAsk
<1>7. IsAsk(q)
  <2>1. 0 \in 0..Len(cs) BY <1>2
  <2> QED BY <2>1, <1>0, <1>2, <1>4, <1>5, <1>6 DEF IsAsk
<1>8. AskSound(a, q) BY <1>2, <1>4, <1>5, <1>6 DEF AskSound
<1> QED BY <1>0, <1>1, <1>3, <1>6, <1>7, <1>8, OneAskGoesOn

\* A call goes to the first client its name fits, or asks the clients one by one.
LEMMA CallingKeeps ==
  ASSUME WebInv, NEW a \in Agents, Web!GatherCall(a) PROVE WebInv'
<1> DEFINE cs == Web!WebAgentPageClients(a)
           hits == {i \in DOMAIN cs : Web!LabelOf(cs, i) = ask[a].name
                                      /\ TitleOf[peer[cs[i]].tab] \notin Clamped}
           d == cs[CHOOSE i \in hits : TRUE]
           q == [ask[a] EXCEPT !.pc = "calling", !.cs = <<d>>, !.at = 1, !.got[d] = "start"]
           p == [ask[a] EXCEPT !.pc = "probing", !.cs = cs, !.at = 0]
<1>0. /\ UNCHANGED <<approvals, kept, ready, route, on, open, pending, change>>
      /\ IsAsk(ask[a]) /\ AskSound(a, ask[a]) /\ DOMAIN ask = Agents
      /\ ask[a].pc = "gather" /\ Web!AssignLabels(cs)
  BY DEF Web!GatherCall, WebInv, WebTyped
<1>1. \/ hits # {} /\ ask' = [ask EXCEPT ![a] = q]
      \/ hits = {} /\ ask' = [ask EXCEPT ![a] = p]
  BY <1>0 DEF Web!GatherCall
<1>2. /\ cs \in Seq(Web!Clients) /\ DOMAIN cs = 1..Len(cs)
      /\ \A c \in Web!Clients : In(cs, c) =>
           \E t \in Pages : peer[c].tab = t /\ In(on, t) /\ route[t] = a
  <2> HIDE DEF cs
  <2>1. /\ cs \in Seq(Web!Clients)
        /\ \A c \in Web!Clients : In(cs, c) =>
             \E t \in Pages : peer[c].tab = t /\ In(on, t) /\ route[t] = a
    BY ClientsOfAgent DEF cs
  <2> QED BY <2>1
<1>3. SameClients BY <1>0, LabelsMove
<1>4. hits # {} => \E i \in 1..Len(cs) : d = cs[i] BY <1>2
<1> HIDE DEF cs
<1> HIDE DEF hits, d
<1>5. \A t \in Pages : In(on, t) /\ route[t] = a => MayAsk(a, t) BY <1>0 DEF AskSound
<1>6. \A c \in Web!Clients : In(cs, c) =>
        /\ peer[c].tab \in Pages /\ \A t \in Pages : peer[c].tab = t => MayAsk(a, t)
  BY <1>2, <1>5
<1>7. /\ ready /\ ask[a].cs = <<>> /\ Len(ask[a].cs) = 0
      /\ \A c \in Web!Clients : ask[a].got[c] \notin {"start", "starting"}
  <2>1. ready /\ ask[a].cs = <<>> BY <1>0 DEF AskSound
  <2>2. \A c : ~In(ask[a].cs, c) BY <2>1 DEF In
  <2> QED BY <2>1, <2>2, <1>0 DEF AskSound
<1>8. CASE hits # {} /\ ask' = [ask EXCEPT ![a] = q]
  <2>1. d \in Web!Clients /\ In(cs, d) BY <1>8, <1>4, <1>2 DEF In
  <2>2. /\ DOMAIN q = DOMAIN ask[a] /\ q.pc = "calling" /\ q.cs = <<d>> /\ q.at = 1
        /\ q.got = [ask[a].got EXCEPT ![d] = "start"]
    BY <1>0 DEF IsAsk
  <2> HIDE DEF q
  <2>3. IsAsk(q)
    <3>1. <<d>> \in Seq(Web!Clients) /\ Len(<<d>>) = 1 BY <2>1
    <3> QED BY <3>1, <2>2, <1>0 DEF IsAsk
  <2>4. \A c \in Web!Clients : /\ In(q.cs, c) <=> c = d
                               /\ q.got[c] \in {"start", "starting"} => c = d
    BY <2>2, <1>0, <1>7 DEF In, IsAsk
  <2>5. AskSound(a, q)
    BY <2>1, <2>2, <2>4, <1>6, <1>7 DEF AskSound
  <2> QED BY <1>8, <2>3, <2>5, <1>0, <1>3, <1>7, OneAskGoesOn
<1>9. CASE hits = {} /\ ask' = [ask EXCEPT ![a] = p]
  <2>2. /\ DOMAIN p = DOMAIN ask[a] /\ p.pc = "probing" /\ p.cs = cs /\ p.at = 0
        /\ p.got = ask[a].got
    BY <1>0 DEF IsAsk
  <2> HIDE DEF p
  <2>3. IsAsk(p)
    <3>1. 0 \in 0..Len(cs) BY <1>2
    <3> QED BY <3>1, <2>2, <1>0, <1>2 DEF IsAsk
  <2>5. AskSound(a, p)
    BY <2>2, <1>6, <1>7 DEF AskSound
  <2> QED BY <1>9, <2>3, <2>5, <1>0, <1>3, <1>7, OneAskGoesOn
<1> QED BY <1>1, <1>8, <1>9

\* A call asks the next client for its names, calls the one that has the name, or turns to
\* the browser toolset.
LEMMA ProbingKeeps ==
  ASSUME WebInv, NEW a \in Agents, Web!Probe(a) PROVE WebInv'
<1> DEFINE i == ask[a].at
           cs == ask[a].cs
           p == [ask[a] EXCEPT !.pc = "calling", !.got[cs[i]] = "start"]
           q == [ask[a] EXCEPT !.at = i + 1, !.got[cs[i + 1]] = "start"]
           r == [ask[a] EXCEPT !.pc = "browser"]
<1>0. /\ UNCHANGED <<approvals, kept, ready, route, on, open, peer, pending, change>>
      /\ IsAsk(ask[a]) /\ AskSound(a, ask[a]) /\ DOMAIN ask = Agents
      /\ ask[a].pc = "probing"
  BY DEF Web!Probe, WebInv, WebTyped, Web!clientVars
<1>1. \/ i # 0 /\ ask' = [ask EXCEPT ![a] = p]
      \/ i < Len(cs) /\ ask' = [ask EXCEPT ![a] = q]
      \/ ask' = [ask EXCEPT ![a] = r]
  BY DEF Web!Probe
<1>2. /\ cs \in Seq(Web!Clients) /\ i \in 0..Len(cs) /\ Len(cs) \in Nat
      /\ \A j \in 1..Len(cs) : cs[j] \in Web!Clients /\ In(cs, cs[j])
  BY <1>0 DEF IsAsk, In
<1>3. SameClients BY <1>0, ClientsStay
<1>4. ready /\ \A m \in pending' : m \in pending BY <1>0 DEF AskSound
<1>5. ASSUME i # 0, ask' = [ask EXCEPT ![a] = p] PROVE WebInv'
  <2>1. cs[i] \in Web!Clients /\ In(cs, cs[i]) BY <1>2, <1>5
  <2>2. /\ DOMAIN p = DOMAIN ask[a] /\ p.pc = "calling" /\ p.cs = cs /\ p.at = i
        /\ p.got = [ask[a].got EXCEPT ![cs[i]] = "start"]
    BY <1>0 DEF IsAsk
  <2> HIDE DEF p
  <2>3. IsAsk(p) BY <2>2, <1>0 DEF IsAsk
  <2>4. \A c \in Web!Clients : p.got[c] \in {"start", "starting"} => In(p.cs, c)
    BY <2>1, <2>2, <1>0 DEF AskSound, IsAsk
  <2>5. AskSound(a, p) BY <2>2, <2>4, <1>0, <1>4 DEF AskSound
  <2> QED BY <1>5, <2>3, <2>5, <1>0, <1>3, <1>4, OneAskGoesOn
<1>6. ASSUME i < Len(cs), ask' = [ask EXCEPT ![a] = q] PROVE WebInv'
  <2>0. i + 1 \in 1..Len(cs) BY <1>2, <1>6
  <2>1. cs[i + 1] \in Web!Clients /\ In(cs, cs[i + 1]) BY <1>2, <2>0
  <2>2. /\ DOMAIN q = DOMAIN ask[a] /\ q.pc = "probing" /\ q.cs = cs /\ q.at = i + 1
        /\ q.got = [ask[a].got EXCEPT ![cs[i + 1]] = "start"]
    BY <1>0 DEF IsAsk
  <2> HIDE DEF q
  <2>3. IsAsk(q) BY <2>0, <2>2, <1>0, <1>2 DEF IsAsk
  <2>4. \A c \in Web!Clients : q.got[c] \in {"start", "starting"} => In(q.cs, c)
    BY <2>1, <2>2, <1>0 DEF AskSound, IsAsk
  <2>5. AskSound(a, q) BY <2>2, <2>4, <1>0, <1>4 DEF AskSound
  <2> QED BY <1>6, <2>3, <2>5, <1>0, <1>3, <1>4, OneAskGoesOn
<1>7. ASSUME ask' = [ask EXCEPT ![a] = r] PROVE WebInv'
  <2>2. /\ DOMAIN r = DOMAIN ask[a] /\ r.pc = "browser" /\ r.cs = cs /\ r.at = i
        /\ r.got = ask[a].got
    BY <1>0 DEF IsAsk
  <2> HIDE DEF r
  <2>3. IsAsk(r) BY <2>2, <1>0 DEF IsAsk
  <2>5. AskSound(a, r) BY <2>2, <1>0, <1>4 DEF AskSound
  <2> QED BY <1>7, <2>3, <2>5, <1>0, <1>3, <1>4, OneAskGoesOn
<1> QED BY <1>1, <1>5, <1>6, <1>7

\* The client of a tab is closed: whoever waits for it fails.
LEMMA ClientCloses ==
  ASSUME WebInv, NEW t \in Pages, Web!CloseAllPageClients(t)
  PROVE  /\ ClientsSound'
         /\ \A c \in Web!Clients : /\ peer'[c].tab = peer[c].tab
                                   /\ peer[c].closed => peer'[c].closed
                                   /\ peer[c].tab = t => peer'[c].closed
         /\ \A m \in pending' : m \in pending /\ (m.kind = "call" => ~peer'[m.c].closed)
         /\ DOMAIN ask' = Agents
         /\ \A a \in Agents : IsAsk(ask'[a]) /\ AskStays(ask[a], ask'[a])
<1> DEFINE cs == {open[t]} \ {0}
<1>0. ClientsSound /\ \A a \in Agents : IsAsk(ask[a]) BY DEF WebInv, WebTyped
<1>1. /\ peer' = [c \in Web!Clients |-> IF c \in cs
                    THEN [peer[c] EXCEPT !.closed = TRUE, !.start = "none"] ELSE peer[c]]
      /\ pending' = {m \in pending : m.c \notin cs}
      /\ ask' = [a \in Agents |-> [ask[a] EXCEPT !.got = [c \in Web!Clients |->
                   IF c \in cs /\ ask[a].got[c] \in {"starting", "asked"} THEN "fail"
                   ELSE ask[a].got[c]]]]
      /\ open' = [u \in Pages |-> IF open[u] \in cs THEN 0 ELSE open[u]]
  BY DEF Web!CloseAllPageClients, Web!CloseClients
<1>2. \A c \in Web!Clients : c \in cs <=> open[t] = c BY WebNames
<1>3. ASSUME NEW c \in Web!Clients
      PROVE  /\ IsClient(peer'[c]) /\ peer'[c].tab = peer[c].tab
             /\ peer'[c].closed <=> peer[c].closed \/ open[t] = c
  <2>1. IsClient(peer[c]) BY <1>0 DEF ClientsSound
  <2>2. CASE open[t] = c
    <3>1. peer'[c] = [peer[c] EXCEPT !.closed = TRUE, !.start = "none"] BY <1>1, <1>2, <2>2
    <3> QED BY <3>1, <2>1, <2>2 DEF IsClient
  <2>3. CASE open[t] # c
    <3>1. peer'[c] = peer[c] BY <1>1, <1>2, <2>3
    <3> QED BY <3>1, <2>1, <2>3 DEF IsClient
  <2> QED BY <2>2, <2>3
<1>4. ASSUME NEW u \in Pages
      PROVE  open'[u] = IF u = t THEN 0 ELSE open[u]
  <2>1. open'[u] = IF open[u] \in cs THEN 0 ELSE open[u] BY <1>1
  <2>2. CASE u = t BY <2>1, <2>2
  <2>3. CASE u # t
    <3>1. open[u] # 0 /\ open[u] = open[t] => FALSE BY <1>0, <2>3 DEF ClientsSound
    <3> QED BY <2>1, <2>3, <3>1
  <2> QED BY <2>2, <2>3
<1>5. \A c \in Web!Clients : peer[c].tab = t => peer'[c].closed
  BY <1>0, <1>3, WebNames DEF ClientsSound
<1>6. ClientsSound'
  <2>1. DOMAIN peer' = Web!Clients /\ DOMAIN open' = Pages BY <1>1
  <2>2. \A u \in Pages : open'[u] \in 0..MaxClients BY <1>0, <1>4, WebNames DEF ClientsSound
  <2>3. \E n \in Nat : \A c \in Web!Clients : peer'[c].tab # Nobody <=> c <= n
    BY <1>0, <1>3 DEF ClientsSound
  <2>4. ASSUME NEW c \in Web!Clients
        PROVE  /\ peer'[c].tab \in Pages \cup {Nobody}
               /\ peer'[c].tab = Nobody => ~peer'[c].closed
               /\ peer'[c].tab # Nobody /\ ~peer'[c].closed => open'[peer'[c].tab] = c
    <3>1. /\ peer[c].tab \in Pages \cup {Nobody}
          /\ peer[c].tab = Nobody => ~peer[c].closed
          /\ peer[c].tab # Nobody /\ ~peer[c].closed => open[peer[c].tab] = c
      BY <1>0 DEF ClientsSound
    <3>2. open[t] = c => peer[c].tab = t
      BY <1>0, WebNames DEF ClientsSound
    <3>3. peer'[c].tab = Nobody => ~peer'[c].closed BY <3>1, <3>2, <1>3, WebNames
    <3>4. ASSUME peer'[c].tab # Nobody, ~peer'[c].closed PROVE open'[peer'[c].tab] = c
      <4>1. peer[c].tab \in Pages /\ open[peer[c].tab] = c /\ peer[c].tab # t
        BY <3>1, <3>4, <1>3, <1>5
      <4> QED BY <4>1, <1>3, <1>4
    <3> QED BY <3>1, <3>3, <3>4, <1>3
  <2>5. ASSUME NEW u \in Pages, open'[u] # 0
        PROVE peer'[open'[u]].tab = u /\ ~peer'[open'[u]].closed
    <3>1. u # t /\ open'[u] = open[u] BY <2>5, <1>4
    <3>2. /\ open[u] \in Web!Clients /\ peer[open[u]].tab = u /\ ~peer[open[u]].closed
      BY <1>0, <2>5, <3>1, WebNames DEF ClientsSound
    <3>3. open[t] # open[u] BY <1>0, <3>1, <3>2, WebNames DEF ClientsSound
    <3> QED BY <3>1, <3>2, <3>3, <1>3
  <2>6. \A c \in Web!Clients : IsClient(peer'[c]) BY <1>3
  <2> QED BY <2>1, <2>2, <2>3, <2>4, <2>5, <2>6 DEF ClientsSound
<1>7. ASSUME NEW m \in pending'
      PROVE  m \in pending /\ (m.kind = "call" => ~peer'[m.c].closed)
  <2>1. m \in pending /\ m.c \notin cs BY <1>1
  <2>2. CallSound(m) BY <2>1 DEF WebInv, CallsSound
  <2> QED BY <2>1, <2>2, <1>2, <1>3 DEF CallSound
<1>8. ASSUME NEW a \in Agents PROVE IsAsk(ask'[a]) /\ AskStays(ask[a], ask'[a])
  <2> DEFINE g == [c \in Web!Clients |->
                   IF c \in cs /\ ask[a].got[c] \in {"starting", "asked"} THEN "fail"
                   ELSE ask[a].got[c]]
  <2>1. ask'[a] = [ask[a] EXCEPT !.got = g] BY <1>1
  <2>2. DOMAIN g = Web!Clients /\ \A c \in Web!Clients : g[c] \in {"start", "starting"} =>
                                    ask[a].got[c] \in {"start", "starting"}
    OBVIOUS
  <2> HIDE DEF g
  <2>3. IsAsk(ask[a]) BY <1>0
  <2>4. /\ DOMAIN ask'[a] = DOMAIN ask[a] /\ ask'[a].pc = ask[a].pc /\ ask'[a].cs = ask[a].cs
        /\ ask'[a].at = ask[a].at /\ ask'[a].got = g
    BY <2>1, <2>3 DEF IsAsk
  <2> QED BY <2>2, <2>3, <2>4 DEF IsAsk, AskStays
<1>9. DOMAIN ask' = Agents BY <1>1
<1> QED BY <1>3, <1>5, <1>6, <1>7, <1>8, <1>9

\* A page goes.
LEMMA PageGoesKeeps ==
  ASSUME WebInv, NEW t \in Pages, Web!PageGoes(t) PROVE WebInv'
<1>0. /\ UNCHANGED <<approvals, kept, ready, route, on, change>>
      /\ Web!CloseAllPageClients(t)
  BY DEF Web!PageGoes
<1>1. /\ ClientsSound'
      /\ \A c \in Web!Clients : /\ peer'[c].tab = peer[c].tab
                                /\ peer[c].closed => peer'[c].closed
      /\ \A m \in pending' : m \in pending /\ (m.kind = "call" => ~peer'[m.c].closed)
      /\ DOMAIN ask' = Agents
      /\ \A a \in Agents : IsAsk(ask'[a]) /\ AskStays(ask[a], ask'[a])
  BY <1>0, ClientCloses
<1>2. WebTyped' BY <1>0, <1>1 DEF WebInv, WebTyped, OriginsTyped
<1>3. \A a, u : MayAsk(a, u)' <=> MayAsk(a, u) BY <1>0 DEF MayAsk
<1>4. ChangeSound'
  <2>1. pending' \subseteq pending BY <1>1
  <2>2. ChangeSound BY DEF WebInv
  <2> QED BY <2>1, <2>2, <1>0 DEF ChangeSound
<1>5. \A a \in Agents, c \in Web!Clients, u \in Pages :
        (peer[c].tab = u /\ ~peer'[c].closed /\ MayAsk(a, u)) => MayAsk(a, u)'
  BY <1>3
<1>6. \A a \in Agents, u \in Pages :
        ( /\ \A v \in Pages : In(on, v) /\ route[v] = a => MayAsk(a, v)
          /\ In(on', u) /\ route'[u] = a ) => MayAsk(a, u)'
  BY <1>3, <1>0
<1>7. ready' = ready BY <1>0
<1> QED BY <1>1, <1>2, <1>4, <1>5, <1>6, <1>7, ChoicesMove

\* The old consumer of a tab loses the page, whose new agent's site is connected.
LEMMA TeardownKeeps ==
  ASSUME WebInv, Web!TeardownRoute PROVE WebInv'
<1>t. PICK t \in Pages : t = change.tab
  BY DEF Web!TeardownRoute, WebInv, ChangeSound
<1>0. /\ UNCHANGED <<approvals, kept, ready, route, on>> /\ change.kind = "route"
      /\ IsChange(change) /\ change' = [change EXCEPT !.kind = "enable"]
      /\ route[t] \in Agents /\ In(approvals, OriginOf[route[t]]) /\ ready
      /\ Web!CloseAllPageClients(t)
  BY <1>t DEF Web!TeardownRoute, WebInv, WebTyped, ChangeSound, Web!Steady
<1>1. /\ ClientsSound'
      /\ \A c \in Web!Clients : /\ peer'[c].tab = peer[c].tab
                                /\ peer[c].closed => peer'[c].closed
                                /\ peer[c].tab = t => peer'[c].closed
      /\ \A m \in pending' : m \in pending /\ (m.kind = "call" => ~peer'[m.c].closed)
      /\ DOMAIN ask' = Agents
      /\ \A a \in Agents : IsAsk(ask'[a]) /\ AskStays(ask[a], ask'[a])
  BY <1>0, ClientCloses
<1>a. /\ IsChange(change') /\ change'.kind = "enable" /\ change'.tab = t
      /\ change'.todo = change.todo
  BY <1>0, <1>t DEF IsChange
<1>2. WebTyped' BY <1>0, <1>1, <1>a DEF WebInv, WebTyped, OriginsTyped
<1>3. \A a \in Agents, u \in Pages : MayAsk(a, u) /\ u # t => MayAsk(a, u)'
  BY <1>0, <1>a, <1>t DEF MayAsk
<1>4. ChangeSound'
  BY <1>0, <1>a DEF ChangeSound
<1>5. \A a \in Agents, c \in Web!Clients, u \in Pages :
        (peer[c].tab = u /\ ~peer'[c].closed /\ MayAsk(a, u)) => MayAsk(a, u)'
  BY <1>1, <1>3
<1>6. \A a \in Agents, u \in Pages :
        ( /\ \A v \in Pages : In(on, v) /\ route[v] = a => MayAsk(a, v)
          /\ In(on', u) /\ route'[u] = a ) => MayAsk(a, u)'
  <2>1. \A a \in Agents : route'[t] = a => MayAsk(a, t)'
    <3>1. In(approvals, OriginOf[route[t]])' BY <1>0
    <3> QED BY <3>1 DEF MayAsk
  <2>2. route' = route /\ on' = on BY <1>0
  <2> QED BY <1>3, <2>1, <2>2
<1>7. ready' = ready BY <1>0
<1> QED BY <1>1, <1>2, <1>4, <1>5, <1>6, <1>7, ChoicesMove

\* A tab that is disconnected, and out of the list, loses its client.
LEMMA StoppedKeeps ==
  ASSUME WebInv, Web!StoppedServing PROVE WebInv'
<1>t. PICK t \in Pages : t = change.tab
  BY DEF Web!StoppedServing, WebInv, ChangeSound
<1>0. /\ UNCHANGED <<approvals, kept, ready, route, on>> /\ change.kind = "disconnect"
      /\ IsChange(change)
      /\ change' = [change EXCEPT !.tab = Nobody, !.todo = @ \ {t}]
      /\ ~In(on, t) /\ ready
      /\ Web!CloseAllPageClients(t)
  BY <1>t DEF Web!StoppedServing, WebInv, WebTyped, ChangeSound, Web!Steady
<1>b. \A a \in Agents, u \in Pages :
        MayAsk(a, u) => (route[u] = a /\ In(approvals, OriginOf[a])) \/ u \in change.todo
  BY <1>0 DEF MayAsk
<1>1. /\ ClientsSound'
      /\ \A c \in Web!Clients : /\ peer'[c].tab = peer[c].tab
                                /\ peer[c].closed => peer'[c].closed
                                /\ peer[c].tab = t => peer'[c].closed
      /\ \A m \in pending' : m \in pending /\ (m.kind = "call" => ~peer'[m.c].closed)
      /\ DOMAIN ask' = Agents
      /\ \A a \in Agents : IsAsk(ask'[a]) /\ AskStays(ask[a], ask'[a])
  BY <1>0, ClientCloses
<1>a. /\ IsChange(change') /\ change'.kind = "disconnect" /\ change'.tab = Nobody
      /\ change'.todo = change.todo \ {t}
  BY <1>0 DEF IsChange
<1>2. WebTyped' BY <1>0, <1>1, <1>a DEF WebInv, WebTyped, OriginsTyped
<1>3. \A a \in Agents, u \in Pages : MayAsk(a, u) /\ u # t => MayAsk(a, u)'
  BY <1>0, <1>a, <1>b DEF MayAsk
<1>4. ChangeSound'
  BY <1>0, <1>a DEF ChangeSound
<1>5. \A a \in Agents, c \in Web!Clients, u \in Pages :
        (peer[c].tab = u /\ ~peer'[c].closed /\ MayAsk(a, u)) => MayAsk(a, u)'
  BY <1>1, <1>3
<1>6. \A a \in Agents, u \in Pages :
        ( /\ \A v \in Pages : In(on, v) /\ route[v] = a => MayAsk(a, v)
          /\ In(on', u) /\ route'[u] = a ) => MayAsk(a, u)'
  BY <1>3, <1>0
<1>7. ready' = ready BY <1>0
<1> QED BY <1>1, <1>2, <1>4, <1>5, <1>6, <1>7, ChoicesMove

\* A step in which only routes, approvals and enabled tabs change.
LEMMA OnlyChoicesMove ==
  ASSUME WebInv, UNCHANGED <<open, peer, pending, ask, ready>>, WebTyped', ChangeSound',
         \A a \in Agents, u \in Pages : MayAsk(a, u) => MayAsk(a, u)',
         \A a \in Agents, u \in Pages :
           ( /\ \A v \in Pages : In(on, v) /\ route[v] = a => MayAsk(a, v)
             /\ In(on', u) /\ route'[u] = a ) => MayAsk(a, u)'
  PROVE  WebInv'
<1>1. ClientsSound'
  <2>1. ClientsSound BY DEF WebInv
  <2> QED BY <2>1 DEF ClientsSound
<1>2. ASSUME NEW m \in pending' PROVE m \in pending /\ (m.kind = "call" => ~peer'[m.c].closed)
  BY DEF WebInv, CallsSound, CallSound
<1>3. \A a \in Agents : AskStays(ask[a], ask'[a]) BY DEF AskStays
<1> QED BY <1>1, <1>2, <1>3, ChoicesMove

\* A site is connected, and none forgotten.
LEMMA ApprovalKeeps ==
  ASSUME IsFiniteSet(Web!Origins), Cardinality(Web!Origins) <= MaxOrigins,
         WebInv, NEW o \in Web!Origins, Web!Connect(o)
  PROVE  WebInv'
<1>0. /\ UNCHANGED <<ready, route, on, open, peer, pending, ask, change>>
      /\ approvals' = Web!AddOrigin(approvals, o) /\ kept' = approvals'
      /\ change = Web!Steady /\ OriginsTyped
  BY DEF Web!Connect, Web!clientVars, WebInv, WebTyped
<1>1. /\ approvals' \in Seq(Web!Origins) /\ NoneTwice(approvals')
      /\ \A x : In(approvals, x) => In(approvals', x)
  BY <1>0, WithOneMore DEF OriginsTyped
<1>2. WebTyped' BY <1>0, <1>1 DEF WebInv, WebTyped, OriginsTyped
<1>3. \A a \in Agents, u \in Pages : MayAsk(a, u) => MayAsk(a, u)'
  BY <1>0, <1>1 DEF MayAsk
<1>4. ChangeSound' BY <1>0 DEF WebInv, ChangeSound, Web!Steady
<1> QED BY <1>0, <1>2, <1>3, <1>4, OnlyChoicesMove

\* A site is disconnected: the tabs that serve it are to be torn down.
LEMMA DisconnectKeeps ==
  ASSUME WebInv, NEW o, Web!Disconnect(o)
  PROVE  WebInv'
<1> DEFINE ts == {t \in Pages : route[t] # Nobody /\ OriginOf[route[t]] = o}
           x == [kind |-> "disconnect", tab |-> Nobody, origin |-> o, todo |-> ts]
<1>0. /\ UNCHANGED <<ready, route, on, open, peer, pending, ask>>
      /\ approvals' = Web!RemoveOrigin(approvals, o) /\ kept' = approvals'
      /\ change = Web!Steady /\ OriginsTyped /\ change' = x /\ ready
  BY DEF Web!Disconnect, Web!clientVars, WebInv, WebTyped
<1>1. /\ approvals' \in Seq(Web!Origins) /\ NoneTwice(approvals')
      /\ \A y : In(approvals', y) <=> In(approvals, y) /\ y # o
  BY <1>0, WithoutOne DEF OriginsTyped
<1>2. /\ x.kind = "disconnect" /\ x.tab = Nobody /\ x.todo = ts /\ IsChange(x)
  BY DEF IsChange
<1> HIDE DEF x
<1>3. WebTyped' BY <1>0, <1>1, <1>2 DEF WebInv, WebTyped, OriginsTyped
<1>4. ASSUME NEW a \in Agents, NEW u \in Pages, MayAsk(a, u) PROVE MayAsk(a, u)'
  <2>1. route[u] = a /\ In(approvals, OriginOf[a])
    BY <1>0, <1>4 DEF MayAsk, Web!Steady
  <2>2. CASE OriginOf[a] = o
    <3>1. u \in ts BY <2>1, <2>2, WebNames
    <3> QED BY <3>1, <1>0, <1>2 DEF MayAsk
  <2>3. CASE OriginOf[a] # o
    <3>1. In(approvals', OriginOf[a]) BY <2>1, <2>3, <1>1
    <3> QED BY <3>1, <2>1, <1>0 DEF MayAsk
  <2> QED BY <2>2, <2>3
<1>5. ChangeSound' BY <1>0, <1>2 DEF ChangeSound
<1> QED BY <1>0, <1>3, <1>4, <1>5, OnlyChoicesMove

\* A tab gets another agent, is enabled, or taken out of the list.
LEMMA RouteKeeps ==
  ASSUME WebInv, NEW t \in Pages, NEW a \in Agents, Web!SetTabRoute(t, a)
  PROVE  WebInv'
<1> DEFINE x == [Web!Steady EXCEPT !.kind = "route", !.tab = t]
<1>0. /\ UNCHANGED <<approvals, kept, ready, on, open, peer, pending, ask>>
      /\ change = Web!Steady /\ change' = x /\ ready /\ Web!OriginApproved(OriginOf[a])
      /\ route' = [route EXCEPT ![t] = a] /\ DOMAIN route = Pages
  BY DEF Web!SetTabRoute, Web!clientVars, WebInv, WebTyped
<1>1. x.kind = "route" /\ x.tab = t /\ x.todo = {} /\ IsChange(x)
  BY DEF Web!Steady, IsChange
<1> HIDE DEF x
<1>2. In(approvals, OriginOf[a]) BY <1>0, Approved DEF WebInv
<1>3. WebTyped' BY <1>0, <1>1 DEF WebInv, WebTyped, OriginsTyped
<1>4. ASSUME NEW b \in Agents, NEW u \in Pages, MayAsk(b, u) PROVE MayAsk(b, u)'
  <2>1. CASE u = t BY <2>1, <1>0, <1>1 DEF MayAsk
  <2>2. CASE u # t
    <3>1. route[u] = b /\ In(approvals, OriginOf[b])
      BY <1>0, <1>4 DEF MayAsk, Web!Steady
    <3>2. route'[u] = b BY <3>1, <2>2, <1>0
    <3> QED BY <3>1, <3>2, <1>0 DEF MayAsk
  <2> QED BY <2>1, <2>2
<1>5. ASSUME NEW b \in Agents, NEW u \in Pages, In(on', u), route'[u] = b,
             \A v \in Pages : In(on, v) /\ route[v] = b => MayAsk(b, v)
      PROVE MayAsk(b, u)'
  <2>1. CASE u = t BY <2>1, <1>0, <1>1 DEF MayAsk
  <2>2. CASE u # t
    <3>1. route[u] = b /\ In(on, u) BY <1>5, <2>2, <1>0
    <3> QED BY <3>1, <1>4, <1>5
  <2> QED BY <2>1, <2>2
<1>6. ChangeSound'
  <2>1. route'[t] = a BY <1>0
  <2> QED BY <2>1, <1>0, <1>1, <1>2 DEF ChangeSound
<1> QED BY <1>0, <1>3, <1>4, <1>5, <1>6, OnlyChoicesMove

\* ... is enabled,
LEMMA EnableKeeps ==
  ASSUME WebInv, Web!EnableTab
  PROVE  WebInv'
<1>t. PICK t \in Pages : t = change.tab
  BY DEF Web!EnableTab, WebInv, ChangeSound
<1>0. /\ UNCHANGED <<approvals, kept, ready, route, open, peer, pending, ask>>
      /\ change.kind = "enable" /\ change' = Web!Steady /\ ready
      /\ on' = (IF t \in Web!ToSet(on) THEN on ELSE Append(on, t)) /\ on \in Seq(Pages)
      /\ route[t] \in Agents /\ In(approvals, OriginOf[route[t]])
  BY <1>t DEF Web!EnableTab, Web!clientVars, WebInv, WebTyped, ChangeSound, Web!Steady
<1>1. on' \in Seq(Pages) /\ \A u : In(on', u) => In(on, u) \/ u = t
  <2>1. CASE on' = on BY <2>1, <1>0
  <2>2. CASE on' = Append(on, t)
    <3>0. /\ Append(on, t) \in Seq(Pages) /\ Len(Append(on, t)) = Len(on) + 1
          /\ \A i \in 1..Len(on) : Append(on, t)[i] = on[i]
          /\ Append(on, t)[Len(on) + 1] = t /\ Len(on) \in Nat
      BY <1>0
    <3>1. /\ Len(on) \in Nat /\ Len(on') = Len(on) + 1 /\ on' \in Seq(Pages)
          /\ \A i \in 1..Len(on) : on'[i] = on[i]
          /\ on'[Len(on) + 1] = t
      BY <2>2, <3>0
    <3>2. \A i \in 1..(Len(on) + 1) : i \in 1..Len(on) \/ i = Len(on) + 1 BY <3>1
    <3> QED BY <3>1, <3>2 DEF In
  <2> QED BY <2>1, <2>2, <1>0
<1>2. Web!Steady.kind = "none" /\ Web!Steady.tab = Nobody /\ IsChange(Web!Steady)
  BY DEF Web!Steady, IsChange
<1>3. WebTyped' BY <1>0, <1>1, <1>2 DEF WebInv, WebTyped, OriginsTyped
<1>4. \A b \in Agents, u \in Pages : MayAsk(b, u) => MayAsk(b, u)'
  BY <1>0 DEF MayAsk
<1>5. ASSUME NEW b \in Agents, NEW u \in Pages, In(on', u), route'[u] = b,
             \A v \in Pages : In(on, v) /\ route[v] = b => MayAsk(b, v)
      PROVE MayAsk(b, u)'
  <2>1. CASE u = t
    <3>1. route[u] = b /\ In(approvals, OriginOf[b]) BY <2>1, <1>0, <1>5
    <3> QED BY <3>1, <1>0 DEF MayAsk
  <2>2. CASE u # t BY <2>2, <1>0, <1>1, <1>4, <1>5
  <2> QED BY <2>1, <2>2
<1>6. ChangeSound' BY <1>0, <1>2 DEF ChangeSound
<1> QED BY <1>0, <1>3, <1>4, <1>5, <1>6, OnlyChoicesMove

\* ... is taken out of the list, or a disconnection is over.
LEMMA StoppingKeeps ==
  ASSUME WebInv, Web!Disconnected \/ \E t \in Pages : Web!StopServing(t)
  PROVE  WebInv'
<1>0. /\ UNCHANGED <<approvals, kept, ready, route, open, peer, pending, ask>>
      /\ change.kind = "disconnect" /\ on \in Seq(Pages) /\ IsChange(change) /\ ready
  <2>1. /\ UNCHANGED <<approvals, kept, ready, route, open, peer, pending, ask>>
        /\ change.kind = "disconnect"
    BY DEF Web!Disconnected, Web!StopServing, Web!clientVars
  <2>2. ready
    <3>1. Web!Steady.kind # "disconnect" BY DEF Web!Steady
    <3> QED BY <2>1, <3>1 DEF WebInv, ChangeSound
  <2> QED BY <2>1, <2>2 DEF WebInv, WebTyped
<1>1. CASE Web!Disconnected
  <2>1. change' = Web!Steady /\ change.todo = {} /\ on' = on BY <1>1 DEF Web!Disconnected
  <2>2. Web!Steady.kind = "none" /\ Web!Steady.tab = Nobody /\ IsChange(Web!Steady)
    BY DEF Web!Steady, IsChange
  <2>3. WebTyped' BY <1>0, <2>1, <2>2 DEF WebInv, WebTyped, OriginsTyped
  <2>4. \A b \in Agents, u \in Pages : MayAsk(b, u) => MayAsk(b, u)'
    BY <1>0, <2>1 DEF MayAsk
  <2>5. ChangeSound' BY <1>0, <2>1, <2>2 DEF ChangeSound
  <2>6. \A a \in Agents, u \in Pages :
          ( /\ \A v \in Pages : In(on, v) /\ route[v] = a => MayAsk(a, v)
            /\ In(on', u) /\ route'[u] = a ) => MayAsk(a, u)'
    BY <1>0, <2>1, <2>4
  <2> QED BY <1>0, <2>3, <2>4, <2>5, <2>6, OnlyChoicesMove
<1>2. CASE \E t \in Pages : Web!StopServing(t)
  <2>0. PICK t \in Pages : Web!StopServing(t) BY <1>2
  <2> DEFINE I == {i \in DOMAIN on : on[i] # t}
  <2>1. /\ change' = [change EXCEPT !.tab = t] /\ on' = Web!Subsequence(on, I)
    BY <2>0 DEF Web!StopServing
  <2>2. on' \in Seq(Pages) /\ \A m \in DOMAIN on' : \E i \in I : on'[m] = on[i]
    <3>1. I \in SUBSET (DOMAIN on) OBVIOUS
    <3> HIDE DEF I
    <3>2. /\ Web!Subsequence(on, I) \in Seq(Pages)
          /\ \A m \in DOMAIN Web!Subsequence(on, I) :
               \E i \in I : Web!Subsequence(on, I)[m] = on[i]
      BY <3>1, <1>0, SelectionTakes
    <3> QED BY <3>2, <2>1
  <2>3. \A u : In(on', u) => In(on, u) /\ u # t
    <3>1. DOMAIN on' = 1..Len(on') /\ DOMAIN on = 1..Len(on) BY <2>2, <1>0
    <3> QED BY <3>1, <2>2 DEF In
  <2>4. /\ IsChange(change') /\ change'.kind = "disconnect" /\ change'.tab = t
        /\ change'.todo = change.todo
    BY <1>0, <2>1 DEF IsChange
  <2>5. WebTyped' BY <1>0, <2>2, <2>4 DEF WebInv, WebTyped, OriginsTyped
  <2>6. \A b \in Agents, u \in Pages : MayAsk(b, u) => MayAsk(b, u)'
    BY <1>0, <2>4 DEF MayAsk
  <2>7. ChangeSound' BY <1>0, <2>3, <2>4 DEF ChangeSound
  <2>8. \A a \in Agents, u \in Pages :
          ( /\ \A v \in Pages : In(on, v) /\ route[v] = a => MayAsk(a, v)
            /\ In(on', u) /\ route'[u] = a ) => MayAsk(a, u)'
    BY <1>0, <2>3, <2>6
  <2> QED BY <1>0, <2>5, <2>6, <2>7, <2>8, OnlyChoicesMove
<1> QED BY <1>1, <1>2

\* Clients are numbered in the order in which they are made, so the next is not used yet.
LEMMA NextClient ==
  ASSUME ClientsSound, Web!NewClient \in Web!Clients
  PROVE  \E n \in Nat : /\ \A c \in Web!Clients : peer[c].tab # Nobody <=> c <= n
                        /\ Web!NewClient = n + 1
<1>1. PICK n \in Nat : \A c \in Web!Clients : peer[c].tab # Nobody <=> c <= n
  BY DEF ClientsSound
<1> DEFINE used == {c \in Web!Clients : peer[c].tab # Nobody}
<1>2. Web!NewClient = Cardinality(used) + 1
  BY DEF Web!NewClient, Web!Cardinality, Cardinality
<1>a. MaxClients \in Nat /\ Web!Clients = 1..MaxClients BY WebNames
<1>3. CASE n <= MaxClients
  <2>1. \A c : c \in used <=> c \in 1..n BY <1>a, <1>1, <1>3
  <2>3. used = 1..n BY <2>1
  <2> HIDE DEF used
  <2>2. Cardinality(used) = n BY <2>3, FS_Interval
  <2> QED BY <1>1, <1>2, <2>2
<1>4. CASE ~(n <= MaxClients)
  <2>1. \A c : c \in used <=> c \in 1..MaxClients BY <1>a, <1>1, <1>4
  <2>3. used = 1..MaxClients BY <2>1
  <2> HIDE DEF used
  <2>2. Cardinality(used) = MaxClients BY <2>3, FS_Interval, <1>a
  <2> QED BY <1>2, <2>2, WebNames
<1> QED BY <1>3, <1>4

\* A page announces its provider.
LEMMA OpeningKeeps ==
  ASSUME WebInv, NEW t \in Pages, Web!OpenPageClient(t) PROVE WebInv'
<1>0. ClientsSound BY DEF WebInv
<1>1. PICK n \in Nat : /\ \A c \in Web!Clients : peer[c].tab # Nobody <=> c <= n
                       /\ Web!NewClient = n + 1
  BY <1>0, NextClient DEF Web!OpenPageClient
<1> DEFINE d == n + 1
<1>2. /\ UNCHANGED <<approvals, kept, ready, route, on, pending, ask, change>>
      /\ ready /\ d \in Web!Clients /\ open[t] = 0
      /\ open' = [open EXCEPT ![t] = d] /\ peer' = [peer EXCEPT ![d].tab = t]
  BY <1>1 DEF Web!OpenPageClient
<1> HIDE DEF d
<1>3. peer[d].tab = Nobody /\ d # 0 BY <1>1, <1>2, WebNames DEF d
<1>4. /\ peer'[d].tab = t /\ peer'[d].closed = FALSE /\ IsClient(peer'[d])
      /\ peer'[d].closed = peer[d].closed
      /\ \A c \in Web!Clients : c # d => peer'[c] = peer[c]
  <2>1. IsClient(peer[d]) /\ ~peer[d].closed /\ DOMAIN peer = Web!Clients
    BY <1>0, <1>2, <1>3 DEF ClientsSound
  <2>2. peer'[d] = [peer[d] EXCEPT !.tab = t] BY <2>1, <1>2
  <2>3. \A c \in Web!Clients : c # d => peer'[c] = peer[c] BY <2>1, <1>2
  <2> QED BY <2>1, <2>2, <2>3 DEF IsClient
<1>5. open'[t] = d /\ \A u \in Pages : u # t => open'[u] = open[u]
  BY <1>0, <1>2 DEF ClientsSound
<1>6. ClientsSound'
  <2>1. /\ DOMAIN peer' = Web!Clients /\ DOMAIN open' = Pages
        /\ \A c \in Web!Clients : IsClient(peer'[c])
    BY <1>0, <1>2, <1>4 DEF ClientsSound
  <2>2. \A u \in Pages : open'[u] \in 0..MaxClients
    BY <1>0, <1>2, <1>5, WebNames DEF ClientsSound
  <2>3. \A c \in Web!Clients : peer'[c].tab # Nobody <=> c <= n + 1
    <3>1. \A c \in Web!Clients : c # d => (c <= n <=> c <= n + 1) BY <1>1, WebNames DEF d
    <3> QED BY <3>1, <1>1, <1>2, <1>4, WebNames DEF d
  <2>4. ASSUME NEW c \in Web!Clients
        PROVE  /\ peer'[c].tab \in Pages \cup {Nobody}
               /\ peer'[c].tab = Nobody => ~peer'[c].closed
               /\ peer'[c].tab # Nobody /\ ~peer'[c].closed => open'[peer'[c].tab] = c
    <3>1. CASE c = d BY <3>1, <1>4, <1>5
    <3>2. CASE c # d
      <4>1. peer'[c] = peer[c] BY <3>2, <1>4
      <4>2. /\ peer[c].tab \in Pages \cup {Nobody}
            /\ peer[c].tab = Nobody => ~peer[c].closed
            /\ peer[c].tab # Nobody /\ ~peer[c].closed => open[peer[c].tab] = c
        BY <1>0 DEF ClientsSound
      <4>3. peer[c].tab = t => peer[c].closed BY <4>2, <1>2, WebNames
      <4> QED BY <4>1, <4>2, <4>3, <1>5
    <3> QED BY <3>1, <3>2
  <2>5. ASSUME NEW u \in Pages, open'[u] # 0
        PROVE peer'[open'[u]].tab = u /\ ~peer'[open'[u]].closed
    <3>1. CASE u = t BY <3>1, <1>4, <1>5
    <3>2. CASE u # t
      <4>1. open'[u] = open[u] BY <3>2, <1>5
      <4>2. open[u] \in Web!Clients /\ peer[open[u]].tab = u /\ ~peer[open[u]].closed
        BY <4>1, <2>5, <1>0, WebNames DEF ClientsSound
      <4>3. open[u] # d BY <4>2, <1>3, WebNames
      <4> QED BY <4>1, <4>2, <4>3, <1>4
    <3> QED BY <3>1, <3>2
  <2>6. \E k \in Nat : \A c \in Web!Clients : peer'[c].tab # Nobody <=> c <= k
    BY <2>3
  <2> QED BY <2>1, <2>2, <2>4, <2>5, <2>6 DEF ClientsSound
<1>7. WebTyped' BY <1>2 DEF WebInv, WebTyped, OriginsTyped
<1>8. \A a, u : MayAsk(a, u)' <=> MayAsk(a, u) BY <1>2 DEF MayAsk
<1>9. CallsSound'
  <2> SUFFICES ASSUME NEW m \in pending' PROVE CallSound(m)' BY DEF CallsSound
  <2>1. CallSound(m) BY <1>2 DEF WebInv, CallsSound
  <2>2. m.kind = "call" => m.c # d BY <2>1, <1>3, WebNames DEF CallSound
  <2>3. m.kind = "call" => peer'[m.c] = peer[m.c] BY <2>1, <2>2, <1>4 DEF CallSound
  <2> QED BY <2>1, <2>3, <1>8 DEF CallSound
<1>10. ChangeSound' BY <1>2 DEF WebInv, ChangeSound
<1>11. ASSUME NEW a \in Agents PROVE AskSound(a, ask[a])'
  <2>1. AskSound(a, ask[a]) BY DEF WebInv
  <2>2. \A c \in Web!Clients : In(ask[a].cs, c) => c # d
    BY <2>1, <1>3, WebNames DEF AskSound
  <2>3. \A c \in Web!Clients : In(ask[a].cs, c) => peer'[c] = peer[c] BY <2>2, <1>4
  <2>4. /\ \A c \in Web!Clients : In(ask'[a].cs, c) => peer'[c].tab \in Pages
        /\ ask'[a].pc \in {"probing", "calling"} =>
             \A c \in Web!Clients, u \in Pages :
               In(ask'[a].cs, c) /\ peer'[c].tab = u => peer'[c].closed \/ MayAsk(a, u)'
    BY <2>1, <2>3, <1>2, <1>8 DEF AskSound
  <2>5. ask'[a].pc = "gather" =>
          \A u \in Pages : In(on', u) /\ route'[u] = a => MayAsk(a, u)'
    BY <2>1, <1>2, <1>8 DEF AskSound
  <2>6. /\ \A c \in Web!Clients : ask'[a].got[c] \in {"start", "starting"} => In(ask'[a].cs, c)
        /\ ask'[a].pc \in {"idle", "booting", "gather"} => ask'[a].cs = <<>>
        /\ ~ready' => ask'[a].pc \in {"idle", "booting"}
    BY <2>1, <1>2 DEF AskSound
  <2> QED BY <2>4, <2>5, <2>6 DEF AskSound
<1> QED BY <1>6, <1>7, <1>9, <1>10, <1>11 DEF WebInv

\* The browser recycles the worker, and it boots again.
LEMMA RecyclingKeeps ==
  ASSUME WebInv, Web!Recycled \/ Web!Booted PROVE WebInv'
<1>0. ClientsSound /\ WebTyped BY DEF WebInv
<1>1. ASSUME Web!Recycled PROVE WebInv'
  <2>1. /\ ready' = FALSE /\ approvals' = <<>> /\ open' = [t \in Pages |-> 0] /\ pending' = {}
        /\ peer' = [c \in Web!Clients |-> [peer[c] EXCEPT !.closed = peer[c].tab # Nobody,
                                                         !.start = "none"]]
        /\ ask' = [a \in Agents |-> Web!NoAsk] /\ change' = Web!Steady
        /\ UNCHANGED <<kept, route, on>>
    BY <1>1 DEF Web!Recycled
  <2>2. Web!Steady.kind = "none" /\ Web!Steady.tab = Nobody /\ IsChange(Web!Steady)
    BY DEF Web!Steady, IsChange
  <2>3. WebTyped'
    <3>0. <<>> \in Seq(Web!Origins) /\ NoneTwice(<<>>) BY DEF NoneTwice
    <3>1. approvals' \in Seq(Web!Origins) /\ NoneTwice(approvals') BY <2>1, <3>0
    <3>2. \A a \in Agents : IsAsk(ask'[a]) BY <2>1, NothingAsked
    <3>3. DOMAIN ask' = Agents BY <2>1
    <3> QED BY <1>0, <2>1, <2>2, <3>1, <3>2, <3>3 DEF WebTyped, OriginsTyped
  <2>4. ASSUME NEW c \in Web!Clients
        PROVE  IsClient(peer'[c]) /\ peer'[c].tab = peer[c].tab
               /\ (peer'[c].closed <=> peer[c].tab # Nobody)
    <3>1. peer'[c] = [peer[c] EXCEPT !.closed = peer[c].tab # Nobody, !.start = "none"]
      BY <2>1
    <3>2. IsClient(peer[c]) BY <1>0 DEF ClientsSound
    <3> QED BY <3>1, <3>2 DEF IsClient
  <2>5. ClientsSound'
    <3>4. DOMAIN peer' = Web!Clients BY <2>1, Zenon
    <3>5. open' = [t \in Pages |-> 0] BY <2>1, Zenon
    <3>1. DOMAIN peer' = Web!Clients /\ DOMAIN open' = Pages BY <3>4, <3>5
    <3>2. \A t \in Pages : open'[t] = 0 /\ open'[t] \in 0..MaxClients BY <3>5, WebNames
    <3>3. \E n \in Nat : \A c \in Web!Clients : peer'[c].tab # Nobody <=> c <= n
      BY <1>0, <2>4 DEF ClientsSound
    <3> QED BY <1>0, <2>4, <3>1, <3>2, <3>3 DEF ClientsSound
  <2>6. CallsSound' BY <2>1 DEF CallsSound
  <2>7. ChangeSound' BY <2>1, <2>2 DEF ChangeSound
  <2>8. ASSUME NEW a \in Agents PROVE AskSound(a, ask[a])'
    <3>1. ask'[a] = Web!NoAsk BY <2>1
    <3>2. ask'[a].pc = "idle" /\ ask'[a].cs = <<>> /\ \A c \in Web!Clients : ask'[a].got[c] = "none"
      BY <3>1, NothingAsked
    <3>3. \A c : ~In(ask'[a].cs, c) BY <3>2 DEF In
    <3> QED BY <3>2, <3>3 DEF AskSound
  <2> QED BY <2>3, <2>5, <2>6, <2>7, <2>8 DEF WebInv
<1>2. ASSUME Web!Booted PROVE WebInv'
  <2>1. /\ ~ready /\ ready' = TRUE /\ approvals' = kept
        /\ UNCHANGED <<kept, route, on, open, peer, pending, ask, change>>
    BY <1>2 DEF Web!Booted, Web!clientVars
  <2>2. WebTyped' BY <1>0, <2>1 DEF WebTyped, OriginsTyped
  <2>3. ClientsSound' BY <1>0, <2>1 DEF ClientsSound
  <2>4. pending = {} /\ change = Web!Steady /\ Web!Steady.kind = "none"
    BY <2>1 DEF WebInv, ChangeSound, Web!Steady
  <2>5. CallsSound' BY <2>1, <2>4 DEF CallsSound
  <2>6. ChangeSound' BY <2>1, <2>4 DEF ChangeSound
  <2>7. ASSUME NEW a \in Agents PROVE AskSound(a, ask[a])'
    <3>1. AskSound(a, ask[a]) /\ ask[a].pc \in {"idle", "booting"}
      BY <2>1 DEF WebInv, AskSound
    <3>2. ask'[a] = ask[a] /\ peer' = peer BY <2>1
    <3> QED BY <3>1, <3>2, <2>1 DEF AskSound
  <2> QED BY <2>2, <2>3, <2>5, <2>6, <2>7 DEF WebInv
<1> QED BY <1>1, <1>2

\* Web agents start without clients, requests and changes.
LEMMA WebStartsSound == Init => WebInv
<1> SUFFICES ASSUME Init PROVE WebInv OBVIOUS
<1>1. /\ approvals = <<>> /\ kept = <<>> /\ ready = TRUE
      /\ route = [t \in Pages |-> Nobody] /\ on = <<>>
      /\ open = [t \in Pages |-> 0]
      /\ peer = [c \in Web!Clients |-> [tab |-> Nobody, closed |-> FALSE, start |-> "none",
                                        label |-> <<>>]]
      /\ pending = {} /\ ask = [a \in Agents |-> Web!NoAsk] /\ change = Web!Steady
  BY DEF Init, Web!Init
<1>2. Web!Steady.kind = "none" /\ Web!Steady.tab = Nobody /\ IsChange(Web!Steady)
  BY DEF Web!Steady, IsChange
<1>3. WebTyped
  <2>1. approvals \in Seq(Web!Origins) /\ NoneTwice(approvals) BY <1>1 DEF NoneTwice
  <2>2. \A a \in Agents : IsAsk(ask[a]) BY <1>1, NothingAsked
  <2>3. on \in Seq(Pages) /\ DOMAIN ask = Agents /\ DOMAIN route = Pages BY <1>1
  <2> QED BY <1>1, <1>2, <2>1, <2>2, <2>3 DEF WebTyped, OriginsTyped
<1>4. \A c \in Web!Clients : IsClient(peer[c]) /\ peer[c].tab = Nobody /\ ~peer[c].closed
  BY <1>1 DEF IsClient
<1>5. ClientsSound
  <2>1. DOMAIN peer = Web!Clients /\ DOMAIN open = Pages BY <1>1
  <2>2. \A t \in Pages : open[t] = 0 /\ open[t] \in 0..MaxClients BY <1>1, WebNames
  <2>3. \A c \in Web!Clients : peer[c].tab # Nobody <=> c <= 0 BY <1>4, WebNames
  <2>4. \E n \in Nat : \A c \in Web!Clients : peer[c].tab # Nobody <=> c <= n BY <2>3
  <2> QED BY <1>4, <2>1, <2>2, <2>4 DEF ClientsSound
<1>6. CallsSound /\ ChangeSound BY <1>1, <1>2 DEF CallsSound, ChangeSound
<1>7. \A a \in Agents : AskSound(a, ask[a]) BY <1>1, NothingAsked
<1> QED BY <1>3, <1>5, <1>6, <1>7 DEF WebInv

\* Every step of the web agents keeps the invariant, where there is room for all sites.
LEMMA WebStaysSound ==
  ASSUME IsFiniteSet(Web!Origins), Cardinality(Web!Origins) <= MaxOrigins,
         WebInv, [Next]_extensionVars
  PROVE  WebInv'
<1>1. CASE UNCHANGED webPart
  <2>1. /\ UNCHANGED <<approvals, kept, ready, route, on, open, change>>
        /\ peer' = peer /\ pending' = pending /\ ask' = ask
    BY <1>1 DEF webPart
  <2>2. SameClients BY <2>1, ClientsStay
  <2>3. ~ready => pending' = {} BY <2>1 DEF WebInv, ChangeSound
  <2>4. DOMAIN ask' = Agents /\ \A a \in Agents : AskStays(ask[a], ask'[a])
    BY <2>1 DEF AskStays, WebInv, WebTyped
  <2> QED BY <2>1, <2>2, <2>3, <2>4, AllAsksStay
<1>2. CASE Web!Next
  <2>1. ASSUME NEW a \in Agents, Web!AgentStep(a) PROVE WebInv'
    BY <2>1, RequestKeeps, ListingKeeps, CallingKeeps, ProbingKeeps, StartKeeps
    DEF Web!AgentStep
  <2>2. ASSUME NEW a \in Agents, NEW k, NEW n, Web!Ask(a, k, n) PROVE WebInv'
    BY <2>2, RequestKeeps
  <2>3. ASSUME NEW m \in pending, Web!Deliver(m) \/ Web!Timeout(m) \/ Web!Adopt(m)
        PROVE WebInv'
    BY <2>3, AnswersKeep
  <2>4. ASSUME Web!ChangeStep PROVE WebInv'
    BY <2>4, TeardownKeeps, EnableKeeps, StoppedKeeps, StoppingKeeps DEF Web!ChangeStep
  <2>5. ASSUME NEW t \in Pages, Web!OpenPageClient(t) \/ Web!PageGoes(t) PROVE WebInv'
    BY <2>5, OpeningKeeps, PageGoesKeeps
  <2>6. ASSUME NEW t \in Pages, NEW a \in Agents, Web!SetTabRoute(t, a) PROVE WebInv'
    BY <2>6, RouteKeeps
  <2>7. ASSUME NEW o \in Web!Origins, Web!Connect(o) \/ Web!Disconnect(o) PROVE WebInv'
    BY <2>7, ApprovalKeeps, DisconnectKeeps
  <2>8. ASSUME Web!Recycled \/ Web!Booted PROVE WebInv'
    BY <2>8, RecyclingKeeps
  <2> QED BY <1>2, <2>1, <2>2, <2>3, <2>4, <2>5, <2>6, <2>7, <2>8 DEF Web!Next
<1> QED BY <1>1, <1>2 DEF Next, extensionVars

\* Where no approval is forgotten for a newer one, a call that is on its way to a page comes
\* from the agent the tab was set to serve, and its site is connected, but for the change
\* that is being carried out.
THEOREM CallsAreServedAsChosen ==
  ASSUME IsFiniteSet(Web!Origins), Cardinality(Web!Origins) <= MaxOrigins
  PROVE  Spec => []ServedAsChosen
<1>1. Init => WebInv BY WebStartsSound
<1>2. WebInv /\ [Next]_extensionVars => WebInv' BY WebStaysSound
<1>3. WebInv => ServedAsChosen
  <2> SUFFICES ASSUME WebInv, NEW m \in pending, m.kind = "call"
               PROVE LET t == peer[m.c].tab IN
                     \/ route[t] = m.a /\ Web!OriginApproved(OriginOf[m.a])
                     \/ change.kind = "route" /\ change.tab = t
                     \/ change.kind = "disconnect" /\ t \in change.todo
    BY DEF ServedAsChosen, Web!ServedAsChosen
  <2>1. CallSound(m) BY DEF WebInv, CallsSound
  <2>2. MayAsk(m.a, peer[m.c].tab) BY <2>1 DEF CallSound
  <2>3. \A o : In(approvals, o) => Web!OriginApproved(o) BY Approved DEF WebInv
  <2> QED BY <2>2, <2>3 DEF MayAsk
<1> QED BY <1>1, <1>2, <1>3, PTL DEF Spec
-----------------------------------------------------------------------------
(***************************************************************************)
(* Lists of profiles.                                                      *)
(***************************************************************************)
IsProfileList(list, n) ==
  /\ list \in Seq([id : 1..n, bridge : Bridges])
  /\ \A i, j \in DOMAIN list :
       list[i].id = list[j].id \/ list[i].bridge = list[j].bridge => i = j

\* A list has a profile of an id and a bridge.
Has(list, id, b) == \E i \in DOMAIN list : list[i].id = id /\ list[i].bridge = b

\* What is selected from a list of profiles is one, with the profiles at the positions
\* selected.
LEMMA SelectedIsList ==
  ASSUME NEW n \in Nat, NEW list, IsProfileList(list, n), NEW I \in SUBSET (DOMAIN list)
  PROVE  /\ IsProfileList(Control!Subsequence(list, I), n)
         /\ \A i \in I : Has(Control!Subsequence(list, I), list[i].id, list[i].bridge)
         /\ \A m \in DOMAIN Control!Subsequence(list, I) :
              \E i \in I : Control!Subsequence(list, I)[m] = list[i]
<1>1. PICK sub : sub = Control!Subsequence(list, I) OBVIOUS
<1>2. list \in Seq([id : 1..n, bridge : Bridges]) BY DEF IsProfileList
<1>3. sub \in Seq([id : 1..n, bridge : Bridges]) /\ TakenFrom(sub, list, I)
  BY <1>1, <1>2, SelectionTaken
<1>4. PICK pos \in [DOMAIN sub -> I] :
        /\ \A m \in DOMAIN sub : sub[m] = list[pos[m]]
        /\ \A m, l \in DOMAIN sub : pos[m] = pos[l] => m = l
        /\ \A i \in I : \E m \in DOMAIN sub : pos[m] = i
  BY <1>3 DEF TakenFrom
<1>5. ASSUME NEW m \in DOMAIN sub, NEW l \in DOMAIN sub,
             sub[m].id = sub[l].id \/ sub[m].bridge = sub[l].bridge
      PROVE  m = l
  <2>1. pos[m] \in DOMAIN list /\ pos[l] \in DOMAIN list BY <1>4
  <2>2. pos[m] = pos[l] BY <2>1, <1>4, <1>5 DEF IsProfileList
  <2> QED BY <2>2, <1>4
<1>6. IsProfileList(sub, n) BY <1>3, <1>5 DEF IsProfileList
<1>7. ASSUME NEW i \in I PROVE Has(sub, list[i].id, list[i].bridge)
  <2>1. PICK m \in DOMAIN sub : pos[m] = i BY <1>4
  <2> QED BY <2>1, <1>4 DEF Has
<1>8. \A m \in DOMAIN sub : \E i \in I : sub[m] = list[i] BY <1>4
<1> QED BY <1>1, <1>6, <1>7, <1>8

\* A list of profiles of the ids below n is one of those below a higher number.
LEMMA MoreIds ==
  ASSUME NEW n \in Nat, NEW m \in Nat, n <= m, NEW list, IsProfileList(list, n)
  PROVE  IsProfileList(list, m)
<1> DEFINE S == [id : 1..n, bridge : Bridges]
           T == [id : 1..m, bridge : Bridges]
<1>1. \A x \in S : x \in T
  <2>1. \A i \in 1..n : i \in 1..m OBVIOUS
  <2> QED BY <2>1
<1>2. list \in Seq(S) BY DEF IsProfileList
<1> HIDE DEF S, T
<1>3. list \in Seq(T)
  <2>1. list \in [1..Len(list) -> S] /\ Len(list) \in Nat BY <1>2
  <2>2. list \in [1..Len(list) -> T] BY <2>1, <1>1
  <2> QED BY <2>1, <2>2
<1>4. list \in Seq([id : 1..m, bridge : Bridges]) BY <1>3 DEF T
<1> QED BY <1>4 DEF IsProfileList

\* A profile that is alone with its bridge, put in front, is the first of a list that
\* still has every profile.
LEMMA BumpedIsList ==
  ASSUME NEW n \in Nat, NEW list, IsProfileList(list, n),
         NEW p \in [id : 1..n, bridge : Bridges],
         \A i \in DOMAIN list : list[i].id = p.id <=> list[i].bridge = p.bridge
  PROVE  /\ IsProfileList(Control!Bumped(list, p), n)
         /\ 1 \in DOMAIN Control!Bumped(list, p) /\ Control!Bumped(list, p)[1] = p
         /\ \A i \in DOMAIN list : Has(Control!Bumped(list, p), list[i].id, list[i].bridge)
<1> DEFINE I == {i \in DOMAIN list : list[i].id # p.id}
<1>1. PICK sub : sub = Control!Subsequence(list, I) OBVIOUS
<1>2. PICK out : out = Control!Bumped(list, p) OBVIOUS
<1>3. out = <<p>> \o sub BY <1>1, <1>2 DEF Control!Bumped
<1>0. I \in SUBSET (DOMAIN list) OBVIOUS
<1>4. /\ IsProfileList(sub, n) /\ \A i \in I : Has(sub, list[i].id, list[i].bridge)
      /\ \A m \in DOMAIN sub : \E i \in I : sub[m] = list[i]
  <2> HIDE DEF I
  <2> QED BY <1>0, <1>1, SelectedIsList
<1>5. sub \in Seq([id : 1..n, bridge : Bridges]) BY <1>4 DEF IsProfileList
<1>6. /\ out \in Seq([id : 1..n, bridge : Bridges]) /\ Len(out) = 1 + Len(sub)
      /\ out[1] = p /\ Len(sub) \in Nat
      /\ \A m \in 1..Len(sub) : out[m + 1] = sub[m]
      /\ DOMAIN out = 1..(1 + Len(sub)) /\ DOMAIN sub = 1..Len(sub)
  BY <1>3, <1>5
<1>7. \A m \in DOMAIN out : m = 1 \/ \E l \in DOMAIN sub : m = l + 1 /\ out[m] = sub[l]
  <2> SUFFICES ASSUME NEW m \in DOMAIN out, m # 1
               PROVE  \E l \in DOMAIN sub : m = l + 1 /\ out[m] = sub[l]
    OBVIOUS
  <2>1. m - 1 \in DOMAIN sub /\ m = (m - 1) + 1 BY <1>6
  <2> QED BY <2>1, <1>6
<1>8. \A l \in DOMAIN sub : sub[l].id # p.id /\ sub[l].bridge # p.bridge
  BY <1>4
<1>9. ASSUME NEW m \in DOMAIN out, NEW k \in DOMAIN out,
             out[m].id = out[k].id \/ out[m].bridge = out[k].bridge
      PROVE  m = k
  <2>1. CASE m = 1 BY <2>1, <1>6, <1>7, <1>8, <1>9
  <2>2. CASE k = 1 BY <2>2, <1>6, <1>7, <1>8, <1>9
  <2>3. CASE m # 1 /\ k # 1
    <3>1. PICK l \in DOMAIN sub : m = l + 1 /\ out[m] = sub[l] BY <2>3, <1>7
    <3>2. PICK j \in DOMAIN sub : k = j + 1 /\ out[k] = sub[j] BY <2>3, <1>7
    <3>3. l = j BY <3>1, <3>2, <1>4, <1>9 DEF IsProfileList
    <3> QED BY <3>1, <3>2, <3>3
  <2> QED BY <2>1, <2>2, <2>3
<1>10. IsProfileList(out, n) BY <1>6, <1>9 DEF IsProfileList
<1>11. ASSUME NEW i \in DOMAIN list PROVE Has(out, list[i].id, list[i].bridge)
  <2>1. CASE list[i].id = p.id
    <3>1. list[i].bridge = p.bridge /\ 1 \in DOMAIN out BY <2>1, <1>6
    <3> QED BY <2>1, <3>1, <1>6 DEF Has
  <2>2. CASE list[i].id # p.id
    <3>1. PICK m \in DOMAIN sub : sub[m].id = list[i].id /\ sub[m].bridge = list[i].bridge
      BY <2>2, <1>4 DEF Has
    <3>2. m + 1 \in DOMAIN out /\ out[m + 1] = sub[m] BY <1>6
    <3> QED BY <3>1, <3>2 DEF Has
  <2> QED BY <2>1, <2>2
<1>12. 1 \in DOMAIN out BY <1>6
<1> QED BY <1>2, <1>6, <1>10, <1>11, <1>12

\* Eviction keeps a list of profiles one, with those to keep and, if it is one of them,
\* the first.
LEMMA EvictedIsList ==
  ASSUME NEW n \in Nat, NEW list, IsProfileList(list, n), NEW keep, 1 \in DOMAIN list,
         list[1].id \in keep
  PROVE  /\ IsProfileList(Control!Evict(list, keep), n)
         /\ 1 \in DOMAIN Control!Evict(list, keep) /\ Control!Evict(list, keep)[1] = list[1]
         /\ \A i \in DOMAIN list :
              list[i].id \in keep => Has(Control!Evict(list, keep), list[i].id, list[i].bridge)
<1> DEFINE evictable == {i \in DOMAIN list : list[i].id \notin keep}
           out == {i \in evictable : Cardinality({k \in evictable : k > i})
                                       + MaxProfiles < Len(list)}
           I == DOMAIN list \ out
<1>1. Control!Evict(list, keep) = Control!Subsequence(list, I)
  BY DEF Control!Evict, Control!Cardinality, Cardinality
<1>2. \A i \in DOMAIN list : list[i].id \in keep => i \in I OBVIOUS
<1> HIDE DEF out, evictable
<1>3. list \in Seq([id : 1..n, bridge : Bridges]) BY DEF IsProfileList
<1>4. 1 \in I BY <1>2
<1> HIDE DEF I
<1>5. I \subseteq DOMAIN list BY DEF I
<1> QED BY <1>1, <1>2, <1>3, <1>4, <1>5, SelectionTaken, SelectedIsList

\* The ids handed out once a list of profiles is stored.
NextMade(list) == IF made + 1 \in Control!ProfileIds(list) THEN made + 1 ELSE made

\* The entries of a list of profiles are profiles.
LEMMA EntriesOfLists ==
  ASSUME NEW n, NEW list, IsProfileList(list, n), NEW i \in DOMAIN list
  PROVE  list[i] \in [id : 1..n, bridge : Bridges] /\ list[i].id \in 1..n
<1> DEFINE S == [id : 1..n, bridge : Bridges]
<1>1. list \in Seq(S) BY DEF IsProfileList
<1>2. list[i] \in S
  <2> HIDE DEF S
  <2> QED BY <1>1
<1> QED BY <1>2

\* upsertProfile puts the profile of the bridge in front and keeps those in use.
LEMMA UpsertKeeps ==
  ASSUME made \in Nat, NEW list, IsProfileList(list, made), NEW input, NEW inUse
  PROVE  LET R == Control!UpsertProfile(list, input, inUse)
         IN  /\ NextMade(R) \in Nat /\ IsProfileList(R, NextMade(R)) /\ 1 \in DOMAIN R
             /\ R[1].bridge = Control!NormalizeBridge(input)
             /\ \A i \in DOMAIN list :
                  list[i].id \in inUse => Has(R, list[i].id, list[i].bridge)
<1>1. PICK b \in Bridges : b = Control!NormalizeBridge(input)
  BY Bounds DEF Control!NormalizeBridge, Control!ControlBounds
<1>2. PICK p : p = Control!ProfileFor(list, b) OBVIOUS
<1>3. PICK bumped : bumped = Control!Bumped(list, p) OBVIOUS
<1>4. PICK R : R = Control!Evict(bumped, inUse \cup {p.id}) OBVIOUS
<1>5. R = Control!UpsertProfile(list, input, inUse)
  BY <1>1, <1>2, <1>3, <1>4 DEF Control!UpsertProfile
<1>6. ASSUME NEW n \in Nat, IsProfileList(list, n), p \in [id : 1..n, bridge : Bridges],
             p.bridge = b, \A i \in DOMAIN list : list[i].id = p.id <=> list[i].bridge = b
      PROVE  /\ IsProfileList(R, n) /\ 1 \in DOMAIN R /\ R[1] = p
             /\ \A i \in DOMAIN list :
                  list[i].id \in inUse => Has(R, list[i].id, list[i].bridge)
  <2>1. /\ IsProfileList(bumped, n) /\ 1 \in DOMAIN bumped /\ bumped[1] = p
        /\ \A i \in DOMAIN list : Has(bumped, list[i].id, list[i].bridge)
    BY <1>3, <1>6, BumpedIsList
  <2>2. /\ IsProfileList(R, n) /\ 1 \in DOMAIN R /\ R[1] = p
        /\ \A i \in DOMAIN bumped :
             bumped[i].id \in inUse \cup {p.id} => Has(R, bumped[i].id, bumped[i].bridge)
    BY <2>1, <1>4, EvictedIsList
  <2>3. ASSUME NEW i \in DOMAIN list, list[i].id \in inUse
        PROVE  Has(R, list[i].id, list[i].bridge)
    <3>1. PICK j \in DOMAIN bumped : /\ bumped[j].id = list[i].id
                                     /\ bumped[j].bridge = list[i].bridge
      BY <2>1 DEF Has
    <3> QED BY <3>1, <2>2, <2>3
  <2> QED BY <2>2, <2>3
<1>7. \A i \in DOMAIN list : list[i] \in [id : 1..made, bridge : Bridges]
  BY EntriesOfLists
<1> DEFINE known == {i \in DOMAIN list : list[i].bridge = b}
<1>8. /\ known = {} => p = [id |-> made + 1, bridge |-> b]
      /\ known # {} => p = list[CHOOSE i \in known : \A j \in known : i <= j]
  BY <1>2 DEF Control!ProfileFor, Control!SameBridge
<1>9. CASE known = {}
  <2>1. p = [id |-> made + 1, bridge |-> b] BY <1>8, <1>9
  <2>2. /\ made + 1 \in Nat /\ p \in [id : 1..(made + 1), bridge : Bridges]
        /\ p.bridge = b /\ p.id = made + 1
    BY <2>1
  <2>3. IsProfileList(list, made + 1) BY <2>2, MoreIds
  <2>4. \A i \in DOMAIN list : list[i].id # p.id /\ list[i].bridge # b
    BY <2>2, <1>7, <1>9
  <2>5. /\ IsProfileList(R, made + 1) /\ 1 \in DOMAIN R /\ R[1] = p
        /\ \A i \in DOMAIN list :
             list[i].id \in inUse => Has(R, list[i].id, list[i].bridge)
    BY <2>2, <2>3, <2>4, <1>6
  <2>6. NextMade(R) = made + 1 BY <2>2, <2>5 DEF NextMade, Control!ProfileIds
  <2> QED BY <2>2, <2>5, <2>6, <1>1, <1>5
<1>10. CASE known # {}
  <2>1. PICK k \in known : TRUE BY <1>10
  <2>2. k \in DOMAIN list /\ list[k].bridge = b BY <2>1
  <2>3. \A j \in known : j = k BY <2>2 DEF IsProfileList
  <2>4. known = {k} BY <2>1, <2>3
  <2>5. k \in Nat /\ k <= k
    <3>1. list \in Seq([id : 1..made, bridge : Bridges]) BY DEF IsProfileList
    <3> QED BY <3>1, <2>2
  <2>6. (CHOOSE i \in known : \A j \in known : i <= j) = k
    <3> HIDE DEF known
    <3> QED BY <2>4, <2>5
  <2>7. p = list[k] BY <2>6, <1>8, <1>10
  <2>8. /\ p \in [id : 1..made, bridge : Bridges] /\ p.bridge = b
        /\ \A i \in DOMAIN list : list[i].id = p.id <=> list[i].bridge = b
    BY <2>2, <2>7, <1>7 DEF IsProfileList
  <2>9. /\ IsProfileList(R, made) /\ 1 \in DOMAIN R /\ R[1] = p
        /\ \A i \in DOMAIN list :
             list[i].id \in inUse => Has(R, list[i].id, list[i].bridge)
    BY <2>8, <1>6
  <2>10. made + 1 \notin Control!ProfileIds(R)
    <3>1. \A i \in DOMAIN R : R[i].id \in 1..made BY <2>9, EntriesOfLists
    <3> QED BY <3>1 DEF Control!ProfileIds
  <2>11. NextMade(R) = made BY <2>10 DEF NextMade
  <2> QED BY <2>8, <2>9, <2>11, <1>1, <1>5
<1> QED BY <1>9, <1>10

\* parseProfiles loses nothing of a list of profiles.
LEMMA ParseKeeps ==
  ASSUME NEW n \in Nat, NEW list, IsProfileList(list, n)
  PROVE  /\ IsProfileList(Control!ParseProfiles(list), n)
         /\ \A i \in DOMAIN list :
              Has(Control!ParseProfiles(list), list[i].id, list[i].bridge)
<1> DEFINE I == {i \in DOMAIN list :
                   \A j \in 1..(i - 1) : ~Control!SameBridge(list[j], list[i].bridge)}
<1>1. Control!ParseProfiles(list) = Control!Subsequence(list, I) BY DEF Control!ParseProfiles
<1>2. I = DOMAIN list
  <2>1. list \in Seq([id : 1..n, bridge : Bridges]) BY DEF IsProfileList
  <2>2. \A i \in DOMAIN list : i \in Nat /\ i <= Len(list) BY <2>1
  <2>3. ASSUME NEW i \in DOMAIN list, NEW j \in 1..(i - 1)
        PROVE  list[j].bridge # list[i].bridge
    <3>1. j \in DOMAIN list /\ j # i BY <2>1, <2>2
    <3> QED BY <3>1 DEF IsProfileList
  <2> QED BY <2>3 DEF Control!SameBridge
<1> HIDE DEF I
<1> QED BY <1>1, <1>2, SelectedIsList

(***************************************************************************)
(* Bridges of tabs.  What storage has is in use or about to be replaced:   *)
(* a tab's confirmed pin names a profile of its bridge in the stored list, *)
(* which is the worker's once it has booted, and a pin that is being       *)
(* stored names one in the worker's.                                       *)
(***************************************************************************)
IsSettings(m) == DOMAIN m = {"profiles", "default", "pins", "control"} /\ DOMAIN m.pins = PinTabs

SettingsTyped ==
  /\ IsSettings(mem) /\ IsSettings(stored) /\ made \in Nat
  /\ DOMAIN asked = PinTabs /\ DOMAIN pinned = PinTabs /\ DOMAIN openTabs = PinTabs

ListsAgree ==
  /\ IsProfileList(stored.profiles, made)
  /\ started => mem.profiles = stored.profiles /\ mem.default = stored.default
  /\ \/ stored.profiles = <<>>
     \/ \E i \in DOMAIN stored.profiles : stored.profiles[i].id = stored.default

NothingLoaded == ~started => \A t \in PinTabs : mem.pins[t] = 0 /\ asked[t] = {}

PinKept(t) ==
  \A b \in pinned[t] : /\ Has(stored.profiles, stored.pins[t], b)
                       /\ started => mem.pins[t] = stored.pins[t]

AskKept(t) ==
  /\ openTabs[t] = "nobody" => asked[t] = {}
  /\ \A b \in asked[t] :
       openTabs[t] \in {"user", "agent"} => Has(mem.profiles, mem.pins[t], b)

PinInv ==
  /\ SettingsTyped /\ ListsAgree /\ NothingLoaded
  /\ \A t \in PinTabs : PinKept(t) /\ AskKept(t)

\* What a tab is pinned to is a profile's id, so it is in use.
LEMMA PinsAreInUse ==
  ASSUME PinInv, NEW t \in PinTabs, NEW list, NEW n \in Nat, IsProfileList(list, n), NEW b,
         Has(list, mem.pins[t], b)
  PROVE  mem.pins[t] \in Control!InUseProfileIds(mem)
<1>1. PICK i \in DOMAIN list : list[i].id = mem.pins[t] BY DEF Has
<1>2. list[i].id \in 1..n BY EntriesOfLists
<1> QED BY <1>1, <1>2 DEF Control!InUseProfileIds

\* Opening a tab loses no pin, nor does what leaves tabs and settings alone.
LEMMA SettingsStay ==
  ASSUME PinInv, UNCHANGED <<mem, stored, started, made, asked, pinned>>,
         DOMAIN openTabs' = PinTabs,
         \A t \in PinTabs : openTabs'[t] = openTabs[t] \/ openTabs[t] = "nobody"
  PROVE  PinInv'
<1>1. SettingsTyped' /\ ListsAgree' /\ NothingLoaded'
  BY DEF PinInv, SettingsTyped, IsSettings, ListsAgree, IsProfileList, NothingLoaded
<1>2. ASSUME NEW t \in PinTabs PROVE PinKept(t)' /\ AskKept(t)'
  BY <1>2 DEF PinInv, PinKept, AskKept, Has
<1> QED BY <1>1, <1>2 DEF PinInv

\* Nor does a setting that is about something else.
LEMMA OtherSettingsStay ==
  ASSUME PinInv, UNCHANGED <<started, made, asked, pinned, openTabs>>,
         IsSettings(mem'), mem'.profiles = mem.profiles, mem'.default = mem.default,
         mem'.pins = mem.pins,
         IsSettings(stored'), stored'.profiles = stored.profiles,
         stored'.default = stored.default, stored'.pins = stored.pins
  PROVE  PinInv'
<1>1. SettingsTyped' /\ ListsAgree' /\ NothingLoaded'
  BY DEF PinInv, SettingsTyped, ListsAgree, IsProfileList, NothingLoaded
<1>2. ASSUME NEW t \in PinTabs PROVE PinKept(t)' /\ AskKept(t)'
  BY <1>2 DEF PinInv, PinKept, AskKept, Has
<1> QED BY <1>1, <1>2 DEF PinInv

\* Booting takes over what is stored, and makes up a default only for an empty list.
LEMMA BootKeepsPins == ASSUME PinInv, Control!Boot PROVE PinInv'
<1>0. ~started /\ started' = TRUE /\ UNCHANGED <<asked, pinned, openTabs>>
  BY DEF Control!Boot, Control!bridgeVars, Control!toolVars
<1>1. /\ IsSettings(stored) /\ made \in Nat /\ IsProfileList(stored.profiles, made)
      /\ \A t \in PinTabs : asked[t] = {}
  BY <1>0 DEF PinInv, SettingsTyped, ListsAgree, NothingLoaded
<1>2. PICK list : list = Control!ParseProfiles(stored.profiles) OBVIOUS
<1>3. /\ IsProfileList(list, made)
      /\ \A i \in DOMAIN stored.profiles :
           Has(list, stored.profiles[i].id, stored.profiles[i].bridge)
  BY <1>1, <1>2, ParseKeeps
<1>4. PICK read : read = [stored EXCEPT !.profiles = list] OBVIOUS
<1>5. /\ IsSettings(read) /\ read.profiles = list /\ read.default = stored.default
      /\ read.pins = stored.pins
  BY <1>1, <1>4 DEF IsSettings
<1>6. PICK profiles : profiles = Control!UpsertProfile(list, "junk", {}) OBVIOUS
<1>7. PICK full : full = IF read.default \in Control!ProfileIds(read.profiles) THEN read
                         ELSE [read EXCEPT !.profiles = profiles,
                                           !.default = Head(profiles).id]
  OBVIOUS
<1>8. /\ mem' = full /\ made' = NextMade(full.profiles)
      /\ stored' = [stored EXCEPT !.profiles = full.profiles, !.default = full.default]
  BY <1>2, <1>4, <1>5, <1>6, <1>7 DEF Control!Boot, Control!Count, NextMade
<1>9. /\ IsSettings(full) /\ full.pins = stored.pins /\ NextMade(full.profiles) \in Nat
      /\ IsProfileList(full.profiles, NextMade(full.profiles))
      /\ \E i \in DOMAIN full.profiles : full.profiles[i].id = full.default
      /\ \A i \in DOMAIN stored.profiles :
           Has(full.profiles, stored.profiles[i].id, stored.profiles[i].bridge)
  <2>1. CASE read.default \in Control!ProfileIds(read.profiles)
    <3>1. full = read BY <2>1, <1>7
    <3>2. PICK i \in DOMAIN list : list[i].id = read.default
      BY <2>1, <1>5 DEF Control!ProfileIds
    <3>3. made + 1 \notin Control!ProfileIds(list)
      <4>1. \A j \in DOMAIN list : list[j].id \in 1..made BY <1>3, EntriesOfLists
      <4> QED BY <4>1, <1>1 DEF Control!ProfileIds
    <3> QED BY <3>1, <3>2, <3>3, <1>1, <1>3, <1>5 DEF NextMade
  <2>2. CASE read.default \notin Control!ProfileIds(read.profiles)
    <3>1. stored.profiles = <<>>
      <4>1. ASSUME NEW i \in DOMAIN stored.profiles, stored.profiles[i].id = stored.default
            PROVE  FALSE
        BY <4>1, <2>2, <1>3, <1>5 DEF Has, Control!ProfileIds
      <4> QED BY <4>1 DEF PinInv, ListsAgree
    <3>2. full = [read EXCEPT !.profiles = profiles, !.default = Head(profiles).id]
      BY <2>2, <1>7
    <3>3. /\ NextMade(profiles) \in Nat /\ IsProfileList(profiles, NextMade(profiles))
          /\ 1 \in DOMAIN profiles
      BY <1>1, <1>3, <1>6, UpsertKeeps
    <3>4. /\ IsSettings(full) /\ full.pins = stored.pins /\ full.profiles = profiles
          /\ full.default = profiles[1].id
      <4>1. profiles \in Seq([id : 1..NextMade(profiles), bridge : Bridges])
        BY <3>3 DEF IsProfileList
      <4>2. Head(profiles) = profiles[1]
        <5> DEFINE S == [id : 1..NextMade(profiles), bridge : Bridges]
        <5>1. profiles \in Seq(S) BY <4>1
        <5> HIDE DEF S
        <5> QED BY <5>1
      <4>3. PICK x : x = profiles[1].id OBVIOUS
      <4>4. full = [read EXCEPT !.profiles = profiles, !.default = x] BY <3>2, <4>2, <4>3
      <4> QED BY <4>3, <4>4, <1>5 DEF IsSettings
    <3>5. \A i \in DOMAIN stored.profiles : FALSE BY <3>1
    <3> QED BY <3>3, <3>4, <3>5
  <2> QED BY <2>1, <2>2
<1>10. /\ IsSettings(stored') /\ stored'.profiles = full.profiles
       /\ stored'.default = full.default /\ stored'.pins = stored.pins
  BY <1>1, <1>8 DEF IsSettings
<1>11. SettingsTyped' BY <1>0, <1>8, <1>9, <1>10 DEF PinInv, SettingsTyped
<1>12. ListsAgree' BY <1>0, <1>8, <1>9, <1>10 DEF ListsAgree
<1>13. NothingLoaded' BY <1>0 DEF NothingLoaded
<1>14. ASSUME NEW t \in PinTabs PROVE PinKept(t)' /\ AskKept(t)'
  <2>1. ASSUME NEW b \in pinned[t] PROVE Has(full.profiles, full.pins[t], b)
    <3>1. PICK i \in DOMAIN stored.profiles :
            stored.profiles[i].id = stored.pins[t] /\ stored.profiles[i].bridge = b
      BY <2>1 DEF PinInv, PinKept, Has
    <3> QED BY <3>1, <1>9
  <2>2. PinKept(t)' BY <2>1, <1>0, <1>8, <1>9, <1>10 DEF PinKept
  <2>3. AskKept(t)' BY <1>0, <1>1 DEF AskKept
  <2> QED BY <2>2, <2>3
<1> QED BY <1>11, <1>12, <1>13, <1>14 DEF PinInv

\* setTabBridge keeps the profiles of all other tabs, and pins the tab to its own.
LEMMA PinningKeepsPins ==
  ASSUME PinInv, NEW t \in PinTabs, NEW input, Control!SetTabBridge(t, input)
  PROVE  PinInv'
<1>0. /\ started /\ started' = started /\ UNCHANGED openTabs /\ openTabs[t] # "nobody"
      /\ asked' = [asked EXCEPT ![t] = {Control!NormalizeBridge(input)}]
      /\ pinned' = [pinned EXCEPT ![t] = {}]
  BY DEF Control!SetTabBridge, Control!toolVars
<1>1. /\ IsSettings(mem) /\ IsSettings(stored) /\ made \in Nat
      /\ DOMAIN asked = PinTabs /\ DOMAIN pinned = PinTabs /\ DOMAIN openTabs = PinTabs
      /\ mem.profiles = stored.profiles /\ IsProfileList(mem.profiles, made)
  BY <1>0 DEF PinInv, SettingsTyped, ListsAgree
<1>2. PICK R : R = Control!UpsertProfile(mem.profiles, input, Control!InUseProfileIds(mem))
  OBVIOUS
<1>3. /\ NextMade(R) \in Nat /\ IsProfileList(R, NextMade(R)) /\ 1 \in DOMAIN R
      /\ R[1].bridge = Control!NormalizeBridge(input)
      /\ \A i \in DOMAIN mem.profiles :
           mem.profiles[i].id \in Control!InUseProfileIds(mem)
             => Has(R, mem.profiles[i].id, mem.profiles[i].bridge)
  BY <1>1, <1>2, UpsertKeeps
<1>4. PICK id : id = R[1].id OBVIOUS
<1>5. Head(R) = R[1]
  <2> DEFINE S == [id : 1..NextMade(R), bridge : Bridges]
  <2>1. R \in Seq(S) BY <1>3 DEF IsProfileList
  <2> HIDE DEF S
  <2> QED BY <2>1, <1>3
<1>6. /\ mem' = [mem EXCEPT !.profiles = R, !.pins[t] = id, !.default = id]
      /\ stored' = [stored EXCEPT !.profiles = R, !.default = id]
      /\ made' = NextMade(R)
  BY <1>2, <1>4, <1>5 DEF Control!SetTabBridge, Control!Count, NextMade
<1>7. /\ IsSettings(mem') /\ mem'.profiles = R /\ mem'.default = id /\ mem'.pins[t] = id
      /\ \A s \in PinTabs : s # t => mem'.pins[s] = mem.pins[s]
  BY <1>1, <1>6 DEF IsSettings
<1>8. /\ IsSettings(stored') /\ stored'.profiles = R /\ stored'.default = id
      /\ stored'.pins = stored.pins
  BY <1>1, <1>6 DEF IsSettings
<1>9. DOMAIN asked' = PinTabs /\ DOMAIN pinned' = PinTabs BY <1>0, <1>1
<1>10. SettingsTyped' BY <1>0, <1>1, <1>3, <1>6, <1>7, <1>8, <1>9 DEF SettingsTyped
<1>11. ListsAgree' BY <1>3, <1>4, <1>6, <1>7, <1>8 DEF ListsAgree
<1>12. NothingLoaded' BY <1>0 DEF NothingLoaded
<1>13. ASSUME NEW s \in PinTabs, NEW b, Has(mem.profiles, mem.pins[s], b)
       PROVE  Has(R, mem.pins[s], b)
  <2>1. mem.pins[s] \in Control!InUseProfileIds(mem) BY <1>1, <1>13, PinsAreInUse
  <2>2. PICK i \in DOMAIN mem.profiles :
          mem.profiles[i].id = mem.pins[s] /\ mem.profiles[i].bridge = b
    BY <1>13 DEF Has
  <2> QED BY <2>1, <2>2, <1>3
<1>14. ASSUME NEW s \in PinTabs PROVE PinKept(s)' /\ AskKept(s)'
  <2>1. CASE s = t
    <3>1. pinned'[s] = {} /\ asked'[s] = {Control!NormalizeBridge(input)}
      BY <2>1, <1>0, <1>1
    <3>2. Has(R, id, Control!NormalizeBridge(input)) BY <1>3, <1>4 DEF Has
    <3> QED BY <3>1, <3>2, <2>1, <1>0, <1>7 DEF PinKept, AskKept
  <2>2. CASE s # t
    <3>1. pinned'[s] = pinned[s] /\ asked'[s] = asked[s] BY <2>2, <1>0, <1>1
    <3>2. \A b \in pinned[s] : /\ Has(mem.profiles, mem.pins[s], b)
                               /\ mem.pins[s] = stored.pins[s]
      BY <1>0, <1>1 DEF PinInv, PinKept
    <3>3. PinKept(s)' BY <3>1, <3>2, <2>2, <1>7, <1>8, <1>13 DEF PinKept
    <3>4. /\ openTabs[s] = "nobody" => asked[s] = {}
          /\ \A b \in asked[s] : openTabs[s] \in {"user", "agent"}
                                   => Has(mem.profiles, mem.pins[s], b)
      BY DEF PinInv, AskKept
    <3>5. AskKept(s)' BY <3>1, <3>4, <2>2, <1>0, <1>7, <1>13 DEF AskKept
    <3> QED BY <3>3, <3>5
  <2> QED BY <2>1, <2>2
<1> QED BY <1>10, <1>11, <1>12, <1>14 DEF PinInv

\* Once the pins are stored, those of all tabs are.
LEMMA StoringKeepsPins ==
  ASSUME PinInv, NEW t \in PinTabs, Control!StorePins(t)
  PROVE  PinInv'
<1>0. /\ asked[t] # {} /\ stored' = [stored EXCEPT !.pins = mem.pins]
      /\ asked' = [asked EXCEPT ![t] = {}]
      /\ pinned' = IF openTabs[t] \in {"user", "agent"} THEN [pinned EXCEPT ![t] = asked[t]]
                   ELSE pinned
      /\ UNCHANGED <<mem, started, made, openTabs>>
  BY DEF Control!StorePins, Control!Exists, Control!toolVars
<1>1. /\ IsSettings(mem) /\ IsSettings(stored) /\ made \in Nat /\ started
      /\ DOMAIN asked = PinTabs /\ DOMAIN pinned = PinTabs /\ DOMAIN openTabs = PinTabs
      /\ mem.profiles = stored.profiles
  BY <1>0 DEF PinInv, SettingsTyped, ListsAgree, NothingLoaded
<1>2. /\ IsSettings(stored') /\ stored'.profiles = stored.profiles
      /\ stored'.default = stored.default /\ stored'.pins = mem.pins
  BY <1>0, <1>1 DEF IsSettings
<1>3. DOMAIN asked' = PinTabs /\ DOMAIN pinned' = PinTabs BY <1>0, <1>1
<1>4. SettingsTyped' BY <1>0, <1>1, <1>2, <1>3 DEF SettingsTyped
<1>5. ListsAgree'
  BY <1>0, <1>2 DEF PinInv, ListsAgree, IsProfileList
<1>6. NothingLoaded' BY <1>0, <1>1 DEF NothingLoaded
<1>7. ASSUME NEW s \in PinTabs PROVE PinKept(s)' /\ AskKept(s)'
  <2>1. AskKept(s)'
    <3>1. asked'[s] = {} \/ asked'[s] = asked[s] BY <1>0, <1>1
    <3> QED BY <3>1, <1>0 DEF PinInv, AskKept
  <2>2. ASSUME NEW b \in pinned'[s] PROVE Has(mem.profiles, mem.pins[s], b)
    <3>1. CASE b \in pinned[s]
      BY <3>1, <1>1 DEF PinInv, PinKept
    <3>2. CASE b \notin pinned[s]
      <4>1. s = t /\ openTabs[t] \in {"user", "agent"} /\ b \in asked[t]
        BY <3>2, <2>2, <1>0, <1>1
      <4> QED BY <4>1 DEF PinInv, AskKept
    <3> QED BY <3>1, <3>2
  <2>3. PinKept(s)' BY <2>2, <1>0, <1>1, <1>2 DEF PinKept
  <2> QED BY <2>1, <2>3
<1> QED BY <1>4, <1>5, <1>6, <1>7 DEF PinInv

\* With a tab goes its pin, and no other's.
LEMMA GoingKeepsPins ==
  ASSUME PinInv, NEW t \in PinTabs, Control!TabGoes(t), UNCHANGED <<started, made, asked>>
  PROVE  PinInv'
<1>0. /\ openTabs' = [openTabs EXCEPT ![t] = "gone"]
      /\ mem' = [mem EXCEPT !.pins[t] = 0]
      /\ stored' = IF mem.pins[t] = 0 THEN stored ELSE [stored EXCEPT !.pins = mem'.pins]
      /\ pinned' = [pinned EXCEPT ![t] = {}]
  BY DEF Control!TabGoes
<1>1. /\ IsSettings(mem) /\ IsSettings(stored) /\ made \in Nat
      /\ DOMAIN asked = PinTabs /\ DOMAIN pinned = PinTabs /\ DOMAIN openTabs = PinTabs
  BY DEF PinInv, SettingsTyped
<1>2. /\ IsSettings(mem') /\ mem'.profiles = mem.profiles /\ mem'.default = mem.default
      /\ mem'.pins[t] = 0 /\ \A s \in PinTabs : s # t => mem'.pins[s] = mem.pins[s]
  BY <1>0, <1>1 DEF IsSettings
<1>3. /\ IsSettings(stored') /\ stored'.profiles = stored.profiles
      /\ stored'.default = stored.default
      /\ stored'.pins = stored.pins \/ (stored'.pins = mem'.pins /\ mem.pins[t] # 0)
  BY <1>0, <1>1, <1>2 DEF IsSettings
<1>4. DOMAIN pinned' = PinTabs /\ DOMAIN openTabs' = PinTabs BY <1>0, <1>1
<1>5. SettingsTyped' BY <1>1, <1>2, <1>3, <1>4 DEF SettingsTyped
<1>6. ListsAgree'
  BY <1>2, <1>3 DEF PinInv, ListsAgree, IsProfileList
<1>7. NothingLoaded' BY <1>2 DEF PinInv, NothingLoaded
<1>8. ASSUME NEW s \in PinTabs PROVE PinKept(s)' /\ AskKept(s)'
  <2>1. CASE s = t
    <3>1. pinned'[s] = {} BY <2>1, <1>0, <1>1
    <3>2. openTabs'[s] = "gone" BY <2>1, <1>0, <1>1
    <3> QED BY <3>1, <3>2 DEF PinKept, AskKept
  <2>2. CASE s # t
    <3>1. /\ pinned'[s] = pinned[s] /\ mem'.pins[s] = mem.pins[s] /\ asked'[s] = asked[s]
          /\ openTabs'[s] = openTabs[s]
      BY <2>2, <1>0, <1>1, <1>2
    <3>2. ASSUME NEW b \in pinned[s] PROVE stored'.pins[s] = stored.pins[s]
      <4>1. CASE started BY <4>1, <3>1, <1>3 DEF PinInv, PinKept
      <4>2. CASE ~started BY <4>2, <1>3 DEF PinInv, NothingLoaded
      <4> QED BY <4>1, <4>2
    <3>3. PinKept(s)' BY <3>1, <3>2, <1>3 DEF PinInv, PinKept, Has
    <3>4. AskKept(s)' BY <3>1, <1>2 DEF PinInv, AskKept, Has
    <3> QED BY <3>3, <3>4
  <2> QED BY <2>1, <2>2
<1> QED BY <1>5, <1>6, <1>7, <1>8 DEF PinInv

(***************************************************************************)
(* Tabs that agents opened.  Whatever a call or onRemoved has read of the  *)
(* set in storage, and the set itself, are tabs that an agent opened,      *)
(* there or gone.                                                          *)
(***************************************************************************)
OfAgents(set, tabsNow) == \A t \in set : t \in PinTabs /\ tabsNow[t] \in {"agent", "gone"}

Tracks(r, tabsNow) ==
  /\ r.at = "track" => OfAgents(r.tabs, tabsNow)
  /\ r.at = "save" => OfAgents(r.set, tabsNow)
  /\ r.at = "closing" => OfAgents(r.todo, tabsNow)

TidyInv ==
  /\ strayed = FALSE /\ DOMAIN agentCall = AgentCalls /\ DOMAIN openTabs = PinTabs
  /\ OfAgents(agentTabs, openTabs)
  /\ \A h \in tidying : OfAgents(h.set, openTabs)
  /\ \A c \in AgentCalls : Tracks(agentCall[c], openTabs)

\* A tab that an agent opened never becomes the user's.
AgentsStay ==
  /\ DOMAIN openTabs' = PinTabs
  /\ \A t \in PinTabs : openTabs[t] \in {"agent", "gone"} => openTabs'[t] \in {"agent", "gone"}

\* A call goes on with tabs that agents opened.
LEMMA CallPut ==
  ASSUME TidyInv, AgentsStay, NEW c \in AgentCalls, NEW r, Control!PutCall(c, r),
         Tracks(r, openTabs')
  PROVE  DOMAIN agentCall' = AgentCalls /\ \A d \in AgentCalls : Tracks(agentCall'[d], openTabs')
<1>1. /\ DOMAIN agentCall' = AgentCalls /\ agentCall'[c] = r
      /\ \A d \in AgentCalls : d # c => agentCall'[d] = agentCall[d]
  BY DEF TidyInv, Control!PutCall
<1>2. ASSUME NEW d \in AgentCalls, d # c PROVE Tracks(agentCall'[d], openTabs')
  <2>1. agentCall'[d] = agentCall[d] /\ Tracks(agentCall[d], openTabs)
    BY <1>1, <1>2 DEF TidyInv
  <2> QED BY <2>1 DEF Tracks, OfAgents, AgentsStay
<1> QED BY <1>1, <1>2

\* What goes on beside the tools.
LEMMA ToolsStay == ASSUME TidyInv, UNCHANGED Control!toolVars PROVE TidyInv'
BY DEF TidyInv, Control!toolVars, OfAgents, Tracks

\* A tab that goes was told to onRemoved, which reads the agent's tabs.
LEMMA GoneTabs ==
  ASSUME TidyInv, NEW t \in PinTabs, Control!TabGoes(t)
  PROVE  AgentsStay /\ \A h \in tidying' : OfAgents(h.set, openTabs')
<1>1. /\ openTabs' = [openTabs EXCEPT ![t] = "gone"]
      /\ tidying' = tidying \cup {[tab |-> t, set |-> agentTabs]}
  BY DEF Control!TabGoes
<1>2. AgentsStay BY <1>1 DEF AgentsStay, TidyInv
<1>3. ASSUME NEW h \in tidying' PROVE OfAgents(h.set, openTabs)
  <2>1. CASE h \in tidying BY <2>1 DEF TidyInv
  <2>2. CASE h = [tab |-> t, set |-> agentTabs]
    <3>1. h.set = agentTabs BY <2>2
    <3> QED BY <3>1 DEF TidyInv
  <2> QED BY <2>1, <2>2, <1>1
<1> QED BY <1>2, <1>3 DEF OfAgents, AgentsStay

\* Every tool and every closed tab keeps the user's tabs out.
LEMMA ToolsKeepTidy == ASSUME TidyInv, Control!Next PROVE TidyInv'
<1>1. CASE \/ Control!Boot \/ Control!ApplySettings \/ Control!Alarm \/ Control!TimerFires
           \/ \E g \in Control!Dials : \/ Control!Dialed(g) \/ Control!DialFails(g)
                                       \/ Control!Opened(g) \/ Control!Closed(g)
           \/ \E t \in PinTabs, input \in Control!Inputs : Control!SetTabBridge(t, input)
           \/ \E t \in PinTabs : Control!StorePins(t)
           \/ \E b \in BOOLEAN : Control!SetSettings(b)
  <2>1. UNCHANGED Control!toolVars
    BY <1>1 DEF Control!Boot, Control!ApplySettings, Control!Alarm, Control!TimerFires,
      Control!Dialed, Control!DialFails, Control!Opened, Control!Closed, Control!SetTabBridge,
      Control!StorePins, Control!SetSettings
  <2> QED BY <2>1, ToolsStay
<1>2. ASSUME Control!Recycle PROVE TidyInv'
  <2>1. /\ agentCall' = [c \in AgentCalls |-> [at |-> "idle"]] /\ tidying' = {}
        /\ UNCHANGED <<openTabs, agentTabs, strayed>>
    BY <1>2 DEF Control!Recycle
  <2>2. \A c \in AgentCalls : agentCall'[c].at = "idle" BY <2>1
  <2>3. \A c \in AgentCalls : Tracks(agentCall'[c], openTabs') BY <2>2 DEF Tracks
  <2> QED BY <2>1, <2>3 DEF TidyInv, OfAgents
<1>3. ASSUME NEW t \in PinTabs, Control!UserCloses(t) PROVE TidyInv'
  <2>1. Control!TabGoes(t) /\ UNCHANGED <<agentTabs, agentCall, strayed>>
    BY <1>3 DEF Control!UserCloses
  <2>2. AgentsStay /\ \A h \in tidying' : OfAgents(h.set, openTabs') BY <2>1, GoneTabs
  <2> QED BY <2>1, <2>2 DEF TidyInv, AgentsStay, OfAgents, Tracks
<1>4. ASSUME NEW h \in tidying, Control!Tidied(h) PROVE TidyInv'
  BY <1>4 DEF TidyInv, Control!Tidied, Control!UNCHANGEDBesides, OfAgents, Tracks
<1>5. ASSUME NEW c \in AgentCalls, Control!ReadAgentTabs(c) PROVE TidyInv'
  <2>1. UNCHANGED <<openTabs, agentTabs, tidying, strayed>>
    BY <1>5 DEF Control!ReadAgentTabs, Control!UNCHANGEDBesides
  <2>2. PICK s : s = IF agentCall[c].at = "track" THEN agentTabs \cup agentCall[c].tabs
                     ELSE agentTabs \ agentCall[c].tabs
    OBVIOUS
  <2>3. PICK r : r = [at |-> "save", set |-> s] OBVIOUS
  <2>4. Control!PutCall(c, r) BY <1>5, <2>2, <2>3 DEF Control!ReadAgentTabs
  <2>5. OfAgents(s, openTabs) BY <2>2 DEF TidyInv, Tracks, OfAgents
  <2>6. AgentsStay BY <2>1 DEF TidyInv, AgentsStay
  <2>7. Tracks(r, openTabs') BY <2>1, <2>3, <2>5 DEF Tracks, OfAgents
  <2> QED BY <2>1, <2>4, <2>6, <2>7, CallPut DEF TidyInv, OfAgents
<1>6. ASSUME NEW c \in AgentCalls, Control!SaveAgentTabs(c) PROVE TidyInv'
  <2>1. /\ UNCHANGED <<openTabs, tidying, strayed>> /\ agentTabs' = agentCall[c].set
        /\ agentCall[c].at = "save" /\ Control!PutCall(c, [at |-> "idle"])
    BY <1>6 DEF Control!SaveAgentTabs, Control!UNCHANGEDBesides
  <2>2. OfAgents(agentTabs', openTabs') BY <2>1 DEF TidyInv, Tracks, OfAgents
  <2>3. AgentsStay BY <2>1 DEF TidyInv, AgentsStay
  <2>4. Tracks([at |-> "idle"], openTabs') BY DEF Tracks
  <2> QED BY <2>1, <2>2, <2>3, <2>4, CallPut DEF TidyInv, OfAgents
<1>7. ASSUME NEW c \in AgentCalls, Control!ListAgentTabs(c) PROVE TidyInv'
  <2>1. UNCHANGED <<openTabs, agentTabs, tidying, strayed>>
    BY <1>7 DEF Control!ListAgentTabs, Control!UNCHANGEDBesides
  <2>2. PICK r : r = [at |-> "closing", tabs |-> agentTabs, todo |-> agentTabs] OBVIOUS
  <2>3. Control!PutCall(c, r) BY <1>7, <2>2 DEF Control!ListAgentTabs
  <2>4. AgentsStay BY <2>1 DEF TidyInv, AgentsStay
  <2>5. Tracks(r, openTabs') BY <2>1, <2>2 DEF TidyInv, Tracks
  <2> QED BY <2>1, <2>3, <2>4, <2>5, CallPut DEF TidyInv, OfAgents
<1>8. ASSUME NEW c \in AgentCalls, NEW t \in PinTabs, Control!OpenTab(c, t) PROVE TidyInv'
  <2>1. /\ UNCHANGED <<agentTabs, tidying, strayed>> /\ openTabs[t] = "nobody"
        /\ openTabs' = [openTabs EXCEPT ![t] = "agent"]
        /\ Control!PutCall(c, [at |-> "track", tabs |-> {t}])
    BY <1>8 DEF Control!OpenTab, Control!UNCHANGEDBesides
  <2>2. AgentsStay BY <2>1 DEF TidyInv, AgentsStay
  <2>3. Tracks([at |-> "track", tabs |-> {t}], openTabs')
    BY <2>1 DEF Tracks, OfAgents, TidyInv
  <2> QED BY <2>1, <2>2, <2>3, CallPut DEF TidyInv, OfAgents, AgentsStay
<1>9. ASSUME NEW c \in AgentCalls, NEW t \in PinTabs, Control!EnableTab(c, t) PROVE TidyInv'
  BY <1>9, ToolsStay DEF Control!EnableTab, Control!UNCHANGEDBesides, Control!toolVars
<1>10. ASSUME NEW c \in AgentCalls, NEW t \in PinTabs, Control!CloseTab(c, t) PROVE TidyInv'
  <2>1. /\ UNCHANGED <<agentTabs, strayed>> /\ Control!TabGoes(t)
        /\ Control!PutCall(c, [at |-> "forget", tabs |-> {t}])
    BY <1>10 DEF Control!CloseTab
  <2>2. AgentsStay /\ \A h \in tidying' : OfAgents(h.set, openTabs') BY <2>1, GoneTabs
  <2>3. Tracks([at |-> "forget", tabs |-> {t}], openTabs') BY DEF Tracks
  <2> QED BY <2>1, <2>2, <2>3, CallPut DEF TidyInv, OfAgents, AgentsStay
<1>11. ASSUME NEW c \in AgentCalls, NEW t \in PinTabs, Control!CloseAgentTab(c, t)
       PROVE  TidyInv'
  <2>1. /\ agentCall[c].at = "closing" /\ t \in agentCall[c].todo /\ UNCHANGED agentTabs
    BY <1>11 DEF Control!CloseAgentTab
  <2>2. OfAgents(agentCall[c].todo, openTabs) BY <2>1 DEF TidyInv, Tracks
  <2>3. openTabs[t] \in {"agent", "gone"} BY <2>1, <2>2 DEF OfAgents
  <2>4. /\ strayed' = FALSE
        /\ \/ UNCHANGED <<openTabs, tidying>>
           \/ Control!TabGoes(t)
    BY <1>11, <2>3 DEF Control!CloseAgentTab, TidyInv
  <2>5. AgentsStay /\ \A h \in tidying' : OfAgents(h.set, openTabs')
    <3>1. CASE UNCHANGED <<openTabs, tidying>> BY <3>1 DEF TidyInv, AgentsStay
    <3>2. CASE Control!TabGoes(t) BY <3>2, GoneTabs
    <3> QED BY <3>1, <3>2, <2>4
  <2>6. CASE agentCall[c].todo = {t}
    <3>1. Control!PutCall(c, [at |-> "forget", tabs |-> agentCall[c].tabs])
      BY <1>11, <2>6 DEF Control!CloseAgentTab
    <3>2. Tracks([at |-> "forget", tabs |-> agentCall[c].tabs], openTabs') BY DEF Tracks
    <3> QED BY <3>1, <3>2, <2>1, <2>4, <2>5, CallPut DEF TidyInv, OfAgents, AgentsStay
  <2>7. CASE agentCall[c].todo # {t}
    <3>1. PICK r : r = [agentCall[c] EXCEPT !.todo = @ \ {t}] OBVIOUS
    <3>2. Control!PutCall(c, r) BY <1>11, <2>7, <3>1 DEF Control!CloseAgentTab
    <3>3. r.at = "closing" /\ \A s \in r.todo : s \in agentCall[c].todo
      BY <2>1, <3>1
    <3>4. Tracks(r, openTabs') BY <3>3, <2>2, <2>5 DEF Tracks, OfAgents, AgentsStay
    <3> QED BY <3>2, <3>4, <2>1, <2>4, <2>5, CallPut DEF TidyInv, OfAgents, AgentsStay
  <2> QED BY <2>6, <2>7
<1> QED BY <1>1, <1>2, <1>3, <1>4, <1>5, <1>6, <1>7, <1>8, <1>9, <1>10, <1>11
        DEF Control!Next

\* The worker, the popup, the tools and the browser keep every confirmed pin.
LEMMA ControlKeepsPins == ASSUME PinInv, Control!Next PROVE PinInv'
<1>0. IsSettings(mem) /\ IsSettings(stored) /\ DOMAIN openTabs = PinTabs
  BY DEF PinInv, SettingsTyped
<1>1. CASE \/ Control!TimerFires
           \/ \E g \in Control!Dials : \/ Control!Dialed(g) \/ Control!DialFails(g)
                                       \/ Control!Opened(g) \/ Control!Closed(g)
           \/ Control!Alarm
           \/ \E h \in tidying : Control!Tidied(h)
           \/ \E c \in AgentCalls : \/ Control!ReadAgentTabs(c) \/ Control!SaveAgentTabs(c)
                                    \/ Control!ListAgentTabs(c)
           \/ \E c \in AgentCalls, t \in PinTabs : Control!EnableTab(c, t)
  <2>1. UNCHANGED <<mem, stored, started, made, asked, pinned, openTabs>>
    BY <1>1 DEF Control!TimerFires, Control!Dialed, Control!DialFails, Control!Opened,
      Control!Closed, Control!Alarm, Control!Tidied, Control!ReadAgentTabs,
      Control!SaveAgentTabs, Control!ListAgentTabs, Control!EnableTab,
      Control!UNCHANGEDBesides, Control!bridgeVars, Control!toolVars
  <2> QED BY <2>1, <1>0, SettingsStay
<1>2. ASSUME Control!Boot PROVE PinInv' BY <1>2, BootKeepsPins
<1>3. ASSUME NEW t \in PinTabs, NEW input, Control!SetTabBridge(t, input) PROVE PinInv'
  BY <1>3, PinningKeepsPins
<1>4. ASSUME NEW t \in PinTabs, Control!StorePins(t) PROVE PinInv'
  BY <1>4, StoringKeepsPins
<1>5. ASSUME NEW t \in PinTabs, Control!UserCloses(t) PROVE PinInv'
  BY <1>5, GoingKeepsPins DEF Control!UserCloses
<1>6. ASSUME NEW c, NEW t \in PinTabs, Control!CloseTab(c, t) PROVE PinInv'
  BY <1>6, GoingKeepsPins DEF Control!CloseTab
<1>7. ASSUME NEW c, NEW t \in PinTabs, Control!CloseAgentTab(c, t) PROVE PinInv'
  <2>1. /\ UNCHANGED <<started, made, asked>>
        /\ UNCHANGED <<mem, stored, pinned, openTabs>> \/ Control!TabGoes(t)
    BY <1>7 DEF Control!CloseAgentTab
  <2>2. CASE UNCHANGED <<mem, stored, pinned, openTabs>> BY <2>1, <2>2, <1>0, SettingsStay
  <2> QED BY <2>1, <2>2, GoingKeepsPins
<1>8. ASSUME NEW c, NEW t \in PinTabs, Control!OpenTab(c, t) PROVE PinInv'
  <2>1. /\ UNCHANGED <<mem, stored, started, made, asked, pinned>> /\ openTabs[t] = "nobody"
        /\ openTabs' = [openTabs EXCEPT ![t] = "agent"]
    BY <1>8 DEF Control!OpenTab, Control!UNCHANGEDBesides, Control!bridgeVars
  <2>2. /\ DOMAIN openTabs' = PinTabs
        /\ \A s \in PinTabs : openTabs'[s] = openTabs[s] \/ openTabs[s] = "nobody"
    BY <2>1, <1>0
  <2> QED BY <2>1, <2>2, SettingsStay
<1>9. ASSUME NEW b \in BOOLEAN, Control!SetSettings(b) PROVE PinInv'
  <2>1. /\ mem' = [mem EXCEPT !.control = b]
        /\ UNCHANGED <<stored, started, made, asked, pinned, openTabs>>
    BY <1>9 DEF Control!SetSettings, Control!bridgeVars, Control!toolVars
  <2>2. /\ IsSettings(mem') /\ mem'.profiles = mem.profiles /\ mem'.default = mem.default
        /\ mem'.pins = mem.pins
    BY <2>1, <1>0 DEF IsSettings
  <2> QED BY <2>1, <2>2, <1>0, OtherSettingsStay
<1>10. ASSUME Control!ApplySettings PROVE PinInv'
  <2>1. /\ stored' = [stored EXCEPT !.control = mem.control]
        /\ UNCHANGED <<mem, started, made, asked, pinned, openTabs>>
    BY <1>10 DEF Control!ApplySettings, Control!bridgeVars, Control!toolVars
  <2>2. /\ IsSettings(stored') /\ stored'.profiles = stored.profiles
        /\ stored'.default = stored.default /\ stored'.pins = stored.pins
    BY <2>1, <1>0 DEF IsSettings
  <2> QED BY <2>1, <2>2, <1>0, OtherSettingsStay
<1>11. ASSUME Control!Recycle PROVE PinInv'
  <2>1. /\ mem' = Control!Unset /\ started' = FALSE /\ asked' = [t \in PinTabs |-> {}]
        /\ UNCHANGED <<stored, made, pinned, openTabs>>
    BY <1>11 DEF Control!Recycle
  <2>2. IsSettings(mem') /\ \A t \in PinTabs : mem'.pins[t] = 0
    BY <2>1 DEF Control!Unset, IsSettings
  <2>3. DOMAIN asked' = PinTabs /\ \A t \in PinTabs : asked'[t] = {} BY <2>1
  <2>4. SettingsTyped' BY <2>1, <2>2, <2>3 DEF PinInv, SettingsTyped
  <2>5. ListsAgree' BY <2>1 DEF PinInv, ListsAgree, IsProfileList
  <2>6. NothingLoaded' BY <2>2, <2>3 DEF NothingLoaded
  <2>7. ASSUME NEW t \in PinTabs PROVE PinKept(t)' /\ AskKept(t)'
    <3>1. \A b \in pinned[t] : Has(stored.profiles, stored.pins[t], b)
      BY DEF PinInv, PinKept
    <3> QED BY <3>1, <2>1, <2>3 DEF PinKept, AskKept
  <2> QED BY <2>4, <2>5, <2>6, <2>7 DEF PinInv
<1> QED BY <1>1, <1>2, <1>3, <1>4, <1>5, <1>6, <1>7, <1>8, <1>9, <1>10, <1>11
        DEF Control!Next

\* bridge-profiles.ts and browser-tools.ts: a bridge the user pinned a tab to, and was
\* told so, stays the tab's while the tab is there, through evictions, restarts and what
\* is asked for other tabs; close_agent_tabs closes no tab of the user.
THEOREM UserTabsStay == Spec => []UserTabsAreKept
<1>1. Init => PinInv /\ TidyInv
  <2> SUFFICES ASSUME Control!Init PROVE PinInv /\ TidyInv BY DEF Init
  <2>1. /\ mem = Control!Unset /\ stored = Control!Unset /\ started = FALSE /\ made = 0
        /\ asked = [t \in PinTabs |-> {}] /\ pinned = asked
        /\ openTabs \in [PinTabs -> {"user", "nobody"}]
        /\ agentTabs = {} /\ tidying = {} /\ strayed = FALSE
        /\ agentCall = [c \in AgentCalls |-> [at |-> "idle"]]
    BY DEF Control!Init
  <2>2. /\ IsSettings(mem) /\ IsSettings(stored) /\ stored.profiles = <<>>
        /\ \A t \in PinTabs : mem.pins[t] = 0
    BY <2>1 DEF Control!Unset, IsSettings
  <2>3. IsProfileList(stored.profiles, made) BY <2>2 DEF IsProfileList
  <2>4. \A t \in PinTabs : asked[t] = {} /\ pinned[t] = {} BY <2>1
  <2>5. SettingsTyped BY <2>1, <2>2 DEF SettingsTyped
  <2>6. ListsAgree BY <2>1, <2>2, <2>3 DEF ListsAgree
  <2>7. NothingLoaded BY <2>2, <2>4 DEF NothingLoaded
  <2>8. PinInv BY <2>4, <2>5, <2>6, <2>7 DEF PinInv, PinKept, AskKept
  <2>9. \A c \in AgentCalls : agentCall[c].at = "idle" BY <2>1
  <2>10. TidyInv BY <2>1, <2>9 DEF TidyInv, OfAgents, Tracks
  <2> QED BY <2>8, <2>10
<1>2. PinInv /\ TidyInv /\ [Next]_extensionVars => (PinInv /\ TidyInv)'
  <2> SUFFICES ASSUME PinInv, TidyInv, [Next]_extensionVars PROVE PinInv' /\ TidyInv'
    OBVIOUS
  <2>1. CASE Control!Next BY <2>1, ControlKeepsPins, ToolsKeepTidy
  <2>2. CASE UNCHANGED controlPart
    <3>1. UNCHANGED <<mem, stored, started, made, asked, pinned, openTabs>>
          /\ UNCHANGED Control!toolVars
      BY <2>2 DEF controlPart, Control!toolVars
    <3>2. DOMAIN openTabs' = PinTabs BY <3>1 DEF PinInv, SettingsTyped
    <3> QED BY <3>1, <3>2, SettingsStay, ToolsStay
  <2> QED BY <2>1, <2>2 DEF Next, extensionVars
<1>3. PinInv /\ TidyInv => UserTabsAreKept
  <2> SUFFICES ASSUME PinInv, TidyInv PROVE UserTabsAreKept OBVIOUS
  <2>1. ASSUME started, NEW t \in PinTabs, NEW b \in pinned[t]
        PROVE  Control!BridgeConfigFor(t) = b
    <3>1. /\ mem.profiles = stored.profiles /\ IsProfileList(mem.profiles, made)
          /\ mem.pins[t] = stored.pins[t] /\ Has(mem.profiles, mem.pins[t], b)
      BY <2>1 DEF PinInv, ListsAgree, PinKept
    <3>2. PICK i \in DOMAIN mem.profiles :
            mem.profiles[i].id = mem.pins[t] /\ mem.profiles[i].bridge = b
      BY <3>1 DEF Has
    <3>3. mem.pins[t] \in Control!ProfileIds(mem.profiles) BY <3>2 DEF Control!ProfileIds
    <3>4. \A j \in DOMAIN mem.profiles : mem.profiles[j].id = mem.pins[t] => j = i
      BY <3>1, <3>2 DEF IsProfileList
    <3>5. (CHOOSE j \in DOMAIN mem.profiles : mem.profiles[j].id = mem.pins[t]) = i
      BY <3>2, <3>4
    <3> QED BY <3>2, <3>3, <3>5 DEF Control!BridgeConfigFor, Control!ProfileById
  <2>2. Control!PinnedBridgeStays BY <2>1 DEF Control!PinnedBridgeStays
  <2>3. Control!SparesTheUser BY DEF TidyInv, Control!SparesTheUser
  <2> QED BY <2>2, <2>3 DEF UserTabsAreKept
<1> QED BY <1>1, <1>2, <1>3, PTL DEF Spec

(***************************************************************************)
(* What is told of tabs and navigations.  A tab the page opens is on its   *)
(* way, in the list, in the hand of one call, told, or forgotten, and in   *)
(* no two of these places; a navigation that is waited for has begun if    *)
(* anything of the tab shows it.                                           *)
(***************************************************************************)
Once(s) == s \in Seq(Kids) /\ \A i, j \in 1..Len(s) : s[i] = s[j] => i = j

HeldOf(r) == IF r.at = "kids" THEN r.kids
             ELSE IF r.at = "answer" /\ r.said.what = "context" THEN r.said.kids ELSE <<>>

\* The parts of what a call keeps.
Shape(r) ==
  /\ "at" \in DOMAIN r
  /\ r.at = "self" => DOMAIN r = {"at", "heard", "place"}
  /\ r.at = "kids" => DOMAIN r = {"at", "heard", "place", "kids"}
  /\ r.at = "waiting" => DOMAIN r = {"at", "heard", "from", "seen"}
  /\ r.at = "probe" => DOMAIN r = {"at", "heard", "from", "tab"}
  /\ r.at = "answer" => DOMAIN r = {"at", "heard", "said"}

\* A tab in which no navigation has begun since r.from is as it was.
Going(r, s) ==
  r.at = "waiting" =>
    /\ r.from.begun \in Nat /\ r.from.begun <= s.begun /\ r.seen \in BOOLEAN
    /\ s.begun = r.from.begun =>
         ~r.seen /\ s.status = "complete" /\ s.url = r.from.url /\ s.docs = r.from.docs

Reported(r) ==
  /\ r.at = "probe" => r.tab.begun > r.from.begun /\ r.tab.status = "complete"
  /\ (r.at = "answer" /\ r.said.what = "nothing" /\ "tab" \in DOMAIN r.said)
       => r.said.tab.docs = r.said.from.docs

ErrandSound(r, s) == Shape(r) /\ Once(HeldOf(r)) /\ Going(r, s) /\ Reported(r)

IsTab(s) ==
  /\ DOMAIN s = {"status", "url", "doc", "asked", "begun", "docs", "fresh"}
  /\ s.begun \in Nat

OnePlace ==
  /\ Once(opened) /\ DOMAIN told = Kids
  /\ \A k \in Kids :
       /\ told[k] \in {0, 1}
       /\ k \in opening => told[k] = 0 /\ ~In(opened, k)
       /\ told[k] = 1 => ~In(opened, k)
       /\ \A c \in Errs : In(HeldOf(errand[c]), k) =>
            /\ k \notin opening /\ told[k] = 0 /\ ~In(opened, k)
            /\ \A d \in Errs : In(HeldOf(errand[d]), k) => d = c

ErrandInv ==
  /\ DOMAIN errand = Errs /\ IsTab(surf)
  /\ \A c \in Errs : ErrandSound(errand[c], surf)
  /\ OnePlace

\* A call may go on with what is sound and holds no more than it did.
LEMMA PutKeeps ==
  ASSUME ErrandInv, NEW c \in Errs, NEW r, ErrandSound(r, surf),
         \A k : In(HeldOf(r), k) => In(HeldOf(errand[c]), k),
         errand' = [errand EXCEPT ![c] = r],
         UNCHANGED <<opened, opening, told, surf>>
  PROVE  ErrandInv'
<1> USE DEF ErrandInv
<1>1. errand'[c] = r /\ \A d \in Errs : d # c => errand'[d] = errand[d] OBVIOUS
<1>2. \A d \in Errs : ErrandSound(errand'[d], surf) BY <1>1
<1>3. \A d \in Errs, k \in Kids : In(HeldOf(errand'[d]), k) => In(HeldOf(errand[d]), k)
  BY <1>1
<1>4. OnePlace' BY <1>3 DEF OnePlace
<1> QED BY <1>2, <1>4

\* Nothing is held where nothing is told of.
LEMMA NothingHeld ==
  /\ Once(<<>>) /\ \A k : ~In(<<>>, k)
  /\ \A r, s : (Shape(r) /\ r.at \notin {"kids", "answer", "waiting", "probe"}) => ErrandSound(r, s)
<1>1. Once(<<>>) BY DEF Once
<1>2. \A k : ~In(<<>>, k) BY DEF In
<1>3. ASSUME NEW r, NEW s, Shape(r), r.at \notin {"kids", "answer", "waiting", "probe"}
      PROVE  ErrandSound(r, s)
  <2>1. HeldOf(r) = <<>> BY <1>3 DEF HeldOf
  <2> QED BY <2>1, <1>1, <1>3 DEF ErrandSound, Going, Reported
<1> QED BY <1>1, <1>2, <1>3

\* An answer that is no context holds nothing.
LEMMA PlainAnswer ==
  ASSUME NEW heard, NEW said, NEW s, said.what # "context",
         said.what # "nothing" \/ "tab" \notin DOMAIN said \/ said.tab.docs = said.from.docs
  PROVE  ErrandSound(Err!Answer(heard, said), s) /\ \A k : ~In(HeldOf(Err!Answer(heard, said)), k)
<1> DEFINE r == Err!Answer(heard, said)
<1>1. DOMAIN r = {"at", "heard", "said"} /\ r.at = "answer" /\ r.said = said
  BY DEF Err!Answer
<1> HIDE DEF r
<1>2. HeldOf(r) = <<>> BY <1>1 DEF HeldOf
<1> QED BY <1>1, <1>2, NothingHeld DEF r, ErrandSound, Shape, Going, Reported

\* What a browser does keeps every wait sound: a tab is only seen to change after a
\* navigation began.
LEMMA BrowserKeeps ==
  ASSUME ErrandInv, IsTab(surf'), surf'.begun >= surf.begun,
         surf'.begun = surf.begun =>
           /\ surf'.status = surf.status \/ surf.status # "complete"
           /\ (surf.status = "complete") => surf'.url = surf.url /\ surf'.docs = surf.docs
  PROVE  \A d \in Errs : ErrandSound(errand[d], surf')
<1> SUFFICES ASSUME NEW d \in Errs PROVE Going(errand[d], surf')
  BY DEF ErrandInv, ErrandSound
<1>1. Going(errand[d], surf) /\ surf.begun \in Nat /\ surf'.begun \in Nat
  BY DEF ErrandInv, ErrandSound, IsTab
<1> QED BY <1>1 DEF Going

\* The tab moves, and no call goes on.
LEMMA BrowsingKeeps ==
  ASSUME ErrandInv, \A d \in Errs : ErrandSound(errand[d], surf'), IsTab(surf'),
         UNCHANGED <<opened, opening, told, errand>>
  PROVE  ErrandInv'
BY DEF ErrandInv, OnePlace

\* The browser begins what it was asked, loads, and comes to rest.
LEMMA TabMoves ==
  ASSUME ErrandInv
  PROVE  /\ Err!Begins => ErrandInv'
         /\ Err!Finishes => ErrandInv'
         /\ \A url : Err!SameDocument(url) => ErrandInv'
         /\ \A doc, url : Err!Commits(doc, url) => ErrandInv'
<1>0. IsTab(surf) BY DEF ErrandInv
<1>1. ASSUME Err!Begins PROVE ErrandInv'
  <2>1. surf' = [surf EXCEPT !.asked = FALSE, !.begun = @ + 1, !.status = "loading", !.fresh = TRUE]
    BY <1>1 DEF Err!Begins, Err!Browse
  <2>2. IsTab(surf') /\ surf'.begun = surf.begun + 1 /\ surf.begun \in Nat BY <2>1, <1>0 DEF IsTab
  <2>3. surf'.begun >= surf.begun /\ surf'.begun # surf.begun BY <2>2
  <2>4. \A d \in Errs : ErrandSound(errand[d], surf') BY <2>2, <2>3, BrowserKeeps
  <2>5. UNCHANGED <<opened, opening, told, errand>> BY <1>1 DEF Err!Begins, Err!Browse
  <2> QED BY <2>2, <2>4, <2>5, BrowsingKeeps
<1>2. ASSUME Err!Finishes PROVE ErrandInv'
  <2>1. surf' = [surf EXCEPT !.status = "complete", !.fresh = FALSE] /\ surf.status = "loading"
    BY <1>2 DEF Err!Finishes, Err!Browse
  <2>2. IsTab(surf') /\ surf'.begun = surf.begun /\ surf.begun \in Nat /\ surf.status # "complete"
    BY <2>1, <1>0 DEF IsTab
  <2>4. \A d \in Errs : ErrandSound(errand[d], surf') BY <2>2, BrowserKeeps
  <2>5. UNCHANGED <<opened, opening, told, errand>> BY <1>2 DEF Err!Finishes, Err!Browse
  <2> QED BY <2>2, <2>4, <2>5, BrowsingKeeps
<1>3. ASSUME NEW url, Err!SameDocument(url) PROVE ErrandInv'
  <2>1. surf' = [surf EXCEPT !.asked = FALSE, !.begun = @ + 1, !.url = url]
    BY <1>3 DEF Err!SameDocument, Err!Browse
  <2>2. IsTab(surf') /\ surf'.begun = surf.begun + 1 /\ surf.begun \in Nat BY <2>1, <1>0 DEF IsTab
  <2>3. surf'.begun >= surf.begun /\ surf'.begun # surf.begun BY <2>2
  <2>4. \A d \in Errs : ErrandSound(errand[d], surf') BY <2>2, <2>3, BrowserKeeps
  <2>5. UNCHANGED <<opened, opening, told, errand>> BY <1>3 DEF Err!SameDocument, Err!Browse
  <2> QED BY <2>2, <2>4, <2>5, BrowsingKeeps
<1>4. ASSUME NEW doc, NEW url, Err!Commits(doc, url) PROVE ErrandInv'
  <2>1. /\ surf' = [surf EXCEPT !.fresh = FALSE, !.docs = @ + 1, !.doc = doc, !.url = url]
        /\ surf.status = "loading"
    BY <1>4 DEF Err!Commits, Err!Browse
  <2>2. /\ IsTab(surf') /\ surf'.begun = surf.begun /\ surf.begun \in Nat
        /\ surf'.status = surf.status /\ surf.status # "complete"
    BY <2>1, <1>0 DEF IsTab
  <2>4. \A d \in Errs : ErrandSound(errand[d], surf') BY <2>2, BrowserKeeps
  <2>5. UNCHANGED <<opened, opening, told, errand>> BY <1>4 DEF Err!Commits, Err!Browse
  <2> QED BY <2>2, <2>4, <2>5, BrowsingKeeps
<1> QED BY <1>1, <1>2, <1>3, <1>4

\* A call about downloads, a read or a reading of the tab's list goes on.
LEMMA ErrandsGoOn ==
  ASSUME ErrandInv, NEW c \in Errs
  PROVE  /\ Err!Downloads(c) => ErrandInv'
         /\ Err!DownloadList(c) => ErrandInv'
         /\ Err!DownloadWait(c) => ErrandInv'
         /\ Err!TabContext(c) => ErrandInv'
         /\ Err!BridgeRpcTimeout(c) => ErrandInv'
         /\ \A socketOpen : Err!CallBridge(c, socketOpen) => ErrandInv'
<1>1. ASSUME NEW r, Shape(r), r.at \notin {"kids", "answer", "waiting", "probe"},
             Err!PutErrand(c, r), UNCHANGED <<opened, opening, told, surf>>
      PROVE  ErrandInv'
  <2>1. ErrandSound(r, surf) BY <1>1, NothingHeld
  <2>2. HeldOf(r) = <<>> BY <1>1 DEF HeldOf
  <2>3. \A k : In(HeldOf(r), k) => In(HeldOf(errand[c]), k) BY <2>2, NothingHeld
  <2>4. errand' = [errand EXCEPT ![c] = r] BY <1>1 DEF Err!PutErrand
  <2> QED BY <2>1, <2>3, <2>4, <1>1, PutKeeps
<1>2. ASSUME NEW heard, NEW said, said.what \notin {"context", "nothing"},
             Err!PutErrand(c, Err!Answer(heard, said)), UNCHANGED <<opened, opening, told, surf>>
      PROVE  ErrandInv'
  <2>1. /\ ErrandSound(Err!Answer(heard, said), surf)
        /\ \A k : ~In(HeldOf(Err!Answer(heard, said)), k)
    BY <1>2, PlainAnswer
  <2>2. errand' = [errand EXCEPT ![c] = Err!Answer(heard, said)] BY <1>2 DEF Err!PutErrand
  <2> QED BY <2>1, <2>2, <1>2, PutKeeps
<1>3. ASSUME Err!Downloads(c) PROVE ErrandInv'
  <2>1. UNCHANGED <<opened, opening, told, surf>> BY <1>3 DEF Err!Downloads, Err!contextVars
  <2>2. \E r : Shape(r) /\ r.at \in {"list", "wait"} /\ Err!PutErrand(c, r)
    <3>1. CASE Err!PutErrand(c, [at |-> "list", heard |-> TRUE])
      <4>1. Shape([at |-> "list", heard |-> TRUE]) BY DEF Shape
      <4> QED BY <3>1, <4>1
    <3>2. CASE \E onlyNew \in BOOLEAN, wanted \in {Err!Files} \cup {{f} : f \in Err!Files} :
                 Err!PutErrand(c, [at |-> "wait", heard |-> TRUE, onlyNew |-> onlyNew,
                                   wanted |-> wanted,
                                   known |-> IF onlyNew THEN Err!RecordIds ELSE {},
                                   before |-> Err!Heard])
      <4>1. PICK onlyNew, wanted, known, before :
              Err!PutErrand(c, [at |-> "wait", heard |-> TRUE, onlyNew |-> onlyNew,
                                wanted |-> wanted, known |-> known, before |-> before])
        BY <3>2
      <4> DEFINE r == [at |-> "wait", heard |-> TRUE, onlyNew |-> onlyNew,
                       wanted |-> wanted, known |-> known, before |-> before]
      <4>2. Shape(r) /\ r.at = "wait" BY DEF Shape
      <4> QED BY <4>1, <4>2
    <3> QED BY <1>3, <3>1, <3>2 DEF Err!Downloads
  <2>3. PICK r : Shape(r) /\ r.at \in {"list", "wait"} /\ Err!PutErrand(c, r) BY <2>2
  <2> QED BY <2>1, <2>3, <1>1
<1>4. ASSUME Err!DownloadList(c) PROVE ErrandInv'
  <2>1. Err!PutErrand(c, Err!Answer(errand[c].heard, [what |-> "list"]))
    BY <1>4 DEF Err!DownloadList, Err!Answered
  <2>2. UNCHANGED <<opened, opening, told, surf>> BY <1>4 DEF Err!DownloadList, Err!contextVars
  <2> QED BY <2>1, <2>2, <1>2
<1>5. ASSUME Err!DownloadWait(c) PROVE ErrandInv'
  <2>2. UNCHANGED <<opened, opening, told, surf>> BY <1>5 DEF Err!DownloadWait, Err!contextVars
  <2>3. \/ \E said : said.what \in {"found", "error"} /\ Err!Answered(c, said)
        \/ UNCHANGED errand
    <3>1. ASSUME NEW file, NEW onlyNew, NEW before,
                 Err!Answered(c, [what |-> "found", file |-> file, onlyNew |-> onlyNew,
                                  before |-> before])
          PROVE  \E said : said.what \in {"found", "error"} /\ Err!Answered(c, said)
      <4> DEFINE said == [what |-> "found", file |-> file, onlyNew |-> onlyNew, before |-> before]
      <4>1. said.what = "found" /\ Err!Answered(c, said) BY <3>1
      <4> QED BY <4>1
    <3>2. ASSUME Err!Answered(c, [what |-> "error"])
          PROVE  \E said : said.what \in {"found", "error"} /\ Err!Answered(c, said)
      <4>1. [what |-> "error"].what = "error" OBVIOUS
      <4> QED BY <3>2, <4>1
    <3> QED BY <1>5, <3>1, <3>2 DEF Err!DownloadWait
  <2>4. CASE UNCHANGED errand BY <2>2, <2>4 DEF ErrandInv, OnePlace
  <2>5. ASSUME NEW said, said.what \in {"found", "error"}, Err!Answered(c, said) PROVE ErrandInv'
    BY <2>5, <2>2, <1>2 DEF Err!Answered
  <2> QED BY <2>3, <2>4, <2>5
<1>6. ASSUME Err!TabContext(c) PROVE ErrandInv'
  <2> DEFINE r == [at |-> "self", heard |-> TRUE, place |-> surf.url]
  <2>1. Err!PutErrand(c, r) /\ UNCHANGED <<opened, opening, told, surf>>
    BY <1>6 DEF Err!TabContext, Err!contextVars
  <2>2. Shape(r) /\ r.at = "self" BY DEF Shape
  <2> QED BY <2>1, <2>2, <1>1
<1>7. ASSUME Err!BridgeRpcTimeout(c) PROVE ErrandInv'
  <2>1. Err!PutErrand(c, Err!Answer(errand[c].heard, [what |-> "error"]))
    BY <1>7 DEF Err!BridgeRpcTimeout, Err!Answered
  <2>2. UNCHANGED <<opened, opening, told, surf>> BY <1>7 DEF Err!BridgeRpcTimeout, Err!contextVars
  <2> QED BY <2>1, <2>2, <1>2
<1>8. ASSUME NEW socketOpen, Err!CallBridge(c, socketOpen) PROVE ErrandInv'
  <2>1. UNCHANGED <<opened, opening, told, surf>> BY <1>8 DEF Err!CallBridge, Err!contextVars
  <2>2. CASE ~socketOpen
    <3>1. Err!PutErrand(c, Err!Answer(TRUE, [what |-> "error"])) BY <1>8, <2>2 DEF Err!CallBridge
    <3> QED BY <3>1, <2>1, <1>2
  <2>3. CASE ~(~socketOpen)
    <3> DEFINE r == [at |-> "read", heard |-> TRUE, id |-> rpcSeq + 1]
    <3>1. Err!PutErrand(c, r) BY <1>8, <2>3 DEF Err!CallBridge
    <3>2. Shape(r) /\ r.at = "read" BY DEF Shape
    <3> QED BY <3>1, <3>2, <2>1, <1>1
  <2> QED BY <2>2, <2>3
<1> QED BY <1>3, <1>4, <1>5, <1>6, <1>7, <1>8

\* A navigation is asked for, waited for and reported.
LEMMA NavigationKeeps ==
  ASSUME ErrandInv, NEW c \in Errs
  PROVE  /\ Err!Navigate(c) => ErrandInv'
         /\ \A late : Err!Poll(c, late) => ErrandInv'
         /\ Err!Probe(c) => ErrandInv'
<1>0. ErrandSound(errand[c], surf) /\ IsTab(surf) /\ surf.begun \in Nat BY DEF ErrandInv, IsTab
<1>1. ASSUME Err!Navigate(c) PROVE ErrandInv'
  <2>1. /\ UNCHANGED <<opened, opening, told>> /\ errand[c] = [at |-> "idle"]
        /\ surf.status = "complete"
    BY <1>1 DEF Err!Navigate, Err!contextVars, Err!NoErrand, Err!Idle
  <2>2. ASSUME surf' = [surf EXCEPT !.asked = TRUE],
               Err!PutErrand(c, [at |-> "waiting", heard |-> TRUE, from |-> surf, seen |-> FALSE])
        PROVE  ErrandInv'
    <3> DEFINE r == [at |-> "waiting", heard |-> TRUE, from |-> surf, seen |-> FALSE]
    <3>1. /\ IsTab(surf') /\ surf'.begun = surf.begun /\ surf'.status = surf.status
          /\ surf'.url = surf.url /\ surf'.docs = surf.docs
      BY <2>2, <1>0 DEF IsTab
    <3>2. \A d \in Errs : ErrandSound(errand[d], surf') BY <3>1, <1>0, BrowserKeeps
    <3>3. ErrandSound(r, surf')
      <4>1. Shape(r) /\ r.at = "waiting" /\ r.from = surf /\ ~r.seen /\ r.seen \in BOOLEAN
        BY DEF Shape
      <4> HIDE DEF r
      <4>2. HeldOf(r) = <<>> BY <4>1 DEF HeldOf
      <4>3. Going(r, surf') BY <4>1, <3>1, <2>1, <1>0 DEF Going
      <4> QED BY <4>1, <4>2, <4>3, NothingHeld DEF ErrandSound, Reported
    <3>4. errand' = [errand EXCEPT ![c] = r] BY <2>2 DEF Err!PutErrand
    <3>5. HeldOf(r) = <<>> BY DEF HeldOf
    <3> HIDE DEF r
    <3>6. /\ DOMAIN errand' = Errs /\ errand'[c] = r
          /\ \A d \in Errs : d # c => errand'[d] = errand[d]
      BY <3>4 DEF ErrandInv
    <3>7. \A d \in Errs : ErrandSound(errand'[d], surf') BY <3>2, <3>3, <3>6
    <3>8. \A d \in Errs, k \in Kids : In(HeldOf(errand'[d]), k) => In(HeldOf(errand[d]), k)
      BY <3>5, <3>6, NothingHeld
    <3>9. OnePlace' BY <3>8, <2>1 DEF OnePlace, ErrandInv
    <3> QED BY <3>1, <3>6, <3>7, <3>9 DEF ErrandInv
  <2>3. ASSUME NEW what \in {"nothing", "error"}, UNCHANGED surf,
               Err!PutErrand(c, Err!Answer(TRUE, [what |-> what]))
        PROVE  ErrandInv'
    <3> DEFINE said == [what |-> what]
    <3>1. said.what = what /\ "tab" \notin DOMAIN said OBVIOUS
    <3> HIDE DEF said
    <3>2. /\ ErrandSound(Err!Answer(TRUE, said), surf)
          /\ \A k : ~In(HeldOf(Err!Answer(TRUE, said)), k)
      BY <3>1, PlainAnswer
    <3>3. errand' = [errand EXCEPT ![c] = Err!Answer(TRUE, said)]
      BY <2>3 DEF Err!PutErrand, said
    <3> QED BY <3>2, <3>3, <2>1, <2>3, PutKeeps
  <2> QED BY <1>1, <2>2, <2>3 DEF Err!Navigate
<1>2. ASSUME NEW late, Err!Poll(c, late) PROVE ErrandInv'
  <2>1. /\ UNCHANGED <<opened, opening, told, surf>> /\ errand[c].at = "waiting"
    BY <1>2 DEF Err!Poll, Err!contextVars
  <2>2. /\ errand[c].seen \in BOOLEAN /\ errand[c].from.begun \in Nat
        /\ errand[c].from.begun <= surf.begun /\ DOMAIN errand[c] = {"at", "heard", "from", "seen"}
        /\ surf.begun = errand[c].from.begun =>
             /\ ~errand[c].seen /\ surf.status = "complete"
             /\ surf.url = errand[c].from.url /\ surf.docs = errand[c].from.docs
    BY <1>0, <2>1 DEF ErrandSound, Going, Shape
  <2>3. Err!SeenToStart(c) => surf.begun > errand[c].from.begun
    BY <2>2, <1>0 DEF Err!SeenToStart, Err!Unloaded
  <2>4. CASE Err!Settled(Err!SeenToStart(c))
    <3> DEFINE r == [at |-> "probe", heard |-> errand[c].heard, from |-> errand[c].from,
                     tab |-> surf]
    <3>1. errand' = [errand EXCEPT ![c] = r] BY <1>2, <2>4 DEF Err!Poll, Err!PutErrand
    <3>2. DOMAIN r = {"at", "heard", "from", "tab"} /\ r.at = "probe" /\ r.from = errand[c].from
          /\ r.tab = surf
      OBVIOUS
    <3> HIDE DEF r
    <3>3. r.tab.begun > r.from.begun /\ r.tab.status = "complete"
      BY <3>2, <2>3, <2>4 DEF Err!Settled
    <3>4. HeldOf(r) = <<>> BY <3>2 DEF HeldOf
    <3>5. ErrandSound(r, surf)
      BY <3>2, <3>3, <3>4, NothingHeld DEF ErrandSound, Shape, Going, Reported
    <3>6. \A k : In(HeldOf(r), k) => In(HeldOf(errand[c]), k) BY <3>4, NothingHeld
    <3> QED BY <3>1, <3>5, <3>6, <2>1, PutKeeps
  <2>5. CASE ~Err!Settled(Err!SeenToStart(c)) /\ late
    <3> DEFINE said == [what |-> Err!DescribeNavigation(Err!SeenToStart(c), TRUE, "none"),
                        from |-> errand[c].from, tab |-> surf]
    <3>1. Err!PutErrand(c, Err!Answer(errand[c].heard, said))
      BY <1>2, <2>5 DEF Err!Poll, Err!Answered
    <3>2. /\ said.what = Err!DescribeNavigation(Err!SeenToStart(c), TRUE, "none")
          /\ said.from = errand[c].from /\ said.tab = surf
      OBVIOUS
    <3> HIDE DEF said
    <3>3. said.what \in {"nothing", "loading"} /\ (Err!SeenToStart(c) => said.what = "loading")
      BY <3>2 DEF Err!DescribeNavigation
    <3>4. ~Err!SeenToStart(c) => said.tab.docs = said.from.docs
      BY <3>2 DEF Err!SeenToStart, Err!Unloaded
    <3>5. said.what # "context" /\ (said.what # "nothing" \/ said.tab.docs = said.from.docs)
      BY <3>3, <3>4
    <3>6. /\ ErrandSound(Err!Answer(errand[c].heard, said), surf)
          /\ \A k : ~In(HeldOf(Err!Answer(errand[c].heard, said)), k)
      BY <3>5, PlainAnswer
    <3>7. errand' = [errand EXCEPT ![c] = Err!Answer(errand[c].heard, said)]
      BY <3>1 DEF Err!PutErrand
    <3> QED BY <3>6, <3>7, <2>1, PutKeeps
  <2>6. CASE ~Err!Settled(Err!SeenToStart(c)) /\ ~late
    <3> DEFINE r == [errand[c] EXCEPT !.seen = Err!SeenToStart(c)]
    <3>1. errand' = [errand EXCEPT ![c] = r] BY <1>2, <2>6 DEF Err!Poll, Err!PutErrand
    <3>2. /\ DOMAIN r = {"at", "heard", "from", "seen"} /\ r.at = "waiting"
          /\ r.from = errand[c].from /\ r.seen = Err!SeenToStart(c)
      BY <2>1, <2>2
    <3>3. Err!SeenToStart(c) \in BOOLEAN BY <2>2 DEF Err!SeenToStart, Err!Unloaded
    <3> HIDE DEF r
    <3>4. HeldOf(r) = <<>> BY <3>2 DEF HeldOf
    <3>5. Going(r, surf) BY <3>2, <3>3, <2>2, <2>3, <1>0 DEF Going
    <3>6. ErrandSound(r, surf)
      BY <3>2, <3>4, <3>5, NothingHeld DEF ErrandSound, Shape, Reported
    <3>7. \A k : In(HeldOf(r), k) => In(HeldOf(errand[c]), k) BY <3>4, NothingHeld
    <3> QED BY <3>1, <3>6, <3>7, <2>1, PutKeeps
  <2> QED BY <2>4, <2>5, <2>6
<1>3. ASSUME Err!Probe(c) PROVE ErrandInv'
  <2>1. UNCHANGED <<opened, opening, told, surf>> BY <1>3 DEF Err!Probe, Err!contextVars
  <2> DEFINE said == [what |-> Err!DescribeNavigation(TRUE, FALSE, surf.doc)]
  <2>2. Err!PutErrand(c, Err!Answer(errand[c].heard, said)) BY <1>3 DEF Err!Probe, Err!Answered
  <2>3. said.what \notin {"nothing", "context"} BY DEF Err!DescribeNavigation
  <2> HIDE DEF said
  <2>4. /\ ErrandSound(Err!Answer(errand[c].heard, said), surf)
        /\ \A k : ~In(HeldOf(Err!Answer(errand[c].heard, said)), k)
    BY <2>3, PlainAnswer
  <2>5. errand' = [errand EXCEPT ![c] = Err!Answer(errand[c].heard, said)]
    BY <2>2 DEF Err!PutErrand
  <2> QED BY <2>1, <2>4, <2>5, PutKeeps
<1> QED BY <1>1, <1>2, <1>3

\* A number of kids that are the same is at most one where none is twice.
LEMMA CountedOnce ==
  ASSUME NEW s, Once(s), NEW k
  PROVE  Cardinality({i \in DOMAIN s : s[i] = k}) = IF In(s, k) THEN 1 ELSE 0
<1>0. DOMAIN s = 1..Len(s) BY DEF Once
<1>1. CASE ~In(s, k)
  <2>1. {i \in DOMAIN s : s[i] = k} = {} BY <1>0, <1>1 DEF In
  <2> QED BY <2>1, <1>1, FS_EmptySet
<1>2. CASE In(s, k)
  <2>1. PICK i \in 1..Len(s) : s[i] = k BY <1>2 DEF In
  <2>2. \A j \in 1..Len(s) : s[j] = k => j = i BY <2>1 DEF Once
  <2>3. {j \in DOMAIN s : s[j] = k} = {i} BY <1>0, <2>1, <2>2
  <2> QED BY <2>3, <1>2, FS_Singleton
<1> QED BY <1>1, <1>2

\* What is left of a sequence from b on.
LEMMA LastOnes ==
  ASSUME NEW S, NEW a \in Seq(S), NEW b \in 1..Len(a)
  PROVE  /\ SubSeq(a, b, Len(a)) \in Seq(S)
         /\ DOMAIN SubSeq(a, b, Len(a)) = 1..(Len(a) - b + 1)
         /\ \A i \in 1..(Len(a) - b + 1) : SubSeq(a, b, Len(a))[i] = a[b + i - 1]
<1> DEFINE p == SubSeq(a, b, Len(a))
<1>1. \A i \in 1..Len(a) : a[i] \in S OBVIOUS
<1>2. b \in 1..(Len(a) + 1) /\ Len(a) \in Nat OBVIOUS
<1>3. /\ p \in Seq(S) /\ DOMAIN p = 1..(Len(a) - b + 1)
      /\ \A i \in 1..(Len(a) - b + 1) : p[i] = a[b + i - 1]
  BY <1>1, <1>2, SubSeqProperties
<1> QED BY <1>3

\* The list with one more, and its oldest forgotten.
LEMMA KidListed ==
  ASSUME NEW s, Once(s), NEW k \in Kids, ~In(s, k), NEW a, a = Append(s, k),
         NEW b \in 1..Len(a), NEW n, n = SubSeq(a, b, Len(a))
  PROVE  Once(n) /\ \A x : In(n, x) => In(s, x) \/ x = k
<1>1. /\ a \in Seq(Kids) /\ Len(a) = Len(s) + 1 /\ Len(s) \in Nat
      /\ \A i \in 1..Len(s) : a[i] = s[i]
      /\ a[Len(s) + 1] = k
  BY DEF Once
<1>2. \A i \in 1..Len(a) : i \in 1..Len(s) \/ i = Len(s) + 1 BY <1>1
<1>3. \A i, j \in 1..Len(a) : a[i] = a[j] => i = j BY <1>1, <1>2 DEF Once, In
<1>4. \A x : In(a, x) => In(s, x) \/ x = k BY <1>1, <1>2 DEF In
<1>5. b \in 1..(Len(a) + 1) BY <1>1
<1>6. /\ n \in Seq(Kids) /\ DOMAIN n = 1..(Len(a) - b + 1)
      /\ \A i \in 1..(Len(a) - b + 1) : n[i] = a[b + i - 1]
  <2> DEFINE p == SubSeq(a, b, Len(a))
  <2>1. /\ p \in Seq(Kids) /\ DOMAIN p = 1..(Len(a) - b + 1)
        /\ \A i \in 1..(Len(a) - b + 1) : p[i] = a[b + i - 1]
    BY <1>1, LastOnes
  <2> HIDE DEF p
  <2>2. n = p BY DEF p
  <2> QED BY <2>1, <2>2
<1>7. 1..Len(n) = 1..(Len(a) - b + 1) BY <1>6
<1>8. ASSUME NEW i \in 1..(Len(a) - b + 1)
      PROVE  b + i - 1 \in 1..Len(a) /\ n[i] = a[b + i - 1] /\ i \in Int /\ b \in Int
  <2>1. b + i - 1 \in 1..Len(a) /\ i \in Int /\ b \in Int BY <1>1, <1>5
  <2> QED BY <2>1, <1>6
<1>9. ASSUME NEW i \in 1..Len(n), NEW j \in 1..Len(n), n[i] = n[j] PROVE i = j
  <2>1. /\ b + i - 1 \in 1..Len(a) /\ n[i] = a[b + i - 1] /\ i \in Int /\ b \in Int
        /\ b + j - 1 \in 1..Len(a) /\ n[j] = a[b + j - 1] /\ j \in Int
    BY <1>7, <1>8
  <2>2. b + i - 1 = b + j - 1 BY <2>1, <1>3, <1>9
  <2> QED BY <2>1, <2>2
<1>10. \A x : In(n, x) => In(a, x) BY <1>7, <1>8 DEF In
<1> QED BY <1>4, <1>6, <1>9, <1>10 DEF Once

\* A tab is opened, taken from the list, looked at and told of.
LEMMA KidsKeep ==
  ASSUME ErrandInv
  PROVE  /\ \A k \in Kids : Err!KidOpens(k) => ErrandInv'
         /\ \A c \in Errs : Err!Drain(c) => ErrandInv'
         /\ \A c \in Errs : Err!LookAtKids(c) => ErrandInv'
         /\ \A c \in Errs : Err!Delivered(c) => ErrandInv'
<1>0. /\ DOMAIN errand = Errs /\ \A c \in Errs : ErrandSound(errand[c], surf)
      /\ Once(opened) /\ DOMAIN told = Kids
  BY DEF ErrandInv, OnePlace
<1>1. ASSUME NEW k \in Kids, Err!KidOpens(k) PROVE ErrandInv'
  <2>1. MaxOpened \in Nat \ {0} BY Bounds DEF Err!ErrandBounds
  <2>2. /\ k \in opening /\ opening' = opening \ {k} /\ UNCHANGED <<told, errand, surf>>
        /\ opened' = SubSeq(Append(opened, k),
             IF Len(Append(opened, k)) > MaxOpened THEN Len(Append(opened, k)) - MaxOpened + 1
             ELSE 1, Len(Append(opened, k)))
    BY <1>1 DEF Err!KidOpens
  <2>3. /\ ~In(opened, k) /\ told[k] = 0 /\ \A c \in Errs : ~In(HeldOf(errand[c]), k)
    BY <2>2 DEF ErrandInv, OnePlace
  <2>4. Once(opened') /\ \A x : In(opened', x) => In(opened, x) \/ x = k
    <3> DEFINE a == Append(opened, k)
               b == IF Len(a) > MaxOpened THEN Len(a) - MaxOpened + 1 ELSE 1
    <3>1. Len(a) \in Nat \ {0} BY <1>0 DEF Once
    <3>2. opened' = SubSeq(a, b, Len(a)) BY <2>2
    <3>3. Once(opened) /\ ~In(opened, k) /\ a = Append(opened, k) BY <1>0, <2>3
    <3> HIDE DEF a
    <3>4. b \in 1..Len(a) BY <3>1, <2>1
    <3> HIDE DEF b
    <3> QED BY <3>2, <3>3, <3>4, KidListed
  <2>5. OnePlace' BY <2>2, <2>3, <2>4 DEF ErrandInv, OnePlace
  <2> QED BY <2>2, <2>5 DEF ErrandInv
<1>2. ASSUME NEW c \in Errs, Err!Drain(c) PROVE ErrandInv'
  <2> DEFINE r == Err!Taken(c)
  <2>1. /\ opened' = <<>> /\ UNCHANGED <<opening, told, surf>> /\ errand[c].at = "self"
        /\ errand' = [errand EXCEPT ![c] = r]
    BY <1>2 DEF Err!Drain, Err!PutErrand
  <2>2. DOMAIN r = {"at", "heard", "place", "kids"} /\ r.at = "kids" /\ r.kids = opened
    BY DEF Err!Taken
  <2> HIDE DEF r
  <2>3. HeldOf(r) = opened BY <2>2 DEF HeldOf
  <2>4. ErrandSound(r, surf) BY <2>2, <2>3, <1>0 DEF ErrandSound, Shape, Going, Reported
  <2>5. /\ DOMAIN errand' = Errs /\ errand'[c] = r
        /\ \A d \in Errs : d # c => errand'[d] = errand[d]
    BY <2>1, <1>0
  <2>6. \A d \in Errs : ErrandSound(errand'[d], surf) BY <2>4, <2>5, <1>0
  <2>7. OnePlace' BY <2>1, <2>3, <2>5, NothingHeld DEF ErrandInv, OnePlace
  <2> QED BY <2>1, <2>5, <2>6, <2>7 DEF ErrandInv
<1>3. ASSUME NEW c \in Errs, Err!LookAtKids(c) PROVE ErrandInv'
  <2> DEFINE said == [what |-> "context", kids |-> errand[c].kids, place |-> errand[c].place]
             r == Err!Answer(errand[c].heard, said)
  <2>1. /\ UNCHANGED <<opened, opening, told, surf>> /\ errand[c].at = "kids"
        /\ errand' = [errand EXCEPT ![c] = r]
    BY <1>3 DEF Err!LookAtKids, Err!Answered, Err!PutErrand, Err!contextVars
  <2>2. said.what = "context" /\ said.kids = errand[c].kids OBVIOUS
  <2>3. DOMAIN r = {"at", "heard", "said"} /\ r.at = "answer" /\ r.said = said BY DEF Err!Answer
  <2> HIDE DEF r, said
  <2>4. HeldOf(r) = HeldOf(errand[c]) BY <2>1, <2>2, <2>3 DEF HeldOf
  <2>5. ErrandSound(r, surf)
    BY <2>2, <2>3, <2>4, <1>0 DEF ErrandSound, Shape, Going, Reported
  <2> QED BY <2>1, <2>4, <2>5, PutKeeps
<1>4. ASSUME NEW c \in Errs, Err!Delivered(c) PROVE ErrandInv'
  <2>1. /\ UNCHANGED <<opened, opening, surf>> /\ errand[c].at = "answer"
        /\ errand' = [errand EXCEPT ![c] = [at |-> "idle"]]
    BY <1>4 DEF Err!Delivered, Err!PutErrand, Err!NoErrand
  <2> DEFINE r == [at |-> "idle"]
  <2>2. Shape(r) /\ r.at = "idle" BY DEF Shape
  <2> HIDE DEF r
  <2>3. ErrandSound(r, surf) /\ HeldOf(r) = <<>> BY <2>2, NothingHeld DEF HeldOf
  <2>4. /\ DOMAIN errand' = Errs /\ errand'[c] = r
        /\ \A d \in Errs : d # c => errand'[d] = errand[d]
    BY <2>1, <1>0 DEF r
  <2>5. \A d \in Errs : ErrandSound(errand'[d], surf) BY <2>3, <2>4, <1>0
  <2>6. \A d \in Errs, k \in Kids : In(HeldOf(errand'[d]), k) =>
                                      d # c /\ In(HeldOf(errand[d]), k)
    BY <2>3, <2>4, NothingHeld
  <2>7. CASE errand[c].said.what = "context" /\ errand[c].heard
    <3>1. told' = [k \in Kids |-> told[k] + Cardinality({i \in DOMAIN errand[c].said.kids :
                                                           errand[c].said.kids[i] = k})]
      BY <1>4, <2>7 DEF Err!Delivered, Cardinality, Err!Cardinality
    <3>2. HeldOf(errand[c]) = errand[c].said.kids BY <2>1, <2>7 DEF HeldOf
    <3>3. Once(errand[c].said.kids) BY <3>2, <1>0 DEF ErrandSound
    <3>4. \A k \in Kids : told'[k] = told[k] + (IF In(HeldOf(errand[c]), k) THEN 1 ELSE 0)
      BY <3>1, <3>2, <3>3, CountedOnce
    <3>5. DOMAIN told' = Kids BY <3>1
    <3>6. ASSUME NEW k \in Kids
          PROVE /\ told'[k] \in {0, 1}
                /\ k \in opening => told'[k] = 0 /\ ~In(opened, k)
                /\ told'[k] = 1 => ~In(opened, k)
                /\ \A d \in Errs : In(HeldOf(errand'[d]), k) =>
                     /\ k \notin opening /\ told'[k] = 0 /\ ~In(opened, k)
                     /\ \A e \in Errs : In(HeldOf(errand'[e]), k) => e = d
      <4>1. CASE In(HeldOf(errand[c]), k)
        <5>1. k \notin opening /\ told[k] = 0 /\ ~In(opened, k) BY <4>1 DEF ErrandInv, OnePlace
        <5>2. \A d \in Errs : ~In(HeldOf(errand'[d]), k) BY <4>1, <2>6 DEF ErrandInv, OnePlace
        <5> QED BY <5>1, <5>2, <3>4, <4>1
      <4>2. CASE ~In(HeldOf(errand[c]), k)
        <5>1. told'[k] = told[k] BY <3>4, <4>2 DEF ErrandInv, OnePlace
        <5> QED BY <5>1, <2>6 DEF ErrandInv, OnePlace
      <4> QED BY <4>1, <4>2
    <3>7. OnePlace' BY <3>5, <3>6, <2>1, <1>0 DEF OnePlace
    <3> QED BY <3>7, <2>1, <2>4, <2>5 DEF ErrandInv
  <2>8. CASE ~(errand[c].said.what = "context" /\ errand[c].heard)
    <3>1. UNCHANGED told BY <1>4, <2>8 DEF Err!Delivered
    <3>2. OnePlace' BY <3>1, <2>1, <2>6 DEF OnePlace, ErrandInv
    <3> QED BY <3>2, <2>1, <2>4, <2>5 DEF ErrandInv
  <2> QED BY <2>7, <2>8
<1> QED BY <1>1, <1>2, <1>3, <1>4

\* What the browser does with downloads, the answers to reads, timeouts of the page and a
\* worker that rests.
LEMMA OutsideKeeps ==
  ASSUME ErrandInv
  PROVE  /\ Err!FileStarts => ErrandInv'
         /\ Err!DownloadEvent => ErrandInv'
         /\ \A f : Err!FileEnds(f) => ErrandInv'
         /\ \A f : Err!Requeried(f) => ErrandInv'
         /\ \A id : Err!SettleBridgeRpc(id) => ErrandInv'
         /\ \A c \in Errs : Err!PageTimesOut(c) => ErrandInv'
         /\ Err!WorkerRests => ErrandInv'
<1>0. DOMAIN errand = Errs /\ IsTab(surf) /\ \A c \in Errs : ErrandSound(errand[c], surf)
  BY DEF ErrandInv
<1>1. ASSUME UNCHANGED <<opened, opening, told, errand, surf>> PROVE ErrandInv'
  BY <1>1 DEF ErrandInv, OnePlace
<1>2. Err!FileStarts => ErrandInv' BY <1>1 DEF Err!FileStarts, Err!contextVars
<1>3. Err!DownloadEvent => ErrandInv' BY <1>1 DEF Err!DownloadEvent, Err!contextVars
<1>4. ASSUME NEW f, Err!FileEnds(f) PROVE ErrandInv'
  BY <1>1, <1>4 DEF Err!FileEnds, Err!contextVars
<1>5. ASSUME NEW f, Err!Requeried(f) PROVE ErrandInv'
  BY <1>1, <1>5 DEF Err!Requeried, Err!contextVars
<1>6. ASSUME NEW id, Err!SettleBridgeRpc(id) PROVE ErrandInv'
  <2>1. /\ UNCHANGED <<opened, opening, told, surf>> /\ DOMAIN errand' = Errs
        /\ \A c \in Errs : errand'[c] = errand[c] \/ \E heard :
                             errand'[c] = Err!Answer(heard, [what |-> "file"])
    BY <1>6 DEF Err!SettleBridgeRpc, Err!contextVars
  <2> DEFINE said == [what |-> "file"]
  <2>2. said.what \notin {"context", "nothing"} OBVIOUS
  <2>3. ASSUME NEW c \in Errs
        PROVE  /\ ErrandSound(errand'[c], surf)
               /\ \A k : In(HeldOf(errand'[c]), k) => In(HeldOf(errand[c]), k)
    <3>1. CASE errand'[c] = errand[c] BY <3>1, <1>0
    <3>2. ASSUME NEW heard, errand'[c] = Err!Answer(heard, said)
          PROVE  /\ ErrandSound(errand'[c], surf)
                 /\ \A k : In(HeldOf(errand'[c]), k) => In(HeldOf(errand[c]), k)
      <4> HIDE DEF said
      <4> QED BY <3>2, <2>2, PlainAnswer
    <3> QED BY <3>1, <3>2, <2>1
  <2>4. OnePlace' BY <2>1, <2>3 DEF ErrandInv, OnePlace
  <2> QED BY <2>1, <2>3, <2>4, <1>0 DEF ErrandInv
<1>7. ASSUME NEW c \in Errs, Err!PageTimesOut(c) PROVE ErrandInv'
  <2> DEFINE r == [errand[c] EXCEPT !.heard = FALSE]
  <2>1. /\ UNCHANGED <<opened, opening, told, surf>> /\ errand' = [errand EXCEPT ![c] = r]
    BY <1>7, <1>0 DEF Err!PageTimesOut, Err!contextVars
  <2>2. /\ DOMAIN r = DOMAIN errand[c]
        /\ \A x \in DOMAIN errand[c] : x # "heard" => r[x] = errand[c][x]
    OBVIOUS
  <2> HIDE DEF r
  <2>3. "at" \in DOMAIN errand[c] /\ r.at = errand[c].at
    BY <2>2, <1>0 DEF ErrandSound, Shape
  <2>4. Shape(r) BY <2>2, <2>3, <1>0 DEF ErrandSound, Shape
  <2>5. errand[c].at = "kids" => r.kids = errand[c].kids
    BY <2>2, <1>0 DEF ErrandSound, Shape
  <2>6. errand[c].at = "answer" => r.said = errand[c].said
    BY <2>2, <1>0 DEF ErrandSound, Shape
  <2>7. errand[c].at = "waiting" => r.from = errand[c].from /\ r.seen = errand[c].seen
    BY <2>2, <1>0 DEF ErrandSound, Shape
  <2>8. errand[c].at = "probe" => r.from = errand[c].from /\ r.tab = errand[c].tab
    BY <2>2, <1>0 DEF ErrandSound, Shape
  <2>9. HeldOf(r) = HeldOf(errand[c]) BY <2>3, <2>5, <2>6 DEF HeldOf
  <2>10. Going(r, surf) BY <2>3, <2>7, <1>0 DEF ErrandSound, Going
  <2>11. Reported(r) BY <2>3, <2>6, <2>8, <1>0 DEF ErrandSound, Reported
  <2>12. ErrandSound(r, surf) BY <2>4, <2>9, <2>10, <2>11, <1>0 DEF ErrandSound
  <2> QED BY <2>1, <2>9, <2>12, PutKeeps
<1>8. ASSUME Err!WorkerRests PROVE ErrandInv'
  <2> DEFINE r == [at |-> "idle"]
  <2>1. /\ opened' = <<>> /\ UNCHANGED <<opening, told, surf>>
        /\ errand' = [c \in Errs |-> r]
    BY <1>8 DEF Err!WorkerRests, Err!NoErrand
  <2>2. Shape(r) /\ r.at = "idle" BY DEF Shape
  <2> HIDE DEF r
  <2>3. ErrandSound(r, surf) /\ HeldOf(r) = <<>> BY <2>2, NothingHeld DEF HeldOf
  <2>4. OnePlace' BY <2>1, <2>3, NothingHeld DEF ErrandInv, OnePlace
  <2> QED BY <2>1, <2>3, <2>4, <1>0 DEF ErrandInv
<1> QED BY <1>2, <1>3, <1>4, <1>5, <1>6, <1>7, <1>8

\* What the invariant says of a tab, in the terms of the property: the tab is counted in
\* one place at most.
LEMMA CountedInOnePlace ==
  ASSUME ErrandInv PROVE Err!OpenedToldOnce
<1> SUFFICES ASSUME NEW k \in Kids
             PROVE  told[k] + Cardinality({i \in DOMAIN opened : opened[i] = k})
                      + Cardinality({c \in Errs : k \in Err!InHand(c)}) <= 1
  BY DEF Err!OpenedToldOnce, Cardinality, Err!Cardinality
<1>1. ASSUME NEW c \in Errs PROVE k \in Err!InHand(c) <=> In(HeldOf(errand[c]), k)
  <2>1. Once(HeldOf(errand[c])) BY DEF ErrandInv, ErrandSound
  <2>2. CASE errand[c].at = "kids"
    <3>1. HeldOf(errand[c]) = errand[c].kids /\ Err!InHand(c) = Err!ToSet(errand[c].kids)
      BY <2>2 DEF HeldOf, Err!InHand, Err!Answers
    <3> QED BY <3>1, <2>1 DEF Once, In, Err!ToSet
  <2>3. CASE errand[c].at = "answer" /\ errand[c].said.what = "context"
    <3>1. /\ HeldOf(errand[c]) = errand[c].said.kids
          /\ Err!InHand(c) = Err!ToSet(errand[c].said.kids)
      BY <2>3 DEF HeldOf, Err!InHand, Err!Answers
    <3> QED BY <3>1, <2>1 DEF Once, In, Err!ToSet
  <2>4. CASE errand[c].at # "kids" /\ ~(errand[c].at = "answer" /\ errand[c].said.what = "context")
    <3>1. HeldOf(errand[c]) = <<>> BY <2>4 DEF HeldOf
    <3>2. c \notin Err!Answers("context") BY <2>4 DEF Err!Answers
    <3>3. Err!InHand(c) = {} BY <2>4, <3>2 DEF Err!InHand
    <3> QED BY <3>1, <3>3, NothingHeld
  <2> QED BY <2>2, <2>3, <2>4
<1>2. Cardinality({i \in DOMAIN opened : opened[i] = k}) = IF In(opened, k) THEN 1 ELSE 0
  BY CountedOnce DEF ErrandInv, OnePlace
<1>3. CASE \E c \in Errs : In(HeldOf(errand[c]), k)
  <2>1. PICK c \in Errs : In(HeldOf(errand[c]), k) BY <1>3
  <2>2. \A d \in Errs : In(HeldOf(errand[d]), k) => d = c BY <2>1 DEF ErrandInv, OnePlace
  <2>3. {d \in Errs : k \in Err!InHand(d)} = {c} BY <2>1, <2>2, <1>1
  <2>4. told[k] = 0 /\ ~In(opened, k) BY <2>1 DEF ErrandInv, OnePlace
  <2>5. Cardinality({d \in Errs : k \in Err!InHand(d)}) = 1 BY <2>3, FS_Singleton
  <2> QED BY <2>4, <2>5, <1>2
<1>4. CASE \A c \in Errs : ~In(HeldOf(errand[c]), k)
  <2>1. {d \in Errs : k \in Err!InHand(d)} = {} BY <1>4, <1>1
  <2>2. told[k] \in {0, 1} /\ (told[k] = 1 => ~In(opened, k)) BY DEF ErrandInv, OnePlace
  <2> QED BY <2>1, <2>2, <1>2, FS_EmptySet
<1> QED BY <1>3, <1>4

\* However calls overlap, time out and are lost with the worker, an agent is told once at
\* most of a tab the page opened; a navigation is reported as arrived, or as nothing, only
\* if it was.
THEOREM ReportsStayTrue == Spec => []ReportsAreTrue
<1>1. Init => ErrandInv
  <2> SUFFICES ASSUME Init PROVE ErrandInv OBVIOUS
  <2> DEFINE r == [at |-> "idle"]
             s == [status |-> "complete", url |-> "old", doc |-> "page",
                   asked |-> FALSE, begun |-> 0, docs |-> 0, fresh |-> FALSE]
  <2>1. /\ opened = <<>> /\ opening = Kids /\ told = [k \in Kids |-> 0]
        /\ errand = [c \in Errs |-> r] /\ surf = s
    BY DEF Init, Err!Init, Err!NoErrand
  <2>2. IsTab(s) BY DEF IsTab
  <2>3. Shape(r) /\ r.at = "idle" BY DEF Shape
  <2> HIDE DEF r, s
  <2>4. ErrandSound(r, s) /\ HeldOf(r) = <<>> BY <2>3, NothingHeld DEF HeldOf
  <2>5. OnePlace BY <2>1, <2>4, NothingHeld DEF OnePlace
  <2> QED BY <2>1, <2>2, <2>4, <2>5 DEF ErrandInv
<1>2. ASSUME ErrandInv, [Next]_extensionVars PROVE ErrandInv'
  <2>0. ErrandInv BY <1>2
  <2>1. CASE UNCHANGED errPart
    BY <2>1, <2>0 DEF errPart, ErrandInv, OnePlace
  <2>2. CASE Err!Next
    <3>1. ASSUME NEW c \in Errs,
                 \/ Err!Downloads(c) \/ Err!DownloadList(c) \/ Err!DownloadWait(c)
                 \/ Err!TabContext(c) \/ Err!Drain(c) \/ Err!LookAtKids(c)
                 \/ Err!BridgeRpcTimeout(c)
                 \/ \E socketOpen \in BOOLEAN : Err!CallBridge(c, socketOpen)
                 \/ Err!Navigate(c) \/ Err!Probe(c) \/ \E late \in BOOLEAN : Err!Poll(c, late)
                 \/ Err!PageTimesOut(c) \/ Err!Delivered(c)
          PROVE ErrandInv'
      BY <3>1, <2>0, ErrandsGoOn, NavigationKeeps, KidsKeep, OutsideKeeps
    <3>2. \A c \in Errs :
            ( \/ Err!Downloads(c) \/ Err!DownloadList(c) \/ Err!DownloadWait(c)
              \/ Err!TabContext(c) \/ Err!Drain(c) \/ Err!LookAtKids(c)
              \/ Err!BridgeRpcTimeout(c)
              \/ \E socketOpen \in BOOLEAN : Err!CallBridge(c, socketOpen)
              \/ Err!Navigate(c) \/ Err!Probe(c) \/ \E late \in BOOLEAN : Err!Poll(c, late)
              \/ Err!PageTimesOut(c) \/ Err!Delivered(c) ) => ErrandInv'
      BY <3>1
    <3> QED BY <3>2, <2>0, <2>2, TabMoves, KidsKeep, OutsideKeeps DEF Err!Next
  <2> QED BY <2>1, <2>2, <1>2 DEF Next, extensionVars
<1>3. ErrandInv => ReportsAreTrue
  <2> SUFFICES ASSUME ErrandInv PROVE ReportsAreTrue OBVIOUS
  <2>1. Err!OpenedToldOnce BY CountedInOnePlace
  <2>2. Err!NavigationReportsAreTrue
    BY DEF Err!NavigationReportsAreTrue, Err!Answers, ErrandInv, ErrandSound, Reported
  <2> QED BY <2>1, <2>2 DEF ReportsAreTrue
<1> QED BY <1>1, <1>2, <1>3, PTL DEF Spec
=============================================================================
