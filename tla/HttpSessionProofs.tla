-------------------------- MODULE HttpSessionProofs --------------------------
(***************************************************************************)
(* Proofs about HttpSession, for any number of sessions and requests, any  *)
(* buffer and any number of notifications. PlacesInv says what a handler's *)
(* place tells of its session, SlotInv who holds the stream slot, LifeInv  *)
(* what a session's flags and timers have to do with each other, OrderInv  *)
(* in which order the notifications lie on their way to the client.        *)
(***************************************************************************)
EXTENDS HttpSession, FiniteSetTheorems, TLAPS

Holding == {"stream", "writing", "release"}

\* A handler past its lookup has a session that was opened; only a GET holds a slot.
PlacesInv ==
  \A r \in Requests :
    /\ at[r] \in Holding => r \in Streams
    /\ at[r] \in Holding \cup {"found"} => opened[on[r]] = "yes"

\* streaming is set exactly while a handler holds the slot, and one holds it.
SlotInv ==
  /\ \A s \in Sessions :
       streaming[s] <=> \E g \in Streams : at[g] \in Holding /\ on[g] = s
  /\ \A g, h \in Streams :
       (at[g] \in Holding /\ at[h] \in Holding /\ on[g] = on[h]) => g = h

\* A session that was never opened has not been touched; one that is open is
\* registered; one that is open and armed once has a timer or an expire function.
LifeInv ==
  /\ agentConnections = Cardinality(registered)
  /\ \A s \in Sessions :
       /\ doneClosed[s] = IF closed[s] THEN 1 ELSE 0
       /\ opened[s] = "no" => /\ ~closed[s] /\ s \notin toClose
                              /\ fired[s] = 0 /\ doomed[s] = 0 /\ expiry[s] = "nil"
       /\ s \in leaving => closed[s]
       /\ (opened[s] # "no" /\ ~closed[s]) => s \in registered
       /\ s \in registered => opened[s] # "no"
       /\ (opened[s] = "yes" /\ ~closed[s]) =>
            expiry[s] = "armed" \/ fired[s] > 0 \/ doomed[s] > 0

\* A sequence of numbers climbs.
Climbs(q) == \A i, j \in DOMAIN q : i < j => q[i] < q[j]

\* What the client has read, what its stream has taken and what is in the buffer
\* are numbers that climb in this order, none beyond those that were queued.
OrderAt(s) ==
  /\ Climbs(got[s]) /\ Climbs(events[s])
  /\ \A j \in DOMAIN events[s] : events[s][j] <= queued[s]
  /\ \A i \in DOMAIN got[s] :
       /\ got[s][i] <= queued[s]
       /\ \A j \in DOMAIN events[s] : got[s][i] < events[s][j]
  /\ \A g \in Streams : (at[g] = "writing" /\ on[g] = s) =>
       /\ taken[g] \in 1..queued[s]
       /\ \A i \in DOMAIN got[s] : got[s][i] < taken[g]
       /\ \A j \in DOMAIN events[s] : taken[g] < events[s][j]

OrderInv == \A s \in Sessions : OrderAt(s)

Inv == TypeOK /\ PlacesInv /\ SlotInv /\ LifeInv /\ OrderInv

\* Close keeps the types: doneClosed counts to 1 because closed is set with it.
LEMMA CloseTypes ==
  ASSUME TypeOK, LifeInv, NEW s \in Sessions, CloseSession(s)
  PROVE  /\ closed' \in [Sessions -> BOOLEAN] /\ doneClosed' \in [Sessions -> 0..1]
         /\ leaving' \subseteq Sessions /\ expiry' \in [Sessions -> {"nil", "armed", "spent"}]
<1> USE DEF TypeOK, LifeInv, closing
<1>1. CASE closed[s]
  BY <1>1 DEF CloseSession, AlreadyClosed
<1>2. CASE ~closed[s]
  <2>1. doneClosed[s] + 1 = 1
    BY <1>2
  <2>2. /\ doneClosed' = [doneClosed EXCEPT ![s] = 1]
        /\ closed' = [closed EXCEPT ![s] = TRUE]
        /\ expiry' = [expiry EXCEPT ![s] = "nil"]
        /\ leaving' = leaving \cup {s}
    BY <1>2, <2>1 DEF CloseSession, AlreadyClosed
  <2> QED BY <2>2
<1> QED BY <1>1, <1>2

\* Every step keeps the types.
LEMMA TypeOKNext == ASSUME Inv, Next PROVE TypeOK'
<1> USE RequestsDistinct, BoundsNat DEF Inv, OrderAt, TypeOK, Requests, bridge, closing, timers, buffer, handlers
<1>1. ASSUME NEW s \in Sessions, Open(s) PROVE TypeOK'
  BY <1>1 DEF Open
<1>2. ASSUME NEW s \in Sessions, OpenArms(s) PROVE TypeOK'
  BY <1>2 DEF OpenArms, Arm
<1>3. ASSUME NEW s \in Sessions, Enqueue(s) PROVE TypeOK'
  BY <1>3 DEF Enqueue
<1>4. ASSUME NEW s \in Sessions, TimerFires(s) PROVE TypeOK'
  BY <1>4 DEF TimerFires
<1>5. ASSUME NEW s \in Sessions, Expire(s) PROVE TypeOK'
  <2>1. fired' \in [Sessions -> Nat]
    BY <1>5 DEF Expire
  <2>2. expiry' \in [Sessions -> {"nil", "armed", "spent"}]
    BY <1>5 DEF Expire, RearmStreaming, Arm
  <2>3. doomed' \in [Sessions -> Nat]
    <3>1. CASE closed[s] \/ streaming[s]
      BY <1>5, <3>1 DEF Expire
    <3>2. CASE ~closed[s] /\ ~streaming[s]
      <4>1. doomed[s] + 1 \in Nat
        OBVIOUS
      <4>2. doomed' = [doomed EXCEPT ![s] = doomed[s] + 1]
        BY <1>5, <3>2 DEF Expire
      <4> QED BY <4>1, <4>2
    <3> QED BY <3>1, <3>2
  <2> QED BY <1>5, <2>1, <2>2, <2>3 DEF Expire
<1>6. ASSUME NEW s \in Sessions, ExpireCloses(s) PROVE TypeOK'
  <2>1. CloseSession(s) /\ s \in Sessions
    BY <1>6 DEF ExpireCloses
  <2>2. /\ closed' \in [Sessions -> BOOLEAN] /\ doneClosed' \in [Sessions -> 0..1]
        /\ leaving' \subseteq Sessions /\ expiry' \in [Sessions -> {"nil", "armed", "spent"}]
    BY <2>1, CloseTypes
  <2>3. doomed' \in [Sessions -> Nat]
    BY <1>6 DEF ExpireCloses
  <2> QED BY <1>6, <2>2, <2>3 DEF ExpireCloses
<1>7. ASSUME NEW s \in Sessions, Deregister(s) PROVE TypeOK'
  <2>1. registered' \subseteq Sessions
    BY <1>7 DEF Deregister, LeaveBridge
  <2>2. agentConnections' \in Nat
    <3>1. CASE s \in registered
      <4>1. IsFiniteSet(registered)
        BY FS_Subset
      <4>2. Cardinality(registered) \in Nat /\ Cardinality(registered) # 0
        BY <3>1, <4>1, FS_CardinalityType, FS_EmptySet
      <4> QED BY <3>1, <4>2, <1>7 DEF Deregister, LeaveBridge, LifeInv
    <3> QED BY <3>1, <1>7 DEF Deregister, LeaveBridge
  <2> QED BY <1>7, <2>1, <2>2 DEF Deregister
<1>8. ASSUME NEW s \in Sessions, BridgeClosesSession(s) PROVE TypeOK'
  <2>1. CloseSession(s) /\ s \in Sessions
    BY <1>8 DEF BridgeClosesSession
  <2>2. /\ closed' \in [Sessions -> BOOLEAN] /\ doneClosed' \in [Sessions -> 0..1]
        /\ leaving' \subseteq Sessions /\ expiry' \in [Sessions -> {"nil", "armed", "spent"}]
    BY <2>1, CloseTypes
  <2> QED BY <1>8, <2>2 DEF BridgeClosesSession
<1>9. ASSUME NEW r \in Requests, NEW s \in Sessions, Lookup(r, s) PROVE TypeOK'
  <2>1. CASE s \in registered
    BY <1>9, <2>1 DEF Lookup, Goes
  <2>2. CASE s \notin registered
    BY <1>9, <2>2 DEF Lookup, Goes
  <2> QED BY <2>1, <2>2
<1>10. ASSUME NEW r \in Posts, Post(r) PROVE TypeOK'
  BY <1>10 DEF Post, Arm, Goes
<1>11. ASSUME NEW d \in Deletes, Delete(d) PROVE TypeOK'
  <2>1. CloseSession(on[d]) /\ on[d] \in Sessions
    BY <1>11 DEF Delete, Goes
  <2>2. /\ closed' \in [Sessions -> BOOLEAN] /\ doneClosed' \in [Sessions -> 0..1]
        /\ leaving' \subseteq Sessions /\ expiry' \in [Sessions -> {"nil", "armed", "spent"}]
    BY <2>1, CloseTypes
  <2> QED BY <1>11, <2>2 DEF Delete, Goes
<1>12. ASSUME NEW g \in Streams, AttachStream(g) PROVE TypeOK'
  <2>1. CASE SlotFree(on[g])
    BY <1>12, <2>1 DEF AttachStream, Goes
  <2>2. CASE ~SlotFree(on[g])
    BY <1>12, <2>2 DEF AttachStream, Goes
  <2> QED BY <2>1, <2>2
<1>13. ASSUME NEW g \in Streams, TakeEvent(g) PROVE TypeOK'
  <2>1. /\ on[g] \in Sessions /\ events[on[g]] \in Seq(1..MaxEvents)
        /\ events[on[g]] # <<>>
    BY <1>13 DEF TakeEvent
  <2>2. /\ Tail(events[on[g]]) \in Seq(1..MaxEvents)
        /\ Head(events[on[g]]) \in 1..MaxEvents
    BY <2>1
  <2> QED BY <1>13, <2>1, <2>2 DEF TakeEvent, Goes
<1>14. ASSUME NEW g \in Streams, WriteEvent(g) PROVE TypeOK'
  <2>1. /\ on[g] \in Sessions /\ got[on[g]] \in Seq(1..MaxEvents)
        /\ taken[g] \in 1..MaxEvents
    BY <1>14 DEF WriteEvent, OrderInv
  <2>2. Append(got[on[g]], taken[g]) \in Seq(1..MaxEvents)
    BY <2>1
  <2> QED BY <1>14, <2>1, <2>2 DEF WriteEvent, Goes
<1>15. ASSUME NEW g \in Streams, StreamTold(g) PROVE TypeOK'
  BY <1>15 DEF StreamTold, Goes, Done
<1>16. ASSUME NEW g \in Streams, Release(g) PROVE TypeOK'
  BY <1>16 DEF Release, Goes, FreeSlot, Arm
<1>17. ASSUME NEW g \in Streams, StreamBreaks(g) PROVE TypeOK'
  BY <1>17 DEF StreamBreaks, Goes
<1>18. CASE BridgeCloses
  BY <1>18 DEF BridgeCloses
<1> QED
  BY <1>1, <1>2, <1>3, <1>4, <1>5, <1>6, <1>7, <1>8, <1>9,
     <1>10, <1>11, <1>12, <1>13, <1>14, <1>15, <1>16, <1>17, <1>18
     DEF Next, ExpiryStep, StreamStep

\* Every step keeps what places and slots say: only AttachStream takes a slot, and
\* only a free one, only Release gives it back.
LEMMA PlacesNext == ASSUME Inv, Next PROVE (PlacesInv /\ SlotInv)'
<1> USE RequestsDistinct, BoundsNat DEF Inv, TypeOK, Requests, bridge, closing, timers, buffer, handlers, PlacesInv, SlotInv, Holding
<1>1. ASSUME NEW s \in Sessions, Open(s) PROVE (PlacesInv /\ SlotInv)'
  BY <1>1 DEF Open
<1>2. ASSUME NEW s \in Sessions, OpenArms(s) PROVE (PlacesInv /\ SlotInv)'
  BY <1>2 DEF OpenArms, Arm
<1>3. ASSUME NEW s \in Sessions, Enqueue(s) PROVE (PlacesInv /\ SlotInv)'
  BY <1>3 DEF Enqueue
<1>4. ASSUME NEW s \in Sessions, TimerFires(s) PROVE (PlacesInv /\ SlotInv)'
  BY <1>4 DEF TimerFires
<1>5. ASSUME NEW s \in Sessions, Expire(s) PROVE (PlacesInv /\ SlotInv)'
  BY <1>5 DEF Expire, RearmStreaming, Arm
<1>6. ASSUME NEW s \in Sessions, ExpireCloses(s) PROVE (PlacesInv /\ SlotInv)'
  BY <1>6 DEF ExpireCloses, CloseSession, AlreadyClosed
<1>7. ASSUME NEW s \in Sessions, Deregister(s) PROVE (PlacesInv /\ SlotInv)'
  BY <1>7 DEF Deregister, LeaveBridge
<1>8. ASSUME NEW s \in Sessions, BridgeClosesSession(s) PROVE (PlacesInv /\ SlotInv)'
  BY <1>8 DEF BridgeClosesSession, CloseSession, AlreadyClosed
<1>9. ASSUME NEW r \in Requests, NEW s \in Sessions, Lookup(r, s) PROVE (PlacesInv /\ SlotInv)'
  <2>1. /\ at[r] = "idle" /\ opened[s] = "yes" /\ UNCHANGED <<opened, streaming>>
        /\ \/ at' = [at EXCEPT ![r] = "found"] /\ on' = [on EXCEPT ![r] = s]
           \/ at' = [at EXCEPT ![r] = "done"] /\ on' = on
    BY <1>9 DEF Lookup, Goes
  <2>2. \A q \in Requests : q # r => at'[q] = at[q] /\ on'[q] = on[q]
    BY <2>1
  <2>3. (at'[r] = "found" /\ on'[r] = s) \/ at'[r] = "done"
    BY <2>1
  <2>4. PlacesInv'
    BY <2>1, <2>2, <2>3
  <2>5. \A g \in Streams : /\ at'[g] \in Holding <=> at[g] \in Holding
                           /\ at[g] \in Holding => on'[g] = on[g]
    BY <2>1, <2>2, <2>3
  <2>6. SlotInv'
    BY <2>1, <2>5
  <2> QED BY <2>4, <2>6
<1>10. ASSUME NEW r \in Posts, Post(r) PROVE (PlacesInv /\ SlotInv)'
  BY <1>10 DEF Post, Arm, Goes
<1>11. ASSUME NEW d \in Deletes, Delete(d) PROVE (PlacesInv /\ SlotInv)'
  BY <1>11 DEF Delete, CloseSession, AlreadyClosed, Goes
<1>12. ASSUME NEW g \in Streams, AttachStream(g) PROVE (PlacesInv /\ SlotInv)'
  <2>1. CASE SlotFree(on[g])
    <3>1. /\ at' = [at EXCEPT ![g] = "stream"] /\ UNCHANGED <<on, opened>>
          /\ streaming' = [streaming EXCEPT ![on[g]] = TRUE] /\ ~streaming[on[g]]
          /\ at[g] = "found"
      BY <1>12, <2>1 DEF AttachStream, SlotFree, Goes
    <3>2. PlacesInv'
      BY <3>1
    <3>3. \A h \in Streams : at[h] \in Holding => on[h] # on[g]
      BY <3>1
    <3>4. SlotInv'
      BY <3>1, <3>3
    <3> QED BY <3>2, <3>4
  <2>2. CASE ~SlotFree(on[g])
    <3>1. /\ at' = [at EXCEPT ![g] = "done"] /\ UNCHANGED <<on, opened, streaming>>
          /\ at[g] = "found"
      BY <1>12, <2>2 DEF AttachStream, Goes
    <3> QED BY <3>1
  <2> QED BY <2>1, <2>2
<1>13. ASSUME NEW g \in Streams, TakeEvent(g) PROVE (PlacesInv /\ SlotInv)'
  BY <1>13 DEF TakeEvent, Goes
<1>14. ASSUME NEW g \in Streams, WriteEvent(g) PROVE (PlacesInv /\ SlotInv)'
  BY <1>14 DEF WriteEvent, Goes
<1>15. ASSUME NEW g \in Streams, StreamTold(g) PROVE (PlacesInv /\ SlotInv)'
  BY <1>15 DEF StreamTold, Goes, Done
<1>16. ASSUME NEW g \in Streams, Release(g) PROVE (PlacesInv /\ SlotInv)'
  BY <1>16 DEF Release, Goes, FreeSlot, Arm
<1>17. ASSUME NEW g \in Streams, StreamBreaks(g) PROVE (PlacesInv /\ SlotInv)'
  BY <1>17 DEF StreamBreaks, Goes
<1>18. CASE BridgeCloses
  BY <1>18 DEF BridgeCloses
<1> QED
  BY <1>1, <1>2, <1>3, <1>4, <1>5, <1>6, <1>7, <1>8, <1>9,
     <1>10, <1>11, <1>12, <1>13, <1>14, <1>15, <1>16, <1>17, <1>18
     DEF Next, ExpiryStep, StreamStep

\* Every step keeps what a session's flags and timers say of each other: whoever
\* spends a timer or an expire function arms a new one or closes the session.
LEMMA LifeNext == ASSUME Inv, Next PROVE LifeInv'
<1> USE RequestsDistinct, BoundsNat DEF Inv, TypeOK, Requests, bridge, closing, timers, buffer, handlers, PlacesInv, LifeInv, Holding
<1>1. ASSUME NEW s \in Sessions, Open(s) PROVE LifeInv'
  <2>1. IsFiniteSet(registered)
    BY FS_Subset
  <2>2. Cardinality(registered') = Cardinality(registered) + 1
    BY <1>1, <2>1, FS_AddElement DEF Open
  <2>3. agentConnections' = Cardinality(registered')
    BY <1>1, <2>2 DEF Open
  <2> QED BY <1>1, <2>3 DEF Open
<1>2. ASSUME NEW s \in Sessions, OpenArms(s) PROVE LifeInv'
  BY <1>2 DEF OpenArms, Arm
<1>3. ASSUME NEW s \in Sessions, Enqueue(s) PROVE LifeInv'
  BY <1>3 DEF Enqueue
<1>4. ASSUME NEW s \in Sessions, TimerFires(s) PROVE LifeInv'
  BY <1>4 DEF TimerFires
<1>5. ASSUME NEW s \in Sessions, Expire(s) PROVE LifeInv'
  BY <1>5 DEF Expire, RearmStreaming, Arm
<1>6. ASSUME NEW s \in Sessions, ExpireCloses(s) PROVE LifeInv'
  BY <1>6 DEF ExpireCloses, CloseSession, AlreadyClosed
<1>7. ASSUME NEW s \in Sessions, Deregister(s) PROVE LifeInv'
  <2>1. IsFiniteSet(registered)
    BY FS_Subset
  <2>2. CASE s \in registered
    <3>1. Cardinality(registered') = Cardinality(registered) - 1
      BY <1>7, <2>1, <2>2, FS_RemoveElement DEF Deregister, LeaveBridge
    <3>2. agentConnections' = Cardinality(registered')
      BY <1>7, <2>2, <3>1 DEF Deregister, LeaveBridge
    <3> QED BY <1>7, <2>2, <3>2 DEF Deregister, LeaveBridge
  <2>3. CASE s \notin registered
    BY <1>7, <2>3 DEF Deregister, LeaveBridge
  <2> QED BY <2>2, <2>3
<1>8. ASSUME NEW s \in Sessions, BridgeClosesSession(s) PROVE LifeInv'
  BY <1>8 DEF BridgeClosesSession, CloseSession, AlreadyClosed
<1>9. ASSUME NEW r \in Requests, NEW s \in Sessions, Lookup(r, s) PROVE LifeInv'
  BY <1>9 DEF Lookup, Goes
<1>10. ASSUME NEW r \in Posts, Post(r) PROVE LifeInv'
  BY <1>10 DEF Post, Arm, Goes
<1>11. ASSUME NEW d \in Deletes, Delete(d) PROVE LifeInv'
  BY <1>11 DEF Delete, CloseSession, AlreadyClosed, Goes
<1>12. ASSUME NEW g \in Streams, AttachStream(g) PROVE LifeInv'
  BY <1>12 DEF AttachStream, SlotFree, Goes
<1>13. ASSUME NEW g \in Streams, TakeEvent(g) PROVE LifeInv'
  BY <1>13 DEF TakeEvent, Goes
<1>14. ASSUME NEW g \in Streams, WriteEvent(g) PROVE LifeInv'
  BY <1>14 DEF WriteEvent, Goes
<1>15. ASSUME NEW g \in Streams, StreamTold(g) PROVE LifeInv'
  BY <1>15 DEF StreamTold, Goes, Done
<1>16. ASSUME NEW g \in Streams, Release(g) PROVE LifeInv'
  BY <1>16 DEF Release, Goes, FreeSlot, Arm
<1>17. ASSUME NEW g \in Streams, StreamBreaks(g) PROVE LifeInv'
  BY <1>17 DEF StreamBreaks, Goes
<1>18. CASE BridgeCloses
  BY <1>18 DEF BridgeCloses
<1> QED
  BY <1>1, <1>2, <1>3, <1>4, <1>5, <1>6, <1>7, <1>8, <1>9,
     <1>10, <1>11, <1>12, <1>13, <1>14, <1>15, <1>16, <1>17, <1>18
     DEF Next, ExpiryStep, StreamStep

\* Appending a number above all others keeps a climbing sequence climbing.
LEMMA AppendClimbs ==
  ASSUME NEW q \in Seq(Nat), NEW n \in Nat, Climbs(q), \A j \in DOMAIN q : q[j] < n
  PROVE  /\ Climbs(Append(q, n)) /\ Append(q, n) \in Seq(Nat)
         /\ \A j \in DOMAIN Append(q, n) :
              Append(q, n)[j] = n \/ \E i \in DOMAIN q : Append(q, n)[j] = q[i]
<1> DEFINE a == Append(q, n)
<1>1. /\ DOMAIN a = 1..(Len(q) + 1) /\ DOMAIN q = 1..Len(q) /\ Len(q) \in Nat
      /\ \A j \in 1..Len(q) : a[j] = q[j] /\ q[j] \in Nat
      /\ a[Len(q) + 1] = n
  OBVIOUS
<1> HIDE DEF a
<1>2. Climbs(a)
  BY <1>1 DEF Climbs
<1>3. \A j \in DOMAIN a : a[j] = n \/ \E i \in DOMAIN q : a[j] = q[i]
  BY <1>1
<1>4. a \in Seq(Nat)
  BY DEF a
<1> QED BY <1>2, <1>3, <1>4 DEF a

\* The tail of a climbing sequence climbs, above its head.
LEMMA TailClimbs ==
  ASSUME NEW q \in Seq(Nat), q # <<>>, Climbs(q)
  PROVE  /\ Climbs(Tail(q)) /\ Tail(q) \in Seq(Nat)
         /\ \E i \in DOMAIN q : Head(q) = q[i]
         /\ \A j \in DOMAIN Tail(q) :
              Head(q) < Tail(q)[j] /\ \E i \in DOMAIN q : Tail(q)[j] = q[i]
<1> DEFINE t == Tail(q)
<1>1. /\ DOMAIN t = 1..(Len(q) - 1) /\ DOMAIN q = 1..Len(q) /\ Len(q) \in Nat \ {0}
      /\ \A j \in 1..(Len(q) - 1) : t[j] = q[j + 1]
      /\ Head(q) = q[1]
  OBVIOUS
<1> HIDE DEF t
<1>2. \A j \in DOMAIN t : j \in Nat /\ j + 1 \in DOMAIN q /\ 1 < j + 1 /\ t[j] = q[j + 1]
  BY <1>1
<1>3. Climbs(t)
  BY <1>1, <1>2 DEF Climbs
<1>4. 1 \in DOMAIN q
  BY <1>1
<1>5. \A j \in DOMAIN t : Head(q) < t[j] /\ \E i \in DOMAIN q : t[j] = q[i]
  BY <1>1, <1>2, <1>4 DEF Climbs
<1>6. t \in Seq(Nat)
  BY DEF t
<1> QED BY <1>1, <1>3, <1>4, <1>5, <1>6 DEF t

\* Every step keeps the order: Enqueue appends a number above all others, TakeEvent
\* moves the lowest to the stream, WriteEvent from there to the client.
LEMMA OrderNext == ASSUME Inv, Next PROVE OrderInv'
<1> USE RequestsDistinct, BoundsNat DEF Inv, TypeOK, Requests, bridge, closing, timers, buffer, handlers, PlacesInv, SlotInv, LifeInv, OrderInv, OrderAt, Holding
<1>1. ASSUME NEW s \in Sessions, Open(s) PROVE OrderInv'
  BY <1>1 DEF Open
<1>2. ASSUME NEW s \in Sessions, OpenArms(s) PROVE OrderInv'
  BY <1>2 DEF OpenArms, Arm
<1>3. ASSUME NEW s \in Sessions, Enqueue(s) PROVE OrderInv'
  <2>1. CASE Len(events[s]) < BufferSize
    <3> DEFINE n == queued[s] + 1
               q == Append(events[s], n)
    <3>1. /\ events' = [events EXCEPT ![s] = q] /\ queued' = [queued EXCEPT ![s] = n]
          /\ UNCHANGED <<at, on, taken, got>>
      BY <1>3, <2>1 DEF Enqueue
    <3>2. /\ events'[s] = q /\ queued'[s] = n
          /\ \A t \in Sessions : t # s => events'[t] = events[t] /\ queued'[t] = queued[t]
      BY <3>1
    <3>3. /\ events[s] \in Seq(Nat) /\ queued[s] \in Nat /\ n \in Nat /\ queued[s] < n
          /\ Climbs(events[s]) /\ Climbs(got[s]) /\ got[s] \in Seq(Nat)
          /\ \A j \in DOMAIN events[s] : events[s][j] \in Nat /\ events[s][j] < n
          /\ \A i \in DOMAIN got[s] : got[s][i] \in Nat /\ got[s][i] < n
          /\ \A i \in DOMAIN got[s] : \A j \in DOMAIN events[s] : got[s][i] < events[s][j]
      OBVIOUS
    <3>4. \A g \in Streams : (at[g] = "writing" /\ on[g] = s) =>
            /\ taken[g] \in 1..n /\ taken[g] < n
            /\ \A i \in DOMAIN got[s] : got[s][i] < taken[g]
            /\ \A j \in DOMAIN events[s] : taken[g] < events[s][j]
      BY <3>3
    <3>5. /\ Climbs(q) /\ q \in Seq(Nat)
          /\ \A j \in DOMAIN q : q[j] = n \/ \E i \in DOMAIN events[s] : q[j] = events[s][i]
      BY <3>3, AppendClimbs
    <3>6. OrderAt(s)'
      <4> HIDE DEF n, q, Inv
      <4>1. \A j \in DOMAIN q : q[j] <= n
        BY <3>3, <3>5
      <4>2. \A i \in DOMAIN got[s] : \A j \in DOMAIN q : got[s][i] < q[j]
        BY <3>3, <3>5
      <4>3. \A g \in Streams : (at[g] = "writing" /\ on[g] = s) =>
              \A j \in DOMAIN q : taken[g] < q[j]
        BY <3>3, <3>4, <3>5
      <4> QED BY <3>1, <3>2, <3>3, <3>4, <3>5, <4>1, <4>2, <4>3
    <3>7. \A t \in Sessions : t # s => OrderAt(t)'
      BY <3>1, <3>2 DEF Climbs
    <3> QED BY <3>6, <3>7
  <2>2. CASE ~(Len(events[s]) < BufferSize)
    BY <1>3, <2>2 DEF Enqueue, Climbs
  <2> QED BY <2>1, <2>2
<1>4. ASSUME NEW s \in Sessions, TimerFires(s) PROVE OrderInv'
  BY <1>4 DEF TimerFires
<1>5. ASSUME NEW s \in Sessions, Expire(s) PROVE OrderInv'
  BY <1>5 DEF Expire, RearmStreaming, Arm
<1>6. ASSUME NEW s \in Sessions, ExpireCloses(s) PROVE OrderInv'
  BY <1>6 DEF ExpireCloses, CloseSession, AlreadyClosed
<1>7. ASSUME NEW s \in Sessions, Deregister(s) PROVE OrderInv'
  BY <1>7 DEF Deregister, LeaveBridge
<1>8. ASSUME NEW s \in Sessions, BridgeClosesSession(s) PROVE OrderInv'
  BY <1>8 DEF BridgeClosesSession, CloseSession, AlreadyClosed
<1>9. ASSUME NEW r \in Requests, NEW s \in Sessions, Lookup(r, s) PROVE OrderInv'
  <2>1. /\ at[r] = "idle" /\ UNCHANGED <<events, queued, taken, got>>
        /\ \/ at' = [at EXCEPT ![r] = "found"] /\ on' = [on EXCEPT ![r] = s]
           \/ at' = [at EXCEPT ![r] = "done"] /\ on' = on
    BY <1>9 DEF Lookup, Goes
  <2>2. \A g \in Streams : /\ at'[g] = "writing" <=> at[g] = "writing"
                           /\ at[g] = "writing" => on'[g] = on[g]
    BY <2>1
  <2> QED BY <2>1, <2>2 DEF Climbs
<1>10. ASSUME NEW r \in Posts, Post(r) PROVE OrderInv'
  BY <1>10 DEF Post, Arm, Goes
<1>11. ASSUME NEW d \in Deletes, Delete(d) PROVE OrderInv'
  BY <1>11 DEF Delete, CloseSession, AlreadyClosed, Goes
<1>12. ASSUME NEW g \in Streams, AttachStream(g) PROVE OrderInv'
  BY <1>12 DEF AttachStream, SlotFree, Goes
<1>13. ASSUME NEW g \in Streams, TakeEvent(g) PROVE OrderInv'
  <2> DEFINE s == on[g]
             q == Tail(events[s])
             h == Head(events[s])
  <2>1. /\ events' = [events EXCEPT ![s] = q] /\ taken' = [taken EXCEPT ![g] = h]
        /\ at' = [at EXCEPT ![g] = "writing"] /\ UNCHANGED <<on, queued, got>>
        /\ at[g] = "stream" /\ events[s] # <<>>
    BY <1>13 DEF TakeEvent, Goes
  <2>2. /\ s \in Sessions /\ events[s] \in Seq(Nat) /\ queued[s] \in Nat
        /\ Climbs(events[s]) /\ Climbs(got[s]) /\ got[s] \in Seq(Nat)
        /\ \A j \in DOMAIN events[s] : events[s][j] \in Nat \ {0} /\ events[s][j] <= queued[s]
        /\ \A i \in DOMAIN got[s] : got[s][i] \in Nat /\ got[s][i] <= queued[s]
        /\ \A i \in DOMAIN got[s] : \A j \in DOMAIN events[s] : got[s][i] < events[s][j]
    OBVIOUS
  <2>3. /\ Climbs(q) /\ q \in Seq(Nat) /\ \E i \in DOMAIN events[s] : h = events[s][i]
        /\ \A j \in DOMAIN q : h < q[j] /\ \E i \in DOMAIN events[s] : q[j] = events[s][i]
    BY <2>1, <2>2, TailClimbs
  <2>4. /\ \A k \in Streams : k # g /\ at[k] = "writing" => on[k] # s
        /\ events'[s] = q /\ taken'[g] = h /\ at'[g] = "writing"
        /\ \A t \in Sessions : t # s => events'[t] = events[t]
        /\ \A k \in Streams : k # g => at'[k] = at[k] /\ taken'[k] = taken[k]
    BY <2>1, <2>2
  <2>5. OrderAt(s)'
    <3> HIDE DEF s, q, h, Inv
    <3>1. /\ h \in 1..queued[s] /\ \A j \in DOMAIN q : q[j] <= queued[s]
          /\ \A i \in DOMAIN got[s] : got[s][i] < h
      BY <2>2, <2>3
    <3>2. \A i \in DOMAIN got[s] : \A j \in DOMAIN q : got[s][i] < q[j]
      BY <2>2, <2>3
    <3>3. s' = s
      BY <2>1 DEF s
    <3> QED BY <2>1, <2>2, <2>3, <2>4, <3>1, <3>2, <3>3
  <2>6. \A t \in Sessions : t # s => OrderAt(t)'
    BY <2>1, <2>4 DEF Climbs
  <2> QED
    <3> HIDE DEF Inv, OrderAt
    <3> QED BY <2>1, <2>5, <2>6
<1>14. ASSUME NEW g \in Streams, WriteEvent(g) PROVE OrderInv'
  <2> DEFINE s == on[g]
             n == taken[g]
             q == Append(got[s], n)
  <2>1. /\ got' = [got EXCEPT ![s] = q] /\ at' = [at EXCEPT ![g] = "stream"]
        /\ UNCHANGED <<events, queued, on, taken>> /\ at[g] = "writing"
    BY <1>14 DEF WriteEvent, Goes
  <2>2. /\ s \in Sessions /\ got[s] \in Seq(Nat) /\ n \in Nat /\ queued[s] \in Nat
        /\ events[s] \in Seq(Nat) /\ Climbs(events[s]) /\ Climbs(got[s]) /\ n <= queued[s]
        /\ \A j \in DOMAIN events[s] : /\ events[s][j] \in Nat /\ events[s][j] <= queued[s]
                                       /\ n < events[s][j]
        /\ \A i \in DOMAIN got[s] : got[s][i] \in Nat /\ got[s][i] < n
    BY <2>1
  <2>3. /\ Climbs(q) /\ q \in Seq(Nat)
        /\ \A j \in DOMAIN q : q[j] = n \/ \E i \in DOMAIN got[s] : q[j] = got[s][i]
    BY <2>2, AppendClimbs
  <2>4. /\ \A k \in Streams : k # g /\ at[k] = "writing" => on[k] # s
        /\ got'[s] = q /\ at'[g] = "stream"
        /\ \A t \in Sessions : t # s => got'[t] = got[t]
        /\ \A k \in Streams : k # g => at'[k] = at[k]
    BY <2>1, <2>2
  <2>5. OrderAt(s)'
    <3> HIDE DEF s, n, q, Inv
    <3>1. \A i \in DOMAIN q : q[i] <= queued[s] /\ \A j \in DOMAIN events[s] : q[i] < events[s][j]
      BY <2>2, <2>3
    <3>2. s' = s
      BY <2>1 DEF s
    <3> QED BY <2>1, <2>2, <2>3, <2>4, <3>1, <3>2
  <2>6. \A t \in Sessions : t # s => OrderAt(t)'
    BY <2>1, <2>4 DEF Climbs
  <2> QED
    <3> HIDE DEF Inv, OrderAt
    <3> QED BY <2>1, <2>5, <2>6
<1>15. ASSUME NEW g \in Streams, StreamTold(g) PROVE OrderInv'
  BY <1>15 DEF StreamTold, Goes, Done
<1>16. ASSUME NEW g \in Streams, Release(g) PROVE OrderInv'
  BY <1>16 DEF Release, Goes, FreeSlot, Arm
<1>17. ASSUME NEW g \in Streams, StreamBreaks(g) PROVE OrderInv'
  BY <1>17 DEF StreamBreaks, Goes
<1>18. CASE BridgeCloses
  BY <1>18 DEF BridgeCloses
<1> QED
  BY <1>1, <1>2, <1>3, <1>4, <1>5, <1>6, <1>7, <1>8, <1>9,
     <1>10, <1>11, <1>12, <1>13, <1>14, <1>15, <1>16, <1>17, <1>18
     DEF Next, ExpiryStep, StreamStep


\* The invariant holds of the first state.
LEMMA InitInv == ASSUME Init PROVE Inv
<1> USE RequestsDistinct, BoundsNat DEF Init, Requests
<1>1. TypeOK
  <2>1. events \in [Sessions -> Seq(1..MaxEvents)] /\ got \in [Sessions -> Seq(1..MaxEvents)]
    OBVIOUS
  <2>2. /\ queued \in [Sessions -> 0..MaxEvents] /\ taken \in [Streams -> 0..MaxEvents]
        /\ doneClosed \in [Sessions -> 0..1]
    OBVIOUS
  <2> QED BY <2>1, <2>2 DEF TypeOK
<1>2. PlacesInv /\ SlotInv
  BY DEF PlacesInv, SlotInv, Holding
<1>3. LifeInv
  BY FS_EmptySet DEF LifeInv
<1>4. OrderInv
  BY DEF OrderInv, OrderAt, Climbs
<1> QED BY <1>1, <1>2, <1>3, <1>4 DEF Inv

\* Every reachable state satisfies the invariant.
THEOREM Invariant == Spec => []Inv
<1>1. ASSUME Inv, [Next]_vars PROVE Inv'
  <2>1. CASE Next
    BY <1>1, <2>1, TypeOKNext, PlacesNext, LifeNext, OrderNext DEF Inv
  <2>2. CASE UNCHANGED vars
    BY <1>1, <2>2 DEF Inv, TypeOK, PlacesInv, SlotInv, LifeInv, OrderInv, OrderAt, Climbs,
       vars, bridge, closing, timers, buffer, handlers
  <2> QED BY <1>1, <2>1, <2>2
<1> QED BY InitInv, <1>1, PTL DEF Spec

-----------------------------------------------------------------------------
(***************************************************************************)
(* The properties.                                                         *)
(***************************************************************************)
\* The slot of a session is held by at most one handler, streaming says whether it
\* is, and the channel done is closed once, by the caller of Close that set closed.
THEOREM StreamSlotIsExact == Spec => []FlagsExact
<1>1. ASSUME Inv PROVE FlagsExact
  <2>1. ASSUME NEW s \in Sessions
        PROVE  /\ streaming[s] <=> Holders(s) # {}
               /\ Cardinality(Holders(s)) <= 1
    <3>1. streaming[s] <=> Holders(s) # {}
      BY <1>1 DEF Inv, SlotInv, Holders, Holding
    <3>2. \A g, h \in Holders(s) : g = h
      BY <1>1 DEF Inv, SlotInv, Holders, Holding
    <3>3. Holders(s) = {} \/ \E g : Holders(s) = {g}
      BY <3>2
    <3>4. Cardinality(Holders(s)) = 0 \/ Cardinality(Holders(s)) = 1
      BY <3>3, FS_EmptySet, FS_Singleton
    <3> QED BY <3>1, <3>4
  <2>2. TypeOK /\ \A s \in Sessions : doneClosed[s] = IF closed[s] THEN 1 ELSE 0
    BY <1>1 DEF Inv, LifeInv
  <2> QED BY <2>1, <2>2 DEF FlagsExact
<1> QED BY Invariant, <1>1, PTL

\* A session that is open can be found and will expire.
THEOREM OpenSessionsAreReaped == Spec => []OpenSessionExpires
<1>1. Inv => OpenSessionExpires
  BY DEF Inv, TypeOK, LifeInv, OpenSessionExpires
<1> QED BY Invariant, <1>1, PTL

\* A client reads its notifications in order and none twice, whatever streams it
\* attaches and loses and however small the buffer is.
THEOREM NotificationsInOrder == Spec => []EventsInOrder
<1>1. Inv => EventsInOrder
  BY DEF Inv, OrderInv, OrderAt, Climbs, EventsInOrder
<1> QED BY Invariant, <1>1, PTL

=============================================================================
