----------------------------- MODULE HttpSession -----------------------------
(***************************************************************************)
(* Streamable HTTP agent sessions (internal/bridge/httpsession.go) under   *)
(* the handlers of /mcp (internal/server/mcphttp.go): POST, the one SSE    *)
(* stream a session may have, DELETE, the expiry timer and Bridge.Close.   *)
(*                                                                         *)
(* One action is one section of Bridge.mu or of HTTPSession.mu, or one     *)
(* channel operation. What a POST asks of the bridge is Bridge.tla's       *)
(* business; here it only touches its session.                             *)
(***************************************************************************)
EXTENDS Naturals, Sequences, FiniteSets

CONSTANTS
  Sessions,     \* the sessions clients open
  Posts,        \* POST requests on a session
  Streams,      \* GET requests
  Deletes,      \* DELETE requests
  BufferSize,   \* httpSessionEventBuffer
  MaxEvents     \* bound: notifications sent to one session

Requests == Posts \cup Streams \cup Deletes

ASSUME BoundsNat == BufferSize \in Nat /\ MaxEvents \in Nat

ASSUME RequestsDistinct ==
  /\ Posts \cap Streams = {} /\ Posts \cap Deletes = {}
  /\ Streams \cap Deletes = {}
  /\ IsFiniteSet(Sessions)

VARIABLES
  registered,       \* Bridge.httpSessions
  agentConnections, \* Bridge.agentConnections, WebSocket agents left out
  bridgeClosed,     \* Bridge.closed
  toClose,          \* what Bridge.Close has still to close
  opened,           \* OpenHTTPSession: "no", "arming" (second section), "yes"
  closed,           \* HTTPSession.closed
  doneClosed,       \* how often the done channel was closed
  leaving,          \* Close has still to take the session out of the bridge
  streaming,        \* HTTPSession.streaming
  expiry,           \* the timer in HTTPSession.expiry: "nil", "armed", "spent"
  fired,            \* expire functions that have not run their section
  doomed,           \* expire functions on their way from the section to Close
  events,           \* the buffered channel
  queued,           \* notifications sent to the session so far
  at,               \* where a request handler stands
  on,               \* the session it looked up
  taken,            \* the notification a stream took and has not written
  got               \* what a session's client has read from its streams

bridge == <<registered, agentConnections, bridgeClosed, toClose>>
timers == <<expiry, fired, doomed>>
closing == <<closed, doneClosed, leaving>>
buffer == <<events, queued>>
handlers == <<at, on, taken, got>>
vars == <<bridge, opened, closing, streaming, timers, buffer, handlers>>

-----------------------------------------------------------------------------
\* armExpiryLocked: stop the old timer (which does not reach a function that has
\* started) and arm a new one.
Arm(s) == expiry' = [expiry EXCEPT ![s] = "armed"]

\* mutant: a second caller goes through Close as well
NeverClosed(s) == FALSE

AlreadyClosed(s) == closed[s]

\* Close, section of s.mu: the first caller has leaving set, the others are done.
CloseSession(s) ==
  IF AlreadyClosed(s)
  THEN UNCHANGED <<closing, expiry>>
  ELSE /\ closed' = [closed EXCEPT ![s] = TRUE]
       /\ expiry' = [expiry EXCEPT ![s] = "nil"]
       /\ doneClosed' = [doneClosed EXCEPT ![s] = @ + 1]
       /\ leaving' = leaving \cup {s}

\* A handler goes on to the next place, or is done.
Goes(r, place) == at' = [at EXCEPT ![r] = place]

\* LookupHTTPSession of the id in the request, of a session the client knows;
\* an unknown or expired session is answered with 404.
Lookup(r, s) ==
  /\ at[r] = "idle"
  /\ opened[s] = "yes"
  /\ IF s \in registered
     THEN /\ Goes(r, "found")
          /\ on' = [on EXCEPT ![r] = s]
     ELSE /\ Goes(r, "done")
          /\ UNCHANGED on
  /\ UNCHANGED <<bridge, opened, closing, streaming, timers, buffer, taken, got>>

-----------------------------------------------------------------------------
(***************************************************************************)
(* Opening: POST initialize.                                               *)
(***************************************************************************)
Open(s) ==
  /\ opened[s] = "no"
  /\ ~bridgeClosed
  /\ opened' = [opened EXCEPT ![s] = "arming"]
  /\ registered' = registered \cup {s}
  /\ agentConnections' = agentConnections + 1
  /\ UNCHANGED <<bridgeClosed, toClose, closing, streaming, timers, buffer,
                 handlers>>

\* armExpiryLocked without a look at closed, then HandleMessage of initialize,
\* whose touch does look; the client learns the id.
OpenArms(s) ==
  /\ opened[s] = "arming"
  /\ opened' = [opened EXCEPT ![s] = "yes"]
  /\ Arm(s)
  /\ UNCHANGED <<bridge, closing, streaming, fired, doomed, buffer, handlers>>

\* HandleMessage: touch, then the bridge answers.
Post(r) ==
  /\ r \in Posts
  /\ at[r] = "found"
  /\ Goes(r, "done")
  /\ IF closed[on[r]] THEN UNCHANGED expiry ELSE Arm(on[r])
  /\ UNCHANGED <<bridge, opened, closing, streaming, fired, doomed, buffer, on,
                 taken, got>>

-----------------------------------------------------------------------------
(***************************************************************************)
(* The SSE stream.                                                         *)
(***************************************************************************)
SlotAlwaysFree(s) == ~closed[s]   \* mutant: any number of streams

SlotFree(s) == ~closed[s] /\ ~streaming[s]

\* AttachStream; without a free slot the answer is 409.
AttachStream(g) ==
  /\ g \in Streams
  /\ at[g] = "found"
  /\ IF SlotFree(on[g])
     THEN /\ Goes(g, "stream")
          /\ streaming' = [streaming EXCEPT ![on[g]] = TRUE]
     ELSE /\ Goes(g, "done")
          /\ UNCHANGED streaming
  /\ UNCHANGED <<bridge, opened, closing, timers, buffer, on, taken, got>>

TakeEvent(g) ==
  /\ at[g] = "stream"
  /\ events[on[g]] # <<>>
  /\ events' = [events EXCEPT ![on[g]] = Tail(@)]
  /\ taken' = [taken EXCEPT ![g] = Head(events[on[g]])]
  /\ Goes(g, "writing")
  /\ UNCHANGED <<bridge, opened, closing, streaming, timers, queued, on, got>>

WriteEvent(g) ==
  /\ at[g] = "writing"
  /\ got' = [got EXCEPT ![on[g]] = Append(@, taken[g])]
  /\ Goes(g, "stream")
  /\ UNCHANGED <<bridge, opened, closing, streaming, timers, buffer, on, taken>>

\* The client is gone: its context is done or a write fails, and with the write
\* the notification is lost.
StreamBreaks(g) ==
  /\ at[g] \in {"stream", "writing"}
  /\ Goes(g, "release")
  /\ UNCHANGED <<bridge, opened, closing, streaming, timers, buffer, on, taken,
                 got>>

NeverDone(s) == FALSE   \* mutant: the select has no arm for it

\* session.Done() is ready.
Done(s) == closed[s]

StreamTold(g) ==
  /\ at[g] = "stream"
  /\ Done(on[g])
  /\ Goes(g, "release")
  /\ UNCHANGED <<bridge, opened, closing, streaming, timers, buffer, on, taken,
                 got>>

KeepSlot(s) == UNCHANGED streaming   \* mutant: the slot is not given back

FreeSlot(s) == streaming' = [streaming EXCEPT ![s] = FALSE]

\* The deferred release.
Release(g) ==
  /\ at[g] = "release"
  /\ Goes(g, "done")
  /\ FreeSlot(on[g])
  /\ IF closed[on[g]] THEN UNCHANGED expiry ELSE Arm(on[g])
  /\ UNCHANGED <<bridge, opened, closing, fired, doomed, buffer, on, taken, got>>

\* enqueueNotification. The broadcaster looked the session up before and does not
\* hold b.mu any more: the session may be closed by now.
Enqueue(s) ==
  /\ opened[s] # "no"
  /\ queued[s] < MaxEvents
  /\ queued' = [queued EXCEPT ![s] = @ + 1]
  /\ events' = IF Len(events[s]) < BufferSize
               THEN [events EXCEPT ![s] = Append(@, queued'[s])] ELSE events
  /\ UNCHANGED <<bridge, opened, closing, streaming, timers, handlers>>

-----------------------------------------------------------------------------
(***************************************************************************)
(* Ending: DELETE, expiry, Bridge.Close.                                   *)
(***************************************************************************)
Delete(d) ==
  /\ d \in Deletes
  /\ at[d] = "found"
  /\ Goes(d, "done")
  /\ CloseSession(on[d])
  /\ UNCHANGED <<bridge, opened, streaming, fired, doomed, buffer, on, taken, got>>

\* The timer fires: expire runs in a goroutine of its own.
TimerFires(s) ==
  /\ expiry[s] = "armed"
  /\ expiry' = [expiry EXCEPT ![s] = "spent"]
  /\ fired' = [fired EXCEPT ![s] = @ + 1]
  /\ UNCHANGED <<bridge, opened, closing, streaming, doomed, buffer, handlers>>

\* mutant: a session with a stream is left alone for good
LeaveStreaming(s) == UNCHANGED expiry

RearmStreaming(s) == Arm(s)

\* expire's section: closed, streaming, or on to Close.
Expire(s) ==
  /\ fired[s] > 0
  /\ fired' = [fired EXCEPT ![s] = @ - 1]
  /\ IF closed[s] THEN UNCHANGED <<expiry, doomed>>
     ELSE IF streaming[s] THEN RearmStreaming(s) /\ UNCHANGED doomed
     ELSE doomed' = [doomed EXCEPT ![s] = @ + 1] /\ UNCHANGED expiry
  /\ UNCHANGED <<bridge, opened, closing, streaming, buffer, handlers>>

\* expire calls Close, with nothing looked at again.
ExpireCloses(s) ==
  /\ doomed[s] > 0
  /\ doomed' = [doomed EXCEPT ![s] = @ - 1]
  /\ CloseSession(s)
  /\ UNCHANGED <<bridge, opened, streaming, fired, buffer, handlers>>

\* Close, section of b.mu.
LeaveBridge(s) ==
  IF s \in registered
  THEN /\ registered' = registered \ {s}
       /\ agentConnections' = agentConnections - 1
  ELSE UNCHANGED <<registered, agentConnections>>

Deregister(s) ==
  /\ s \in leaving
  /\ leaving' = leaving \ {s}
  /\ LeaveBridge(s)
  /\ UNCHANGED <<bridgeClosed, toClose, opened, closed, doneClosed, streaming,
                 timers, buffer, handlers>>

\* Bridge.Close: its section, then Close of each session in turn.
BridgeCloses ==
  /\ ~bridgeClosed
  /\ bridgeClosed' = TRUE
  /\ toClose' = registered
  /\ UNCHANGED <<registered, agentConnections, opened, closing, streaming, timers,
                 buffer, handlers>>

BridgeClosesSession(s) ==
  /\ s \in toClose
  /\ toClose' = toClose \ {s}
  /\ CloseSession(s)
  /\ UNCHANGED <<registered, agentConnections, bridgeClosed, opened, streaming,
                 fired, doomed, buffer, handlers>>

-----------------------------------------------------------------------------
Init ==
  /\ registered = {} /\ agentConnections = 0
  /\ bridgeClosed = FALSE /\ toClose = {}
  /\ opened = [s \in Sessions |-> "no"]
  /\ closed = [s \in Sessions |-> FALSE]
  /\ doneClosed = [s \in Sessions |-> 0]
  /\ leaving = {}
  /\ streaming = [s \in Sessions |-> FALSE]
  /\ expiry = [s \in Sessions |-> "nil"]
  /\ fired = [s \in Sessions |-> 0]
  /\ doomed = [s \in Sessions |-> 0]
  /\ events = [s \in Sessions |-> <<>>]
  /\ queued = [s \in Sessions |-> 0]
  /\ at = [r \in Requests |-> "idle"]
  /\ on \in [Requests -> Sessions]
  /\ taken = [g \in Streams |-> 0]
  /\ got = [s \in Sessions |-> <<>>]

ExpiryStep(s) == TimerFires(s) \/ Expire(s) \/ ExpireCloses(s)

StreamStep(g) ==
  AttachStream(g) \/ TakeEvent(g) \/ WriteEvent(g) \/ StreamTold(g) \/ Release(g)

Next ==
  \/ \E s \in Sessions :
       \/ Open(s) \/ OpenArms(s) \/ Enqueue(s)
       \/ ExpiryStep(s) \/ Deregister(s) \/ BridgeClosesSession(s)
  \/ \E r \in Requests, s \in Sessions : Lookup(r, s)
  \/ \E r \in Posts : Post(r)
  \/ \E d \in Deletes : Delete(d)
  \/ \E g \in Streams : StreamStep(g) \/ StreamBreaks(g)
  \/ BridgeCloses

Spec == Init /\ [][Next]_vars

\* Timers fire and goroutines are scheduled; a stream's select comes to the arm of
\* s.Done() sooner or later; a write to a stream returns, because the client reads
\* it or the connection breaks. No client has to send anything or hang up.
Fairness ==
  /\ \A s \in Sessions :
       /\ WF_vars(OpenArms(s)) /\ WF_vars(ExpiryStep(s))
       /\ WF_vars(Deregister(s)) /\ WF_vars(BridgeClosesSession(s))
  /\ \A r \in Posts : WF_vars(Post(r))
  /\ \A g \in Streams :
       WF_vars(AttachStream(g)) /\ WF_vars(WriteEvent(g)) /\ WF_vars(Release(g))
         /\ WF_vars(StreamTold(g))

FairSpec == Spec /\ Fairness

-----------------------------------------------------------------------------
(***************************************************************************)
(* Properties.                                                             *)
(***************************************************************************)
\* Every variable has the shape the code gives it; close(s.done), which panics
\* on a closed channel, runs at most once however DELETE, expiry and Bridge.Close
\* coincide.
TypeOK ==
  /\ registered \subseteq Sessions /\ toClose \subseteq Sessions
  /\ leaving \subseteq Sessions
  /\ agentConnections \in Nat
  /\ bridgeClosed \in BOOLEAN
  /\ opened \in [Sessions -> {"no", "arming", "yes"}]
  /\ closed \in [Sessions -> BOOLEAN]
  /\ doneClosed \in [Sessions -> 0..1]
  /\ streaming \in [Sessions -> BOOLEAN]
  /\ expiry \in [Sessions -> {"nil", "armed", "spent"}]
  /\ fired \in [Sessions -> Nat] /\ doomed \in [Sessions -> Nat]
  /\ events \in [Sessions -> Seq(1..MaxEvents)]
  /\ queued \in [Sessions -> 0..MaxEvents]
  /\ at \in [Requests -> {"idle", "found", "stream", "writing", "release", "done"}]
  /\ on \in [Requests -> Sessions]
  /\ taken \in [Streams -> 0..MaxEvents]
  /\ got \in [Sessions -> Seq(1..MaxEvents)]

\* The handlers that hold the stream slot of s.
Holders(s) ==
  {g \in Streams : at[g] \in {"stream", "writing", "release"} /\ on[g] = s}

\* HTTPSession.streaming says whether a handler holds the slot, and never two do
\* (AttachStream's "single SSE stream slot"); the channel done is closed by the one
\* caller of Close that set closed, as closing it twice would panic.  Every variable
\* has its type.
FlagsExact ==
  /\ TypeOK
  /\ \A s \in Sessions : /\ streaming[s] <=> Holders(s) # {}
                         /\ Cardinality(Holders(s)) <= 1
                         /\ doneClosed[s] = IF closed[s] THEN 1 ELSE 0

\* A client reads its notifications in the order they were queued and none twice,
\* over all the streams it attaches one after the other; a full buffer or a broken
\* stream may only leave some out.
EventsInOrder ==
  \A s \in Sessions : \A i, j \in DOMAIN got[s] : i < j => got[s][i] < got[s][j]

\* A session that is not closed is one the bridge can find, and it will expire:
\* its timer is armed or its expire function runs. (A closed session whose
\* OpenHTTPSession lost the race with Bridge.Close may have a timer too.)
OpenSessionExpires ==
  \A s \in Sessions :
    (opened[s] = "yes" /\ ~closed[s]) =>
      /\ s \in registered
      /\ expiry[s] = "armed" \/ fired[s] > 0 \/ doomed[s] > 0

\* A session nobody streams from leaves the bridge in the end, whether or not its
\* client says DELETE, and with it its hold on the idle timer.
SessionsReaped ==
  \A s \in Sessions : (s \in registered) ~> (s \notin registered \/ Holders(s) # {})

\* When the session ends its stream ends.
StreamsEnd ==
  \A g \in Streams :
    (at[g] = "stream" /\ closed[on[g]]) ~> (at[g] = "done")
=============================================================================
