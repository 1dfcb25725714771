-------------------------------- MODULE Peer --------------------------------
(***************************************************************************)
(* One JSON-RPC endpoint over one WebSocket (internal/mcpwire/peer.go):    *)
(* calls that wait for their response, a read loop that delivers responses *)
(* and runs handlers, a write lock, and a shutdown that runs once whoever  *)
(* asks for it.                                                            *)
(*                                                                         *)
(* A call is its id: nextID.Add hands out each id once. One action is one  *)
(* section of pendingMu, one operation on a channel, one read or write on  *)
(* the connection, or one statement of shutdown.                           *)
(***************************************************************************)
EXTENDS Naturals, Sequences, FiniteSets

CONSTANTS
  Calls,        \* Call invocations
  Replies,      \* other writes: answers to incoming requests, notifications
  Closers,      \* goroutines that call Close
  ReadLoop,     \* the goroutine of readLoop
  Nobody,
  MaxAnswers    \* bound, per call: how often the far side answers it

Writers == Calls \cup Replies
Threads == Closers \cup {ReadLoop}

ASSUME ThreadsDistinct ==
  /\ ReadLoop \notin Closers /\ Nobody \notin Threads /\ Nobody \notin Writers
  /\ "free" \notin Threads /\ "done" \notin Threads
  /\ Calls \cap Replies = {}

VARIABLES
  conn,       \* the WebSocket: "open" or "broken"
  cancelled,  \* p.cancel was called: p.ctx is done
  pending,    \* the ids in p.pending
  box,        \* a call's channel of capacity 1: "empty", "full", "closed"
  at,         \* where a writer stands
  outcome,    \* how a call ended
  writer,     \* who holds writeMu
  wire,       \* responses on their way to the read loop
  sent,       \* the requests the far side may have got
  answers,    \* how often it answered each
  held,       \* the call whose channel the read loop took from pending and is
              \* about to send to, or Nobody
  thread,     \* callers of shutdown: "idle", "shutdown", "returned"
  once,       \* closeOnce: "free", who is inside, or "done"
  stage,      \* the statement of shutdown that runs next
  drained,    \* shutdown's copy of pending, less the channels closed
  onClose,    \* the handler: "unset", or registered "before" or "after" some
              \* goroutine entered shutdown
  fired       \* how often it ran

net == <<conn, wire, sent, answers>>
calling == <<pending, box, at, outcome, writer>>
closing == <<cancelled, thread, once, stage, drained, onClose, fired>>
vars == <<net, calling, held, closing>>

-----------------------------------------------------------------------------
(***************************************************************************)
(* Call, and the writes of respond and Notify.                             *)
(***************************************************************************)
\* Call registers its channel; then it queues for writeMu.
Register(c) ==
  /\ at[c] = "idle"
  /\ at' = [at EXCEPT ![c] = "write"]
  /\ pending' = pending \cup {c}
  /\ outcome' = [outcome EXCEPT ![c] = "waiting"]
  /\ UNCHANGED <<net, box, writer, held, closing>>

\* Notify, or a request handler that is done and responds.
StartReply(r) ==
  /\ at[r] = "idle"
  /\ at' = [at EXCEPT ![r] = "write"]
  /\ UNCHANGED <<net, pending, box, outcome, writer, held, closing>>

\* conn.Write begins: an answer may come before it returns.
LockWrite(w) ==
  /\ at[w] = "write"
  /\ writer = Nobody
  /\ writer' = w
  /\ at' = [at EXCEPT ![w] = "writing"]
  /\ sent' = sent \cup ({w} \cap Calls)
  /\ UNCHANGED <<conn, wire, answers, pending, box, outcome, held, closing>>

Written(w) ==
  /\ at[w] = "writing"
  /\ conn = "open"
  /\ writer' = Nobody
  /\ at' = [at EXCEPT ![w] = IF w \in Calls THEN "wait" ELSE "done"]
  /\ UNCHANGED <<net, pending, box, outcome, held, closing>>

\* The write fails: the connection is gone, p.ctx is done, or writeTimeout
\* passed. The WebSocket library may give the connection up with the write, and
\* the request may have reached the far side all the same.
WriteFails(w) ==
  /\ at[w] = "writing"
  /\ writer' = Nobody
  /\ IF w \in Calls
     THEN /\ at' = [at EXCEPT ![w] = "leave"]
          /\ outcome' = [outcome EXCEPT ![w] = "failed"]
     ELSE /\ at' = [at EXCEPT ![w] = "done"]
          /\ UNCHANGED outcome
  /\ conn' \in {conn, "broken"}
  /\ UNCHANGED <<wire, sent, answers, pending, box, held, closing>>

\* The arms of Call's select. A closed channel yields nil, which Call tells from
\* an answer.
EndCall(c, how) ==
  /\ at[c] = "wait"
  /\ at' = [at EXCEPT ![c] = "leave"]
  /\ outcome' = [outcome EXCEPT ![c] = how]
  /\ UNCHANGED <<net, pending, writer, held, closing>>

\* mutant: whatever the channel yields is taken for the answer
YieldsAnything(c) == box[c] \in {"full", "closed"}

YieldsAnswer(c) == box[c] = "full"

TakeAnswer(c) ==
  /\ YieldsAnswer(c)
  /\ EndCall(c, "result")
  /\ box' = [box EXCEPT ![c] = IF @ = "full" THEN "empty" ELSE @]

\* mutant: Call selects on its own context only
NeverInterrupted(c) == FALSE

Interrupted(c) == box[c] = "closed" \/ cancelled

CallClosed(c) ==
  /\ Interrupted(c)
  /\ EndCall(c, "closed")
  /\ UNCHANGED box

\* The caller's context or the request timeout.
CallTimesOut(c) ==
  /\ EndCall(c, "failed")
  /\ UNCHANGED box

\* mutant: an id is only taken out by its response
LeaveEntry(c) == pending

\* The deferred delete, from the map p.pending is by then.
DropEntry(c) == pending \ {c}

Leave(c) ==
  /\ at[c] = "leave"
  /\ at' = [at EXCEPT ![c] = "done"]
  /\ pending' = DropEntry(c)
  /\ UNCHANGED <<net, box, outcome, writer, held, closing>>

-----------------------------------------------------------------------------
(***************************************************************************)
(* The far side and the network.                                           *)
(***************************************************************************)
\* It may answer a request more than once; the read loop must cope.
FarSideAnswers(c) ==
  /\ conn = "open"
  /\ c \in sent
  /\ answers[c] < MaxAnswers[c]
  /\ answers' = [answers EXCEPT ![c] = @ + 1]
  /\ wire' = Append(wire, c)
  /\ UNCHANGED <<conn, sent, calling, held, closing>>

NetworkBreaks ==
  /\ conn = "open"
  /\ conn' = "broken"
  /\ UNCHANGED <<wire, sent, answers, calling, held, closing>>

-----------------------------------------------------------------------------
(***************************************************************************)
(* The read loop. An incoming request goes to a goroutine, whose answer is *)
(* one of Replies; an incoming notification runs its handler in the loop,  *)
(* which from here is a loop that is slow to read on.                      *)
(***************************************************************************)
Reads == thread[ReadLoop] = "idle" /\ held = Nobody

\* mutant: the channel stays in the map
LookUp(c) == pending

TakeOut(c) == pending \ {c}

\* deliver's section.
Deliver ==
  /\ Reads
  /\ conn = "open"
  /\ wire # <<>>
  /\ wire' = Tail(wire)
  /\ LET c == Head(wire)
     IN  IF c \in pending
         THEN /\ pending' = TakeOut(c)
              /\ held' = c
         ELSE UNCHANGED <<pending, held>>
  /\ UNCHANGED <<conn, sent, answers, box, at, outcome, writer, closing>>

\* ch <- msg: waits while the buffer is full, panics on a closed channel.
Send ==
  /\ held # Nobody
  /\ box[held] = "empty"
  /\ box' = [box EXCEPT ![held] = "full"]
  /\ held' = Nobody
  /\ UNCHANGED <<net, pending, at, outcome, writer, closing>>

\* Read fails and the deferred shutdown runs.
ReadFails ==
  /\ Reads
  /\ conn = "broken" \/ cancelled
  /\ thread' = [thread EXCEPT ![ReadLoop] = "shutdown"]
  /\ UNCHANGED <<net, calling, held, cancelled, once, stage, drained, onClose,
                 fired>>

-----------------------------------------------------------------------------
(***************************************************************************)
(* shutdown                                                                *)
(***************************************************************************)
SetOnClose ==
  /\ onClose = "unset"
  /\ onClose' = IF once = "free" THEN "before" ELSE "after"
  /\ UNCHANGED <<net, calling, held, cancelled, thread, once, stage, drained,
                 fired>>

Close(x) ==
  /\ thread[x] = "idle"
  /\ thread' = [thread EXCEPT ![x] = "shutdown"]
  /\ UNCHANGED <<net, calling, held, cancelled, once, stage, drained, onClose,
                 fired>>

OnceIsIgnored == TRUE   \* mutant: no sync.Once

OnceIsFree == once = "free"

\* closeOnce.Do: the first goes in, the others wait until it is out.
EnterOnce(t) ==
  /\ thread[t] = "shutdown"
  /\ OnceIsFree
  /\ once' = t
  /\ stage' = "cancel"
  /\ UNCHANGED <<net, calling, held, cancelled, thread, drained, onClose,
                 fired>>

\* mutant: a flag tells that somebody else shuts down, and nobody waits
SomebodyDidIt == once # "free"

OnceIsOver == once = "done"

PassOnce(t) ==
  /\ thread[t] = "shutdown"
  /\ once # t
  /\ OnceIsOver
  /\ thread' = [thread EXCEPT ![t] = "returned"]
  /\ UNCHANGED <<net, calling, held, cancelled, once, stage, drained, onClose,
                 fired>>

Cancel ==
  /\ stage = "cancel"
  /\ cancelled' = TRUE
  /\ stage' = "conn"
  /\ UNCHANGED <<net, calling, held, thread, once, drained, onClose, fired>>

CloseConn ==
  /\ stage = "conn"
  /\ conn' = "broken"
  /\ stage' = "swap"
  /\ UNCHANGED <<wire, sent, answers, calling, held, cancelled, thread, once,
                 drained, onClose, fired>>

\* The section that takes the pending map away.
SwapPending ==
  /\ stage = "swap"
  /\ drained' = pending
  /\ pending' = {}
  /\ stage' = "close"
  /\ UNCHANGED <<net, box, at, outcome, writer, held, cancelled, thread, once,
                 onClose, fired>>

\* close(ch), which panics on a channel that is closed.
CloseChannel(c) ==
  /\ stage = "close"
  /\ c \in drained
  /\ drained' = drained \ {c}
  /\ box' = [box EXCEPT ![c] = "closed"]
  /\ UNCHANGED <<net, pending, at, outcome, writer, held, cancelled, thread,
                 once, stage, onClose, fired>>

\* The callback, if one is registered by now.
FireOnClose ==
  /\ stage = "close"
  /\ drained = {}
  /\ fired' = IF onClose # "unset" THEN fired + 1 ELSE fired
  /\ stage' = "over"
  /\ UNCHANGED <<net, calling, held, cancelled, thread, once, drained,
                 onClose>>

LeaveOnce ==
  /\ stage = "over"
  /\ once' = "done"
  /\ stage' = "none"
  /\ thread' = [thread EXCEPT ![once] = "returned"]
  /\ UNCHANGED <<net, calling, held, cancelled, drained, onClose, fired>>

-----------------------------------------------------------------------------
Init ==
  /\ conn = "open" /\ wire = <<>> /\ sent = {}
  /\ answers = [c \in Calls |-> 0]
  /\ pending = {}
  /\ box = [c \in Calls |-> "empty"]
  /\ at = [w \in Writers |-> "idle"]
  /\ outcome = [c \in Calls |-> "none"]
  /\ writer = Nobody
  /\ held = Nobody
  /\ cancelled = FALSE
  /\ thread = [t \in Threads |-> "idle"]
  /\ once = "free" /\ stage = "none" /\ drained = {}
  /\ onClose = "unset" /\ fired = 0

WriteStep(w) == LockWrite(w) \/ Written(w) \/ WriteFails(w)
WakeUp(c) == TakeAnswer(c) \/ CallClosed(c)
LoopStep == Deliver \/ Send \/ ReadFails
OnceStep(t) == EnterOnce(t) \/ PassOnce(t)
ShutdownStep ==
  \/ Cancel \/ CloseConn \/ SwapPending \/ FireOnClose \/ LeaveOnce
  \/ \E c \in Calls : CloseChannel(c)

Next ==
  \/ \E c \in Calls : \/ Register(c) \/ WakeUp(c) \/ CallTimesOut(c) \/ Leave(c)
                      \/ FarSideAnswers(c)
  \/ \E r \in Replies : StartReply(r)
  \/ \E w \in Writers : WriteStep(w)
  \/ \E x \in Closers : Close(x)
  \/ \E t \in Threads : OnceStep(t)
  \/ LoopStep \/ NetworkBreaks \/ SetOnClose \/ ShutdownStep

Spec == Init /\ [][Next]_vars

\* Goroutines are scheduled, handlers return, and a write ends one way or the
\* other within writeTimeout. That the request timeout ever ends a call is not
\* assumed: the promise is kept without it.
Fairness ==
  /\ \A w \in Writers : WF_vars(WriteStep(w))
  /\ \A c \in Calls : WF_vars(WakeUp(c)) /\ WF_vars(Leave(c))
  /\ \A t \in Threads : WF_vars(OnceStep(t))
  /\ WF_vars(LoopStep) /\ WF_vars(ShutdownStep)

FairSpec == Spec /\ Fairness

-----------------------------------------------------------------------------
(***************************************************************************)
(* Properties.                                                             *)
(***************************************************************************)
\* Every variable has the shape the code gives it; the callback of OnClose runs
\* at most once, whoever asks for the shutdown.
TypeOK ==
  /\ conn \in {"open", "broken"}
  /\ cancelled \in BOOLEAN /\ onClose \in {"unset", "before", "after"}
  /\ pending \subseteq Calls /\ drained \subseteq Calls /\ sent \subseteq Calls
  /\ box \in [Calls -> {"empty", "full", "closed"}]
  /\ at \in [Writers -> {"idle", "write", "writing", "wait", "leave", "done"}]
  /\ outcome \in [Calls -> {"none", "waiting", "result", "closed", "failed"}]
  /\ writer \in Writers \cup {Nobody}
  /\ wire \in Seq(Calls)
  /\ answers \in [Calls -> Nat]
  /\ held \in Calls \cup {Nobody}
  /\ thread \in [Threads -> {"idle", "shutdown", "returned"}]
  /\ once \in Threads \cup {"free", "done"}
  /\ stage \in {"none", "cancel", "conn", "swap", "close", "over"}
  /\ fired \in 0..1

\* No channel operation panics or blocks the read loop: deliver's send always
\* finds an empty, open channel, however often the far side answers and whenever
\* shutdown comes; shutdown never closes a channel twice.
ChannelsSafe ==
  /\ held # Nobody => box[held] = "empty"
  /\ \A c \in drained : box[c] # "closed"

\* Peer.pending holds calls in progress only: no ending of a call leaks its entry.
PendingExact == \A c \in pending : at[c] \in {"write", "writing", "wait", "leave"}

\* When Close returns, whichever goroutine did the work, the connection is down,
\* no channel is left to close, and an OnClose callback that was registered
\* before the shutdown began has run exactly once.
CloseMeansClosed ==
  \A t \in Threads :
    thread[t] = "returned" =>
      /\ conn = "broken" /\ cancelled /\ drained = {}
      /\ onClose = "before" => fired = 1

\* Seen from outside, Call keeps the promise of RequestReply.
Promise == INSTANCE RequestReply
             WITH answered <- {c \in Calls : answers[c] > 0},
                  down <- once # "free"

KeepsPromise == Promise!Spec
=============================================================================
