----------------------------- MODULE PeerProofs -----------------------------
(***************************************************************************)
(* Proofs about Peer, for any number of calls, writers, closers and        *)
(* answers. ChannelInv says who may still touch a call's channel, OnceInv  *)
(* where shutdown stands, OutcomeInv what a call's outcome rests on.       *)
(***************************************************************************)
EXTENDS Peer, TLAPS

\* A channel that the read loop or shutdown has still to use is empty, and only
\* one of pending, the read loop and shutdown's copy knows it.
ChannelInv ==
  /\ held # Nobody => /\ box[held] = "empty"
                      /\ held \notin pending /\ held \notin drained
                      /\ at[held] # "idle"
  /\ \A c \in pending : /\ box[c] = "empty" /\ c \notin drained
                        /\ at[c] \in {"write", "writing", "wait", "leave"}
  /\ \A c \in drained : box[c] = "empty" /\ at[c] # "idle"
  /\ \A c \in Calls : at[c] = "idle" => box[c] = "empty"

Working == {"cancel", "conn", "swap", "close"}

\* closeOnce lets one goroutine through the statements of shutdown, once.
OnceInv ==
  /\ once = "free" => stage = "none" /\ ~cancelled
  /\ once \in Threads <=> stage # "none"
  /\ once \in Threads => thread[once] = "shutdown"
  /\ stage \in Working \/ once = "free" => fired = 0
  /\ drained # {} => stage = "close"
  /\ stage \in {"conn", "swap", "close", "over"} \/ once = "done" => cancelled
  /\ stage \in {"swap", "close", "over"} \/ once = "done" => conn = "broken"
  /\ stage = "over" \/ once = "done" => (onClose = "before" => fired = 1)
  /\ \A t \in Threads : thread[t] = "returned" => once = "done"

\* An outcome is decided once, "result" only of what the far side answered and
\* "closed" only once the shutdown has begun.
OutcomeInv ==
  /\ \A c \in Calls : at[c] \in {"write", "writing", "wait"} <=> outcome[c] = "waiting"
  /\ \A c \in Calls : at[c] = "idle" <=> outcome[c] = "none"
  /\ \A c \in sent : at[c] # "idle"
  /\ \A c \in Calls :
       (box[c] = "full" \/ held = c \/ \E i \in DOMAIN wire : wire[i] = c)
         => answers[c] > 0
  /\ \A c \in Calls : box[c] = "closed" => once # "free"

Inv == TypeOK /\ ChannelInv /\ OnceInv /\ OutcomeInv

-----------------------------------------------------------------------------

\* Every step keeps the types; fired stays at most 1 since only shutdown's one
\* pass through its statements runs the callback.
LEMMA TypeOKNext == ASSUME Inv, Next PROVE TypeOK'
<1> USE ThreadsDistinct DEF Inv, TypeOK, OnceInv, Writers, net, calling, closing
<1>1. ASSUME NEW c \in Calls, Register(c) PROVE TypeOK'
  BY <1>1 DEF Register
<1>2. ASSUME NEW c \in Calls, TakeAnswer(c) PROVE TypeOK'
  BY <1>2 DEF TakeAnswer, EndCall, YieldsAnswer
<1>3. ASSUME NEW c \in Calls, CallClosed(c) PROVE TypeOK'
  BY <1>3 DEF CallClosed, EndCall, Interrupted
<1>4. ASSUME NEW c \in Calls, CallTimesOut(c) PROVE TypeOK'
  BY <1>4 DEF CallTimesOut, EndCall
<1>5. ASSUME NEW c \in Calls, Leave(c) PROVE TypeOK'
  BY <1>5 DEF Leave, DropEntry
<1>6. ASSUME NEW c \in Calls, FarSideAnswers(c) PROVE TypeOK'
  BY <1>6 DEF FarSideAnswers
<1>7. ASSUME NEW r \in Replies, StartReply(r) PROVE TypeOK'
  BY <1>7 DEF StartReply
<1>8. ASSUME NEW w \in Writers, LockWrite(w) PROVE TypeOK'
  BY <1>8 DEF LockWrite
<1>9. ASSUME NEW w \in Writers, Written(w) PROVE TypeOK'
  BY <1>9 DEF Written
<1>10. ASSUME NEW w \in Writers, WriteFails(w) PROVE TypeOK'
  <2>1. CASE w \notin Calls BY <1>10, <2>1 DEF WriteFails
  <2>2. CASE w \in Calls BY <1>10, <2>2 DEF WriteFails
  <2> QED BY <2>1, <2>2
<1>11. ASSUME NEW x \in Closers, Close(x) PROVE TypeOK'
  BY <1>11 DEF Close
<1>12. ASSUME NEW t \in Threads, EnterOnce(t) PROVE TypeOK'
  BY <1>12 DEF EnterOnce, OnceIsFree
<1>13. ASSUME NEW t \in Threads, PassOnce(t) PROVE TypeOK'
  BY <1>13 DEF PassOnce, OnceIsOver
<1>14. CASE Deliver
  BY <1>14 DEF Deliver, Reads, TakeOut
<1>15. CASE Send
  BY <1>15 DEF Send
<1>16. CASE ReadFails
  BY <1>16 DEF ReadFails, Reads
<1>17. CASE NetworkBreaks
  BY <1>17 DEF NetworkBreaks
<1>18. CASE SetOnClose
  BY <1>18 DEF SetOnClose
<1>19. CASE Cancel
  BY <1>19 DEF Cancel
<1>20. CASE CloseConn
  BY <1>20 DEF CloseConn
<1>21. CASE SwapPending
  BY <1>21 DEF SwapPending
<1>22. ASSUME NEW c \in Calls, CloseChannel(c) PROVE TypeOK'
  BY <1>22 DEF CloseChannel
<1>23. CASE FireOnClose
  BY <1>23 DEF FireOnClose, Working
<1>24. CASE LeaveOnce
  BY <1>24 DEF LeaveOnce
<1> QED
  BY <1>1, <1>2, <1>3, <1>4, <1>5, <1>6, <1>7, <1>8, <1>9, <1>10, <1>11, <1>12,
     <1>13, <1>14, <1>15, <1>16, <1>17, <1>18, <1>19, <1>20, <1>21, <1>22,
     <1>23, <1>24
     DEF Next, WakeUp, WriteStep, OnceStep, LoopStep, ShutdownStep

\* Every step hands a channel on from pending to the read loop or to shutdown,
\* never to both.
LEMMA ChannelNext == ASSUME Inv, Next PROVE ChannelInv'
<1> USE ThreadsDistinct DEF Inv, TypeOK, ChannelInv, OnceInv, Writers, net, calling, closing
<1>1. ASSUME NEW c \in Calls, Register(c) PROVE ChannelInv'
  BY <1>1 DEF Register
<1>2. ASSUME NEW c \in Calls, TakeAnswer(c) PROVE ChannelInv'
  BY <1>2 DEF TakeAnswer, EndCall, YieldsAnswer
<1>3. ASSUME NEW c \in Calls, CallClosed(c) PROVE ChannelInv'
  BY <1>3 DEF CallClosed, EndCall, Interrupted
<1>4. ASSUME NEW c \in Calls, CallTimesOut(c) PROVE ChannelInv'
  BY <1>4 DEF CallTimesOut, EndCall
<1>5. ASSUME NEW c \in Calls, Leave(c) PROVE ChannelInv'
  BY <1>5 DEF Leave, DropEntry
<1>6. ASSUME NEW c \in Calls, FarSideAnswers(c) PROVE ChannelInv'
  BY <1>6 DEF FarSideAnswers
<1>7. ASSUME NEW r \in Replies, StartReply(r) PROVE ChannelInv'
  BY <1>7 DEF StartReply
<1>8. ASSUME NEW w \in Writers, LockWrite(w) PROVE ChannelInv'
  BY <1>8 DEF LockWrite
<1>9. ASSUME NEW w \in Writers, Written(w) PROVE ChannelInv'
  <2>1. CASE w \notin Calls BY <1>9, <2>1 DEF Written
  <2>2. CASE w \in Calls BY <1>9, <2>2 DEF Written
  <2> QED BY <2>1, <2>2
<1>10. ASSUME NEW w \in Writers, WriteFails(w) PROVE ChannelInv'
  <2>1. CASE w \notin Calls BY <1>10, <2>1 DEF WriteFails
  <2>2. CASE w \in Calls
    <3>1. at' = [at EXCEPT ![w] = "leave"] /\ at[w] = "writing"
      BY <1>10, <2>2 DEF WriteFails
    <3>2. UNCHANGED <<pending, box, held, drained>> BY <1>10 DEF WriteFails
    <3> QED BY <2>2, <3>1, <3>2
  <2> QED BY <2>1, <2>2
<1>11. ASSUME NEW x \in Closers, Close(x) PROVE ChannelInv'
  BY <1>11 DEF Close
<1>12. ASSUME NEW t \in Threads, EnterOnce(t) PROVE ChannelInv'
  BY <1>12 DEF EnterOnce, OnceIsFree
<1>13. ASSUME NEW t \in Threads, PassOnce(t) PROVE ChannelInv'
  BY <1>13 DEF PassOnce, OnceIsOver
<1>14. CASE Deliver
  BY <1>14 DEF Deliver, Reads, TakeOut
<1>15. CASE Send
  BY <1>15 DEF Send
<1>16. CASE ReadFails
  BY <1>16 DEF ReadFails, Reads
<1>17. CASE NetworkBreaks
  BY <1>17 DEF NetworkBreaks
<1>18. CASE SetOnClose
  BY <1>18 DEF SetOnClose
<1>19. CASE Cancel
  BY <1>19 DEF Cancel
<1>20. CASE CloseConn
  BY <1>20 DEF CloseConn
<1>21. CASE SwapPending
  BY <1>21 DEF SwapPending
<1>22. ASSUME NEW c \in Calls, CloseChannel(c) PROVE ChannelInv'
  BY <1>22 DEF CloseChannel
<1>23. CASE FireOnClose
  BY <1>23 DEF FireOnClose
<1>24. CASE LeaveOnce
  BY <1>24 DEF LeaveOnce
<1> QED
  BY <1>1, <1>2, <1>3, <1>4, <1>5, <1>6, <1>7, <1>8, <1>9, <1>10, <1>11, <1>12,
     <1>13, <1>14, <1>15, <1>16, <1>17, <1>18, <1>19, <1>20, <1>21, <1>22,
     <1>23, <1>24
     DEF Next, WakeUp, WriteStep, OnceStep, LoopStep, ShutdownStep

\* No step lets a second goroutine into shutdown, or runs a statement of it
\* before the one in front.
LEMMA OnceNext == ASSUME Inv, Next PROVE OnceInv'
<1> USE ThreadsDistinct DEF Inv, TypeOK, OnceInv, Working, Writers, net, calling, closing
<1>1. ASSUME NEW c \in Calls, Register(c) PROVE OnceInv'
  BY <1>1 DEF Register
<1>2. ASSUME NEW c \in Calls, TakeAnswer(c) PROVE OnceInv'
  BY <1>2 DEF TakeAnswer, EndCall, YieldsAnswer
<1>3. ASSUME NEW c \in Calls, CallClosed(c) PROVE OnceInv'
  BY <1>3 DEF CallClosed, EndCall, Interrupted
<1>4. ASSUME NEW c \in Calls, CallTimesOut(c) PROVE OnceInv'
  BY <1>4 DEF CallTimesOut, EndCall
<1>5. ASSUME NEW c \in Calls, Leave(c) PROVE OnceInv'
  BY <1>5 DEF Leave, DropEntry
<1>6. ASSUME NEW c \in Calls, FarSideAnswers(c) PROVE OnceInv'
  BY <1>6 DEF FarSideAnswers
<1>7. ASSUME NEW r \in Replies, StartReply(r) PROVE OnceInv'
  BY <1>7 DEF StartReply
<1>8. ASSUME NEW w \in Writers, LockWrite(w) PROVE OnceInv'
  BY <1>8 DEF LockWrite
<1>9. ASSUME NEW w \in Writers, Written(w) PROVE OnceInv'
  BY <1>9 DEF Written
<1>10. ASSUME NEW w \in Writers, WriteFails(w) PROVE OnceInv'
  BY <1>10 DEF WriteFails
<1>11. ASSUME NEW x \in Closers, Close(x) PROVE OnceInv'
  BY <1>11 DEF Close
<1>12. ASSUME NEW t \in Threads, EnterOnce(t) PROVE OnceInv'
  BY <1>12 DEF EnterOnce, OnceIsFree
<1>13. ASSUME NEW t \in Threads, PassOnce(t) PROVE OnceInv'
  BY <1>13 DEF PassOnce, OnceIsOver
<1>14. CASE Deliver
  BY <1>14 DEF Deliver, Reads, TakeOut
<1>15. CASE Send
  BY <1>15 DEF Send
<1>16. CASE ReadFails
  BY <1>16 DEF ReadFails, Reads
<1>17. CASE NetworkBreaks
  BY <1>17 DEF NetworkBreaks
<1>18. CASE SetOnClose
  BY <1>18 DEF SetOnClose
<1>19. CASE Cancel
  BY <1>19 DEF Cancel
<1>20. CASE CloseConn
  BY <1>20 DEF CloseConn
<1>21. CASE SwapPending
  BY <1>21 DEF SwapPending
<1>22. ASSUME NEW c \in Calls, CloseChannel(c) PROVE OnceInv'
  BY <1>22 DEF CloseChannel
<1>23. CASE FireOnClose
  BY <1>23 DEF FireOnClose
<1>24. CASE LeaveOnce
  BY <1>24 DEF LeaveOnce
<1> QED
  BY <1>1, <1>2, <1>3, <1>4, <1>5, <1>6, <1>7, <1>8, <1>9, <1>10, <1>11, <1>12,
     <1>13, <1>14, <1>15, <1>16, <1>17, <1>18, <1>19, <1>20, <1>21, <1>22,
     <1>23, <1>24
     DEF Next, WakeUp, WriteStep, OnceStep, LoopStep, ShutdownStep

\* No step decides an outcome twice, or on grounds that are not there.
LEMMA OutcomeNext == ASSUME Inv, Next PROVE OutcomeInv'
<1> USE ThreadsDistinct DEF Inv, TypeOK, ChannelInv, OnceInv, OutcomeInv, Writers, net, calling, closing
<1>1. ASSUME NEW c \in Calls, Register(c) PROVE OutcomeInv'
  BY <1>1 DEF Register
<1>2. ASSUME NEW c \in Calls, TakeAnswer(c) PROVE OutcomeInv'
  BY <1>2 DEF TakeAnswer, EndCall, YieldsAnswer
<1>3. ASSUME NEW c \in Calls, CallClosed(c) PROVE OutcomeInv'
  BY <1>3 DEF CallClosed, EndCall, Interrupted
<1>4. ASSUME NEW c \in Calls, CallTimesOut(c) PROVE OutcomeInv'
  BY <1>4 DEF CallTimesOut, EndCall
<1>5. ASSUME NEW c \in Calls, Leave(c) PROVE OutcomeInv'
  BY <1>5 DEF Leave, DropEntry
<1>6. ASSUME NEW c \in Calls, FarSideAnswers(c) PROVE OutcomeInv'
  BY <1>6 DEF FarSideAnswers
<1>7. ASSUME NEW r \in Replies, StartReply(r) PROVE OutcomeInv'
  BY <1>7 DEF StartReply
<1>8. ASSUME NEW w \in Writers, LockWrite(w) PROVE OutcomeInv'
  BY <1>8 DEF LockWrite
<1>9. ASSUME NEW w \in Writers, Written(w) PROVE OutcomeInv'
  BY <1>9 DEF Written
<1>10. ASSUME NEW w \in Writers, WriteFails(w) PROVE OutcomeInv'
  <2>1. CASE w \notin Calls BY <1>10, <2>1 DEF WriteFails
  <2>2. CASE w \in Calls
    <3>1. /\ at' = [at EXCEPT ![w] = "leave"] /\ at[w] = "writing"
          /\ outcome' = [outcome EXCEPT ![w] = "failed"]
          /\ sent' = sent
      BY <1>10, <2>2 DEF WriteFails
    <3>2. UNCHANGED <<box, held, wire, answers, once>> BY <1>10 DEF WriteFails
    <3> QED BY <2>2, <3>1, <3>2
  <2> QED BY <2>1, <2>2
<1>11. ASSUME NEW x \in Closers, Close(x) PROVE OutcomeInv'
  BY <1>11 DEF Close
<1>12. ASSUME NEW t \in Threads, EnterOnce(t) PROVE OutcomeInv'
  BY <1>12 DEF EnterOnce, OnceIsFree
<1>13. ASSUME NEW t \in Threads, PassOnce(t) PROVE OutcomeInv'
  BY <1>13 DEF PassOnce, OnceIsOver
<1>14. CASE Deliver
  BY <1>14 DEF Deliver, Reads, TakeOut
<1>15. CASE Send
  BY <1>15 DEF Send
<1>16. CASE ReadFails
  BY <1>16 DEF ReadFails, Reads
<1>17. CASE NetworkBreaks
  BY <1>17 DEF NetworkBreaks
<1>18. CASE SetOnClose
  BY <1>18 DEF SetOnClose
<1>19. CASE Cancel
  BY <1>19 DEF Cancel
<1>20. CASE CloseConn
  BY <1>20 DEF CloseConn
<1>21. CASE SwapPending
  BY <1>21 DEF SwapPending
<1>22. ASSUME NEW c \in Calls, CloseChannel(c) PROVE OutcomeInv'
  BY <1>22 DEF CloseChannel
<1>23. CASE FireOnClose
  BY <1>23 DEF FireOnClose
<1>24. CASE LeaveOnce
  BY <1>24 DEF LeaveOnce
<1> QED
  BY <1>1, <1>2, <1>3, <1>4, <1>5, <1>6, <1>7, <1>8, <1>9, <1>10, <1>11, <1>12,
     <1>13, <1>14, <1>15, <1>16, <1>17, <1>18, <1>19, <1>20, <1>21, <1>22,
     <1>23, <1>24
     DEF Next, WakeUp, WriteStep, OnceStep, LoopStep, ShutdownStep

\* Inv is inductive.
LEMMA InvInit == ASSUME Init PROVE Inv
<1>1. TypeOK
  <2>1. wire \in Seq(Calls) BY DEF Init
  <2>2. /\ box \in [Calls -> {"empty", "full", "closed"}]
        /\ at \in [Writers -> {"idle", "write", "writing", "wait", "leave", "done"}]
        /\ outcome \in [Calls -> {"none", "waiting", "result", "closed", "failed"}]
        /\ answers \in [Calls -> Nat]
        /\ thread \in [Threads -> {"idle", "shutdown", "returned"}]
    BY DEF Init
  <2>3. /\ conn = "open" /\ cancelled = FALSE /\ onClose = "unset"
        /\ pending = {} /\ drained = {} /\ sent = {}
        /\ writer = Nobody /\ held = Nobody
        /\ once = "free" /\ stage = "none"
    BY DEF Init
  <2>4. fired \in 0..1 BY DEF Init
  <2> QED BY <2>1, <2>2, <2>3, <2>4, Zenon DEF TypeOK
<1>2. ChannelInv BY DEF Init, ChannelInv
<1>3. OnceInv BY ThreadsDistinct DEF Init, OnceInv, Working, Threads
<1>4. OutcomeInv
  <2>1. DOMAIN wire = {} BY DEF Init
  <2>2. /\ \A c \in Calls : at[c] = "idle" /\ outcome[c] = "none" /\ box[c] = "empty"
    BY DEF Init, Writers
  <2>3. sent = {} /\ held \notin Calls BY ThreadsDistinct DEF Init, Writers
  <2> QED BY <2>1, <2>2, <2>3 DEF OutcomeInv
<1> QED BY <1>1, <1>2, <1>3, <1>4 DEF Inv

LEMMA InvNext == ASSUME Inv, [Next]_vars PROVE Inv'
<1>1. CASE Next
  BY <1>1, TypeOKNext, ChannelNext, OnceNext, OutcomeNext DEF Inv
<1>2. CASE UNCHANGED vars
  BY <1>2 DEF Inv, TypeOK, ChannelInv, OnceInv, OutcomeInv, vars, net, calling,
              closing
<1> QED BY <1>1, <1>2

\* However many calls, writers and closers there are and however often the far
\* side answers, Inv holds in every reachable state.
THEOREM Invariance == Spec => []Inv
<1>1. Init => Inv BY InvInit
<1>2. Inv /\ [Next]_vars => Inv' BY InvNext
<1> QED BY <1>1, <1>2, PTL DEF Spec

\* TypeOK holds, so the callback of OnClose runs at most once.
THEOREM TypesAreKept == Spec => []TypeOK
<1>1. Inv => TypeOK BY DEF Inv
<1> QED BY <1>1, Invariance, PTL

\* deliver's send never blocks or panics and shutdown closes no channel twice.
THEOREM ChannelsAreSafe == Spec => []ChannelsSafe
<1>1. Inv => ChannelsSafe BY DEF Inv, ChannelInv, ChannelsSafe
<1> QED BY <1>1, Invariance, PTL

\* pending holds the entries of calls in progress only.
THEOREM PendingIsExact == Spec => []PendingExact
<1>1. Inv => PendingExact BY DEF Inv, ChannelInv, PendingExact
<1> QED BY <1>1, Invariance, PTL

\* Whoever returns from Close finds the peer closed and the callback run.
THEOREM CloseIsFinal == Spec => []CloseMeansClosed
<1>1. Inv => CloseMeansClosed
  BY ThreadsDistinct DEF Inv, OnceInv, Working, CloseMeansClosed
<1> QED BY <1>1, Invariance, PTL

-----------------------------------------------------------------------------
(***************************************************************************)
(* Peer implements RequestReply: the first state and every step. That the  *)
(* waiting calls end is a matter of fairness and stays with the run.       *)
(***************************************************************************)
Seen == {c \in Calls : answers[c] > 0}
Down == once # "free"

LEMMA PromiseInit == ASSUME Init PROVE Promise!Init
BY ThreadsDistinct DEF Init, Promise!Init

\* The steps of the abstract specification, in Peer's variables.
LEMMA PromiseStep ==
  ASSUME \/ ~Down /\ Down' /\ UNCHANGED <<outcome, Seen>>
         \/ UNCHANGED <<outcome, Seen, Down>>
         \/ \E c \in Calls :
              \/ /\ outcome[c] = "none"
                 /\ outcome' = [outcome EXCEPT ![c] = "waiting"]
                 /\ UNCHANGED <<Seen, Down>>
              \/ /\ outcome[c] # "none" /\ c \notin Seen
                 /\ Seen' = Seen \cup {c} /\ UNCHANGED <<outcome, Down>>
              \/ \E how \in {"result", "closed", "failed"} :
                   /\ outcome[c] = "waiting"
                   /\ how = "result" => c \in Seen
                   /\ how = "closed" => Down
                   /\ outcome' = [outcome EXCEPT ![c] = how]
                   /\ UNCHANGED <<Seen, Down>>
  PROVE  [Promise!Next]_(Promise!promise)
BY DEF Promise!Next, Promise!promise, Promise!GoDown, Promise!Ask, Promise!Answer,
       Promise!Ends, Promise!End, Seen, Down

\* Every step of Peer is a step of RequestReply or none.
LEMMA PromiseNext == ASSUME Inv, [Next]_vars PROVE [Promise!Next]_(Promise!promise)
<1> USE DEF Seen, Down, net, calling, closing, vars
<1>1. ASSUME NEW c \in Calls, Register(c) PROVE [Promise!Next]_(Promise!promise)
  <2>1. outcome[c] = "none" BY <1>1 DEF Register, Inv, OutcomeInv
  <2>2. /\ outcome' = [outcome EXCEPT ![c] = "waiting"]
        /\ UNCHANGED <<Seen, Down>>
    BY <1>1 DEF Register
  <2> QED BY <2>1, <2>2, PromiseStep
<1>2. ASSUME NEW c \in Calls, NEW how \in {"result", "closed", "failed"},
             EndCall(c, how), UNCHANGED once,
             how = "result" => box[c] = "full",
             how = "closed" => box[c] = "closed" \/ cancelled
      PROVE  [Promise!Next]_(Promise!promise)
  <2>1. /\ outcome[c] = "waiting"
        /\ how = "result" => c \in Seen
        /\ how = "closed" => Down
    BY <1>2 DEF EndCall, Inv, OutcomeInv, OnceInv
  <2>2. outcome' = [outcome EXCEPT ![c] = how] /\ UNCHANGED <<Seen, Down>>
    BY <1>2 DEF EndCall
  <2> QED BY <2>1, <2>2, PromiseStep
<1>3. ASSUME NEW c \in Calls, WakeUp(c) \/ CallTimesOut(c)
      PROVE  [Promise!Next]_(Promise!promise)
  BY <1>2, <1>3 DEF WakeUp, TakeAnswer, YieldsAnswer, CallClosed, Interrupted,
                    CallTimesOut, EndCall
<1>4. ASSUME NEW c \in Calls, FarSideAnswers(c)
      PROVE  [Promise!Next]_(Promise!promise)
  <2>1. outcome[c] # "none" BY <1>4 DEF FarSideAnswers, Inv, OutcomeInv
  <2>2. Seen' = Seen \cup {c}
    BY <1>4 DEF FarSideAnswers, Inv, TypeOK
  <2>3. UNCHANGED <<outcome, Down>> BY <1>4 DEF FarSideAnswers
  <2>4. CASE c \in Seen BY <2>2, <2>3, <2>4, PromiseStep
  <2>5. CASE c \notin Seen BY <2>1, <2>2, <2>3, <2>5, PromiseStep
  <2> QED BY <2>4, <2>5
<1>5. ASSUME NEW w \in Writers, WriteFails(w)
      PROVE  [Promise!Next]_(Promise!promise)
  <2>1. UNCHANGED <<Seen, Down>> BY <1>5 DEF WriteFails
  <2>2. CASE w \in Calls
    <3>1. outcome[w] = "waiting" BY <1>5, <2>2 DEF WriteFails, Inv, OutcomeInv
    <3>2. outcome' = [outcome EXCEPT ![w] = "failed"] BY <1>5, <2>2 DEF WriteFails
    <3> QED BY <2>1, <2>2, <3>1, <3>2, PromiseStep
  <2>3. CASE w \notin Calls BY <1>5, <2>1, <2>3, PromiseStep DEF WriteFails
  <2> QED BY <2>2, <2>3
<1>6. ASSUME NEW t \in Threads, EnterOnce(t)
      PROVE  [Promise!Next]_(Promise!promise)
  <2>1. ~Down /\ Down' BY <1>6, ThreadsDistinct DEF EnterOnce, OnceIsFree
  <2>2. UNCHANGED <<outcome, Seen>> BY <1>6 DEF EnterOnce
  <2> QED BY <2>1, <2>2, PromiseStep
<1>7. CASE LeaveOnce
  <2>1. Down /\ Down'
    BY <1>7, ThreadsDistinct DEF LeaveOnce, Inv, OnceInv
  <2>2. UNCHANGED <<outcome, Seen>> BY <1>7 DEF LeaveOnce
  <2> QED BY <2>1, <2>2, PromiseStep
<1>8. ASSUME UNCHANGED <<outcome, answers, once>>
      PROVE  [Promise!Next]_(Promise!promise)
  BY <1>8, PromiseStep
<1>9. CASE Next
  BY <1>1, <1>3, <1>4, <1>5, <1>6, <1>7, <1>8, <1>9
     DEF Next, WriteStep, OnceStep, LoopStep, ShutdownStep, StartReply, Leave,
         LockWrite, Written, Close, PassOnce, Deliver, Send, ReadFails,
         NetworkBreaks, SetOnClose, Cancel, CloseConn, SwapPending, CloseChannel,
         FireOnClose
<1> QED BY <1>8, <1>9

\* Call keeps the safety part of RequestReply: a request is answered once, with
\* an answer that was given, and "closed" is only said of a closing connection.
THEOREM CallIsSound ==
  Spec => Promise!Init /\ [][Promise!Next]_(Promise!promise)
<1>1. Init => Promise!Init BY PromiseInit
<1>2. Inv /\ [Next]_vars => [Promise!Next]_(Promise!promise) BY PromiseNext
<1> QED BY <1>1, <1>2, Invariance, PTL DEF Spec
=============================================================================
