------------------------------ MODULE Errands ------------------------------
(***************************************************************************)
(* What the worker does for the page of one tab when its tools call it     *)
(* (packages/extension/src/background.ts: runExt; navigation.ts;           *)
(* observe.ts and extCall of inject.ts on the page's side): downloads, the *)
(* tabs an action opened, a file read by the daemon, navigation.           *)
(*                                                                         *)
(* The browser numbers downloads as they start.  One action of a call is   *)
(* the code between two awaits; the browser, the user and the daemon act   *)
(* in between.  A URL is the one the tab had or the one it goes to.  How   *)
(* the reply of a navigation travels is in TabWorker.                      *)
(***************************************************************************)
EXTENDS Naturals, Sequences, SequencesExt, FiniteSets

CONSTANTS
  Errs,             \* calls under way at a time
  MaxFiles, MaxRecords,
  Kids, MaxOpened,  \* tabs the page may open, and how many are remembered
  Budgets

ErrandBounds == MaxRecords \in Nat \ {0} /\ MaxOpened \in Nat \ {0}

Files == 1..MaxFiles
Over == {"complete", "interrupted"}

VARIABLES
  files,       \* the browser's downloads
  records,     \* downloadRecords, in the order of the map
  news,        \* download events on their way to the worker
  requery,     \* ids searched for again after an event
  opened,      \* openedByTab's list for the tab
  opening,     \* tabs that do not exist yet
  told,        \* per tab opened: how often the agent was told
  lastPlace,   \* lastReportedLocation
  errand,      \* per call
  rpcSeq,      \* bridgeRpcSeq
  reads,       \* requests the daemon has not answered
  surf,        \* the tab: status, url, doc; asked: a navigation is to begin; begun,
               \* docs: navigations and documents so far; fresh: one is to come
  left

downloadVars == <<files, records, news, requery>>
contextVars == <<opened, opening, told, lastPlace>>
errandVars == <<downloadVars, contextVars, errand, rpcSeq, reads, surf, left>>

Spend(what) == left[what] > 0 /\ left' = [left EXCEPT ![what] = @ - 1]
NoErrand == [at |-> "idle"]
PutErrand(c, r) == errand' = [errand EXCEPT ![c] = r]
\* The answer to the page; heard: its call still waits (not for a navigation,
\* whose answer the worker delivers itself).
Answer(heard, said) == [at |-> "answer", heard |-> heard, said |-> said]
Answered(c, said) == PutErrand(c, Answer(errand[c].heard, said))

-----------------------------------------------------------------------------
(***************************************************************************)
(* Downloads.                                                              *)
(***************************************************************************)
Started == {f \in Files : files[f] # "none"}
RecordIds == {r.id : r \in ToSet(records)}
\* The downloads whose events the listeners have had.
Heard == Started \ {e.id : e \in ToSet(news)}

\* recordDownload: a known id keeps its place in the map; the oldest entries
\* go beyond the cap.
RecordDownload(rs, id, state) ==
  LET new == [id |-> id, state |-> state]
      next == IF \E r \in ToSet(rs) : r.id = id
                THEN [i \in DOMAIN rs |-> IF rs[i].id = id THEN new ELSE rs[i]]
                ELSE Append(rs, new)
  IN  SubSeq(next, IF Len(next) > MaxRecords THEN Len(next) - MaxRecords + 1 ELSE 1, Len(next))

\* chrome.downloads.search for the newest ones, newest first, and what is done
\* with the result.
Newest == Reverse(SelectSeq([f \in Files |-> f],
            LAMBDA f : f \in Started /\ Cardinality({g \in Started : g > f}) < MaxRecords))
Seeded == FoldLeft(LAMBDA rs, f : RecordDownload(rs, f, files[f]), records, Newest)

FileStarts ==
  /\ Spend("files")
  /\ \E f \in Files \ Started :
       /\ \A g \in Files \ Started : f <= g
       /\ files' = [files EXCEPT ![f] = "in_progress"]
       /\ news' = Append(news, [id |-> f, state |-> "in_progress", created |-> TRUE])
  /\ UNCHANGED <<records, requery, contextVars, errand, rpcSeq, reads, surf>>

FileEnds(f) ==
  /\ files[f] = "in_progress"
  /\ \E s \in Over :
       /\ files' = [files EXCEPT ![f] = s]
       /\ news' = Append(news, [id |-> f, state |-> s, created |-> FALSE])
  /\ UNCHANGED <<records, requery, contextVars, errand, rpcSeq, reads, surf, left>>

\* The listeners: onCreated records, onChanged also searches again.
DownloadEvent ==
  /\ news # <<>>
  /\ news' = Tail(news)
  /\ records' = RecordDownload(records, Head(news).id, Head(news).state)
  /\ requery' = IF Head(news).created THEN requery ELSE requery \cup {Head(news).id}
  /\ UNCHANGED <<files, contextVars, errand, rpcSeq, reads, surf, left>>

Requeried(f) ==
  /\ requery' = requery \ {f}
  /\ records' = RecordDownload(records, f, files[f])
  /\ UNCHANGED <<files, news, contextVars, errand, rpcSeq, reads, surf, left>>

\* runDownloads: list; or wait, for new ones only or not, for any or one that
\* the filters let through.
Downloads(c) ==
  /\ errand[c] = NoErrand
  /\ \/ /\ Spend("lists")
        /\ PutErrand(c, [at |-> "list", heard |-> TRUE])
     \/ /\ Spend("waits")
        /\ \E onlyNew \in BOOLEAN, wanted \in {Files} \cup {{f} : f \in Files} :
             PutErrand(c, [at |-> "wait", heard |-> TRUE, onlyNew |-> onlyNew, wanted |-> wanted,
                           known |-> IF onlyNew THEN RecordIds ELSE {}, before |-> Heard])
  /\ UNCHANGED <<downloadVars, contextVars, rpcSeq, reads, surf>>

DownloadList(c) ==
  /\ errand[c].at = "list"
  /\ records' = Seeded
  /\ Answered(c, [what |-> "list"])
  /\ UNCHANGED <<files, news, requery, contextVars, rpcSeq, reads, surf, left>>

Matches(c, rs) ==
  {r.id : r \in {q \in ToSet(rs) : /\ q.id \notin errand[c].known
                                   /\ q.state = "complete"
                                   /\ q.id \in errand[c].wanted}}

\* A round of the wait: the newest match, or the timeout, or another round.
DownloadWait(c) ==
  /\ errand[c].at = "wait"
  /\ records' = Seeded
  /\ LET found == Matches(c, Seeded) IN
     IF found # {}
       THEN Answered(c, [what |-> "found", file |-> CHOOSE f \in found : \A g \in found : g <= f,
                         onlyNew |-> errand[c].onlyNew, before |-> errand[c].before])
       ELSE \/ Answered(c, [what |-> "error"])
            \/ UNCHANGED errand
  /\ UNCHANGED <<files, news, requery, contextVars, rpcSeq, reads, surf, left>>

-----------------------------------------------------------------------------
(***************************************************************************)
(* The tabs an action opened: tabContextFor, drained by the read.          *)
(***************************************************************************)
\* chrome.tabs.onCreated: the last few are kept.
KidOpens(k) ==
  /\ k \in opening /\ Spend("kids")
  /\ opening' = opening \ {k}
  /\ opened' = LET list == Append(opened, k)
               IN  SubSeq(list, IF Len(list) > MaxOpened THEN Len(list) - MaxOpened + 1 ELSE 1,
                          Len(list))
  /\ UNCHANGED <<downloadVars, told, lastPlace, errand, rpcSeq, reads, surf>>

\* The observation after an action asks; the tab is read ...
TabContext(c) ==
  /\ errand[c] = NoErrand /\ Spend("contexts")
  /\ PutErrand(c, [at |-> "self", heard |-> TRUE, place |-> surf.url])
  /\ UNCHANGED <<downloadVars, contextVars, rpcSeq, reads, surf>>

\* What the call goes on with once it has the list.
Taken(c) == [at |-> "kids", heard |-> errand[c].heard, place |-> errand[c].place,
             kids |-> opened]

\* mutant: the list is emptied only when the report is complete
DrainLater(c) ==
  /\ errand[c].at = "self"
  /\ PutErrand(c, Taken(c))
  /\ UNCHANGED <<downloadVars, contextVars, rpcSeq, reads, surf, left>>

\* ... the list is taken ...
Drain(c) ==
  /\ errand[c].at = "self"
  /\ opened' = <<>>
  /\ PutErrand(c, Taken(c))
  /\ UNCHANGED <<downloadVars, opening, told, lastPlace, rpcSeq, reads, surf, left>>

\* ... and the tabs in it are looked at.
LookAtKids(c) ==
  /\ errand[c].at = "kids"
  /\ Answered(c, [what |-> "context", kids |-> errand[c].kids, place |-> errand[c].place])
  /\ UNCHANGED <<downloadVars, contextVars, rpcSeq, reads, surf, left>>

-----------------------------------------------------------------------------
(***************************************************************************)
(* readBridgeFile: a request of the worker to the daemon, over a socket.   *)
(***************************************************************************)
CallBridge(c, socketOpen) ==
  /\ errand[c] = NoErrand /\ Spend("reads")
  /\ IF ~socketOpen
       THEN /\ PutErrand(c, Answer(TRUE, [what |-> "error"]))
            /\ UNCHANGED <<rpcSeq, reads>>
       ELSE /\ rpcSeq' = rpcSeq + 1 /\ reads' = reads \cup {rpcSeq + 1}
            /\ PutErrand(c, [at |-> "read", heard |-> TRUE, id |-> rpcSeq + 1])
  /\ UNCHANGED <<downloadVars, contextVars, surf>>

\* An answer to a call that is no longer pending goes on to the page, where
\* nobody knows its id.
SettleBridgeRpc(id) ==
  /\ reads' = reads \ {id}
  /\ errand' = [c \in Errs |-> IF errand[c].at = "read" /\ errand[c].id = id
                                 THEN Answer(errand[c].heard, [what |-> "file"])
                                 ELSE errand[c]]
  /\ UNCHANGED <<downloadVars, contextVars, rpcSeq, surf, left>>

BridgeRpcTimeout(c) ==
  /\ errand[c].at = "read"
  /\ Answered(c, [what |-> "error"])
  /\ UNCHANGED <<downloadVars, contextVars, rpcSeq, reads, surf, left>>

-----------------------------------------------------------------------------
(***************************************************************************)
(* Navigation: performNavigation, waitForNavigation.                       *)
(***************************************************************************)
Idle(s) == s.status = "complete" /\ ~s.asked

\* The URL the tab has; the request itself, which the browser may refuse, in
\* particular a history step (then the page's own history is tried).
Navigate(c) ==
  /\ errand[c] = NoErrand /\ Idle(surf) /\ Spend("steps")
  /\ \E kind \in {"navigate", "back", "reload"}, allowed \in BOOLEAN, scripted \in BOOLEAN :
       IF allowed \/ (kind = "back" /\ scripted)
         THEN /\ surf' = [surf EXCEPT !.asked = TRUE]
              /\ PutErrand(c, [at |-> "waiting", heard |-> TRUE, from |-> surf, seen |-> FALSE])
         ELSE /\ UNCHANGED surf
              /\ PutErrand(c, Answer(TRUE, [what |-> IF kind = "back" THEN "nothing"
                                                                     ELSE "error"]))
  /\ UNCHANGED <<downloadVars, contextVars, rpcSeq, reads>>

\* mutant: a tab that is complete has arrived, as chrome.tabs.update would have it
Complete(seen) == surf.status = "complete"

\* Completion counts once the navigation was seen to start.
Settled(seen) == seen /\ surf.status = "complete"

Unloaded(c) == surf.docs # errand[c].from.docs

SeenToStart(c) ==
  errand[c].seen \/ surf.status = "loading" \/ surf.url # errand[c].from.url \/ Unloaded(c)

\* describeNavigation: what the agent is told of it.
DescribeNavigation(navigated, timedOut, doc) ==
  CASE ~navigated -> "nothing"
    [] timedOut -> "loading"
    [] doc = "error" -> "failed"
    [] doc = "restricted" -> "restricted"
    [] OTHER -> "arrived"

\* A round of waitForNavigation; late: the grace is over, or the timeout.
Poll(c, late) ==
  /\ errand[c].at = "waiting"
  /\ LET seen == SeenToStart(c) IN
     IF Settled(seen)
       THEN PutErrand(c, [at |-> "probe", heard |-> errand[c].heard,
                          from |-> errand[c].from, tab |-> surf])
     ELSE IF late THEN Answered(c, [what |-> DescribeNavigation(seen, TRUE, "none"),
                                    from |-> errand[c].from, tab |-> surf])
     ELSE PutErrand(c, [errand[c] EXCEPT !.seen = seen])
  /\ UNCHANGED <<downloadVars, contextVars, rpcSeq, reads, surf, left>>

\* probeTabPage: what is there now, by a script that may run or not.
Probe(c) ==
  /\ errand[c].at = "probe"
  /\ Answered(c, [what |-> DescribeNavigation(TRUE, FALSE, surf.doc)])
  /\ UNCHANGED <<downloadVars, contextVars, rpcSeq, reads, surf, left>>

\* The browser: it begins what it was asked, loads or stays in the document,
\* gives up (a download, no content), gets another document or finishes.
Browse(next) == surf' = next
                /\ UNCHANGED <<downloadVars, opened, opening, told, errand, rpcSeq, reads, left>>

Begins ==
  /\ surf.asked
  /\ Browse([surf EXCEPT !.asked = FALSE, !.begun = @ + 1, !.status = "loading", !.fresh = TRUE])
  /\ UNCHANGED lastPlace

SameDocument(url) ==
  /\ surf.asked
  /\ Browse([surf EXCEPT !.asked = FALSE, !.begun = @ + 1, !.url = url])
  /\ UNCHANGED lastPlace

\* The page's scripts start over with the document.
Commits(doc, url) ==
  /\ surf.status = "loading" /\ surf.fresh
  /\ Browse([surf EXCEPT !.fresh = FALSE, !.docs = @ + 1, !.doc = doc, !.url = url])
  /\ lastPlace' = "none"

Finishes == surf.status = "loading" /\ Browse([surf EXCEPT !.status = "complete", !.fresh = FALSE])
            /\ UNCHANGED lastPlace

-----------------------------------------------------------------------------
(***************************************************************************)
(* The page's side, and the worker's end.                                  *)
(***************************************************************************)
\* extCall's timer: an answer that comes later is ignored.
PageTimesOut(c) ==
  /\ errand[c].at # "idle" /\ errand[c].heard /\ Spend("timeouts")
  /\ errand' = [errand EXCEPT ![c].heard = FALSE]
  /\ UNCHANGED <<downloadVars, contextVars, rpcSeq, reads, surf>>

\* The answer arrives; of a context, tabContextNote tells the agent.
Delivered(c) ==
  /\ errand[c].at = "answer"
  /\ PutErrand(c, NoErrand)
  /\ LET said == errand[c].said IN
     IF said.what = "context" /\ errand[c].heard
       THEN /\ told' = [k \in Kids |-> told[k] +
                          Cardinality({i \in DOMAIN said.kids : said.kids[i] = k})]
            /\ lastPlace' = said.place
       ELSE UNCHANGED <<told, lastPlace>>
  /\ UNCHANGED <<downloadVars, opened, opening, rpcSeq, reads, surf, left>>

\* The worker is recycled: what it had in memory is lost.
WorkerRests ==
  /\ Spend("rests")
  /\ records' = <<>> /\ requery' = {} /\ opened' = <<>>
  /\ errand' = [c \in Errs |-> NoErrand] /\ rpcSeq' = 0 /\ reads' = {}
  /\ UNCHANGED <<files, news, opening, told, lastPlace, surf>>

-----------------------------------------------------------------------------
Init ==
  /\ files = [f \in Files |-> "none"] /\ records = <<>> /\ news = <<>> /\ requery = {}
  /\ opened = <<>> /\ opening = Kids /\ told = [k \in Kids |-> 0] /\ lastPlace = "none"
  /\ errand = [c \in Errs |-> NoErrand] /\ rpcSeq = 0 /\ reads = {}
  /\ surf = [status |-> "complete", url |-> "old", doc |-> "page",
             asked |-> FALSE, begun |-> 0, docs |-> 0, fresh |-> FALSE]
  /\ left \in Budgets

Next ==
  \/ FileStarts \/ DownloadEvent \/ Begins \/ Finishes \/ WorkerRests
  \/ \E f \in Files : FileEnds(f)
  \/ \E f \in requery : Requeried(f)
  \/ \E k \in Kids : KidOpens(k)
  \/ \E id \in reads : SettleBridgeRpc(id)
  \/ \E url \in {"old", "new"} :
       SameDocument(url) \/ \E doc \in {"page", "error", "restricted"} : Commits(doc, url)
  \/ \E c \in Errs :
       \/ Downloads(c) \/ DownloadList(c) \/ DownloadWait(c)
       \/ TabContext(c) \/ Drain(c) \/ LookAtKids(c)
       \/ BridgeRpcTimeout(c) \/ \E socketOpen \in BOOLEAN : CallBridge(c, socketOpen)
       \/ Navigate(c) \/ Probe(c) \/ \E late \in BOOLEAN : Poll(c, late)
       \/ PageTimesOut(c) \/ Delivered(c)

Spec == Init /\ [][Next]_errandVars

-----------------------------------------------------------------------------
\* Types: the lists keep their caps, and a read that waits has its number.
TypeOK ==
  /\ files \in [Files -> {"none", "in_progress"} \cup Over]
  /\ Len(records) <= MaxRecords /\ RecordIds \subseteq Files
  /\ requery \subseteq Files /\ ToSet(opened) \subseteq Kids /\ Len(opened) <= MaxOpened
  /\ opening \subseteq Kids /\ told \in [Kids -> Nat] /\ lastPlace \in {"none", "old", "new"}
  /\ \A c \in Errs : errand[c].at \in {"idle", "list", "wait", "self", "kids", "read", "waiting",
                                       "probe", "answer"}
  /\ reads \subseteq 1..rpcSeq
  /\ surf.status \in {"complete", "loading"} /\ surf.url \in {"old", "new"}

Answers(what) == {c \in Errs : errand[c].at = "answer" /\ errand[c].said.what = what}

\* The tabs a call has taken from the list and is to tell of.
InHand(c) == CASE errand[c].at = "kids" -> ToSet(errand[c].kids)
               [] c \in Answers("context") -> ToSet(errand[c].said.kids)
               [] OTHER -> {}

\* The agent is told of each tab an action opened once at most, however many
\* observations are under way.
OpenedToldOnce ==
  \A k \in Kids :
    told[k] + Cardinality({i \in DOMAIN opened : opened[i] = k})
            + Cardinality({c \in Errs : k \in InHand(c)}) <= 1

\* A navigation is reported as arrived when it had begun and the tab had come to
\* rest, and as nothing only while the document it was to leave is still there.
NavigationReportsAreTrue ==
  \A c \in Errs :
    /\ errand[c].at = "probe" =>
         errand[c].tab.begun > errand[c].from.begun /\ errand[c].tab.status = "complete"
    /\ (c \in Answers("nothing") /\ "tab" \in DOMAIN errand[c].said) =>
         errand[c].said.tab.docs = errand[c].said.from.docs

\* builtins.ts, of wait_for_download: "by default it waits for any download that
\* started after this call": the answer is not a download that the worker had
\* heard of before it.
WaitsForNewDownloads ==
  \A c \in Answers("found") :
    errand[c].said.onlyNew => errand[c].said.file \notin errand[c].said.before

=============================================================================
