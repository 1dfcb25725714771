------------------------------ MODULE Automation ------------------------------
(***************************************************************************)
(* What the automation tools leave in a page                               *)
(* (packages/extension/src/automation-tools.ts): the capture of requests,  *)
(* which replaces fetch and XMLHttpRequest by hooks, and the overrides of  *)
(* dialogs; when they are offered and taken out (inject.ts).               *)
(*                                                                         *)
(* A function is the sequence of its layers over the browser's own one,    *)
(* the outermost first: the page's, which call the one they were put over, *)
(* and hooks, which call what the module remembers as the original.        *)
(* "net" stands for fetch and the three methods of XMLHttpRequest, which   *)
(* come and go together, "dialog" for alert, confirm and prompt.  The page *)
(* uses one XMLHttpRequest for all its requests, over and over: entries of *)
(* different ones have only the list in common.  A document lives from     *)
(* Init on.                                                                *)
(***************************************************************************)
EXTENDS Naturals, Sequences, SequencesExt

CONSTANTS MaxEntries, MaxFetches, Budgets

AutomationBounds == MaxEntries \in Nat \ {0} /\ MaxFetches \in Nat

Slots == {"net", "dialog"}
Fetches == 1..MaxFetches

VARIABLES
  window,       \* per slot, the function the page finds there
  originals,    \* per slot, what the hook calls, {} when it is not installed
  capturing,    \* networkCaptureActive
  dialogMode,
  netEntries,   \* networkEntries
  netSeq,
  underway,     \* recorded requests the browser has not ended
  xhrMeta,      \* the XMLHttpRequest's entry in xhrMeta: {} without, otherwise what
                \* meta.entry is, 0 before the first send
  xhr,          \* the XMLHttpRequest: its phase; the recorded request it has under
                \* way; finishing: the entries its listeners for loadend end
  spoiled,      \* entries of a send that threw, or whose object was used again
                \* before they had ended
  switches,     \* activated; wanted: automationToolsEnabled; offered: whether the
                \* embedded server was built with the tools, {} without a server
  held,         \* per slot, functions the page keeps
  astray,       \* slots in which the page put a hook back it had kept
  left

hookVars == <<window, originals, xhrMeta, capturing, dialogMode>>
xhrVars == <<xhr, spoiled>>
netVars == <<netEntries, netSeq, underway, xhrVars>>
pageVars == <<held, astray>>
automationVars == <<hookVars, netVars, switches, pageVars, left>>

Spend(what) == left[what] > 0 /\ left' = [left EXCEPT ![what] = @ - 1]

-----------------------------------------------------------------------------
(***************************************************************************)
(* Hooks.  h is what is installed, or what an operation has made of it.    *)
(***************************************************************************)
Hooks == [window |-> window, originals |-> originals, xhrMeta |-> xhrMeta]
BecomeHooks(h) == window' = h.window /\ originals' = h.originals /\ xhrMeta' = h.xhrMeta
Hooked(f) == "hook" \in ToSet(f)
Wrap(layer, f) == <<layer>> \o f

\* mutant: without a look at what is installed
InstallAgain(h, s) ==
  [window |-> [h.window EXCEPT ![s] = <<"hook">>],
   originals |-> [h.originals EXCEPT ![s] = {h.window[s]}], xhrMeta |-> h.xhrMeta]

\* installNetworkCapture, installDialogCapture.
Install(h, s) ==
  IF h.originals[s] # {} THEN h
  ELSE [window |-> [h.window EXCEPT ![s] = <<"hook">>],
        originals |-> [h.originals EXCEPT ![s] = {h.window[s]}], xhrMeta |-> h.xhrMeta]

\* uninstallNetworkCapture, restoreDialogCapture: what was there comes back, and
\* what the page put over the hook in between is lost; xhrMeta is a new map.
Uninstall(h, s) ==
  IF h.originals[s] = {} THEN h
  ELSE [window |-> [h.window EXCEPT ![s] = CHOOSE f \in h.originals[s] : TRUE],
        originals |-> [h.originals EXCEPT ![s] = {}],
        xhrMeta |-> IF s = "net" THEN {} ELSE h.xhrMeta]

\* What a call of a function comes to.
Through(s, f) ==
  IF ~Hooked(f) THEN "browser"
  ELSE IF originals[s] = {} THEN "fails"
  ELSE IF \E o \in originals[s] : Hooked(o) THEN "loops"
  ELSE "hook"

-----------------------------------------------------------------------------
(***************************************************************************)
(* Tools, while the agent can call them.                                   *)
(***************************************************************************)
Callable == switches.activated /\ TRUE \in switches.offered

StartNetworkCapture(clear) ==
  /\ Callable /\ Spend("autoCalls")
  /\ netEntries' = IF clear THEN <<>> ELSE netEntries
  /\ BecomeHooks(Install(Hooks, "net")) /\ capturing' = TRUE
  /\ UNCHANGED <<dialogMode, netSeq, underway, xhrVars, switches, pageVars>>

StopNetworkCapture ==
  /\ Callable /\ Spend("autoCalls")
  /\ BecomeHooks(Uninstall(Hooks, "net")) /\ capturing' = FALSE
  /\ UNCHANGED <<dialogMode, netVars, switches, pageVars>>

ClearNetworkCapture ==
  /\ Callable /\ Spend("autoCalls")
  /\ netEntries' = <<>>
  /\ UNCHANGED <<hookVars, netSeq, underway, xhrVars, switches, pageVars>>

SetDialogBehavior(mode) ==
  /\ Callable /\ Spend("autoCalls")
  /\ BecomeHooks(IF mode = "native" THEN Uninstall(Hooks, "dialog")
                                    ELSE Install(Hooks, "dialog"))
  /\ dialogMode' = mode
  /\ UNCHANGED <<capturing, netVars, switches, pageVars>>

-----------------------------------------------------------------------------
(***************************************************************************)
(* Control messages of the worker.                                         *)
(***************************************************************************)
TeardownAutomationTools ==
  /\ BecomeHooks(Uninstall(Uninstall(Hooks, "net"), "dialog"))
  /\ capturing' = FALSE
  /\ dialogMode' = IF originals["dialog"] = {} THEN dialogMode ELSE "native"

\* activate, with the toolsets the user wants; others: another of them changed.
\* An active page gets a new server, one that was inactive keeps what it has.
Activate(want, others) ==
  /\ Spend("controls")
  /\ IF switches.wanted /\ ~want THEN TeardownAutomationTools ELSE UNCHANGED hookVars
  /\ LET changed == others \/ switches.wanted # want IN
     switches' = [activated |-> TRUE, wanted |-> want,
                  offered |-> CASE switches.activated /\ changed -> {}
                                [] switches.offered = {} -> {want}
                                [] OTHER -> switches.offered]
  /\ UNCHANGED <<netVars, pageVars>>

\* The mirror's next sync builds the server that was retired.
Rebuilt ==
  /\ switches.activated /\ switches.offered = {}
  /\ switches' = [switches EXCEPT !.offered = {switches.wanted}]
  /\ UNCHANGED <<hookVars, netVars, pageVars, left>>

DeactivateAll ==
  /\ Spend("controls")
  /\ TeardownAutomationTools
  /\ switches' = [switches EXCEPT !.activated = FALSE]
  /\ UNCHANGED <<netVars, pageVars>>

-----------------------------------------------------------------------------
(***************************************************************************)
(* The page: it puts a function of its own over what it finds, keeps what  *)
(* it finds, puts back what it kept, and fetches.                          *)
(***************************************************************************)
PageWraps(s) ==
  /\ Spend("wraps")
  /\ window' = [window EXCEPT ![s] = Wrap("page", @)]
  /\ held' = [held EXCEPT ![s] = @ \cup {window[s]}]
  /\ UNCHANGED <<originals, xhrMeta, capturing, dialogMode, netVars, switches, astray>>

PagePutsBack(s, f) ==
  /\ f \in held[s] /\ f # window[s]
  /\ window' = [window EXCEPT ![s] = f]
  /\ held' = [held EXCEPT ![s] = @ \ {f}]
  /\ astray' = IF Hooked(f) THEN astray \cup {s} ELSE astray
  /\ UNCHANGED <<originals, xhrMeta, capturing, dialogMode, netVars, switches, left>>

\* pushNetworkEntry: the oldest ones go beyond the cap.
Push(es, e) ==
  LET all == Append(es, e)
  IN  SubSeq(all, IF Len(all) > MaxEntries THEN Len(all) - MaxEntries + 1 ELSE 1, Len(all))

\* A new entry.
Record ==
  /\ netSeq < MaxFetches /\ netSeq' = netSeq + 1
  /\ netEntries' = Push(netEntries, [id |-> netSeq + 1, ended |-> FALSE])

\* fetch is recorded on its way through the hook, which waits for it.
PageFetches ==
  /\ Through("net", window["net"]) = "hook" /\ capturing
  /\ Record
  /\ underway' = underway \cup {netSeq + 1}
  /\ UNCHANGED <<hookVars, xhrVars, switches, pageVars, left>>

\* mutant: only what is recorded as long as the capture goes on
EndedIfCapturing(es, ids) ==
  [i \in DOMAIN es |-> IF es[i].id \in ids /\ capturing THEN [es[i] EXCEPT !.ended = TRUE]
                       ELSE es[i]]

\* Ends are entered wherever the entries are, whether or not anybody captures.
Ended(es, ids) ==
  [i \in DOMAIN es |-> IF es[i].id \in ids THEN [es[i] EXCEPT !.ended = TRUE] ELSE es[i]]

FetchEnds(id) ==
  /\ id \in underway \ xhr.own
  /\ underway' = underway \ {id}
  /\ netEntries' = Ended(netEntries, {id})
  /\ UNCHANGED <<hookVars, netSeq, xhrVars, switches, pageVars, left>>

\* open: the hook files the object anew. Unless the browser refuses, what the object
\* had under way is dropped, and no event tells of it.
XhrOpens(refused) ==
  /\ Through("net", window["net"]) \in {"hook", "browser"}
  /\ xhrMeta' = IF Through("net", window["net"]) = "hook" THEN {0} ELSE xhrMeta
  /\ IF refused THEN UNCHANGED <<underway, xhrVars>>
     ELSE /\ xhr' = [xhr EXCEPT !.phase = "opened", !.own = {}]
          /\ underway' = underway \ xhr.own
          /\ spoiled' = spoiled \cup xhr.own
  /\ UNCHANGED <<window, originals, capturing, dialogMode, netEntries, netSeq, switches,
                 pageVars, left>>

Recorded == Through("net", window["net"]) = "hook" /\ capturing /\ xhrMeta # {}

\* What the browser's own send does with the object, and with the entry it has, if any:
\* it throws on one that is not open, and when a synchronous request fails.
SendXhr(fails, filed) ==
  /\ xhr' = IF xhr.phase # "opened" THEN [xhr EXCEPT !.finishing = filed.finishing]
            ELSE [phase |-> IF fails THEN "unsent" ELSE "sent",
                  own |-> IF fails THEN {} ELSE filed.entry, finishing |-> filed.finishing]
  /\ underway' = underway \cup xhr'.own
  /\ spoiled' = spoiled \cup filed.replaced \cup (filed.entry \ xhr'.own)

\* send of an object that is not filed, or while nobody captures.
XhrSendsUnseen(fails) ==
  /\ Through("net", window["net"]) \in {"hook", "browser"} /\ ~Recorded
  /\ SendXhr(fails, [entry |-> {}, replaced |-> {}, finishing |-> xhr.finishing])
  /\ UNCHANGED <<hookVars, netEntries, netSeq, switches, pageVars, left>>

\* send: the entry is there, and listeners for its end, before the browser's send is
\* called. Listeners of an earlier send after the same open end the new entry.
XhrSends(fails) ==
  /\ Recorded /\ Record
  /\ xhrMeta' = {netSeq + 1}
  /\ SendXhr(fails, [entry |-> {netSeq + 1}, replaced |-> xhrMeta \ {0},
                     finishing |-> (xhr.finishing \ xhrMeta) \cup {netSeq + 1}])
  /\ UNCHANGED <<window, originals, capturing, dialogMode, switches, pageVars, left>>

\* loadend, after load, error, timeout or abort: every listener ends its entry, those
\* left from earlier requests included.
XhrEnds ==
  /\ xhr.phase = "sent"
  /\ netEntries' = Ended(netEntries, xhr.finishing)
  /\ underway' = underway \ xhr.own
  /\ xhr' = [phase |-> "unsent", own |-> {}, finishing |-> {}]
  /\ UNCHANGED <<hookVars, netSeq, spoiled, switches, pageVars, left>>

-----------------------------------------------------------------------------
Init ==
  /\ window = [s \in Slots |-> <<>>] /\ originals = [s \in Slots |-> {}]
  /\ capturing = FALSE /\ dialogMode = "native"
  /\ netEntries = <<>> /\ netSeq = 0 /\ underway = {} /\ spoiled = {}
  /\ xhrMeta = {} /\ xhr = [phase |-> "unsent", own |-> {}, finishing |-> {}]
  /\ switches = [activated |-> FALSE, wanted |-> FALSE, offered |-> {}]
  /\ held = [s \in Slots |-> {}] /\ astray = {}
  /\ left \in Budgets

Next ==
  \/ \E b \in BOOLEAN : StartNetworkCapture(b) \/ \E others \in BOOLEAN : Activate(b, others)
  \/ StopNetworkCapture \/ ClearNetworkCapture \/ Rebuilt \/ DeactivateAll \/ PageFetches
  \/ \E mode \in {"native", "accept", "dismiss"} : SetDialogBehavior(mode)
  \/ \E s \in Slots : PageWraps(s) \/ \E f \in held[s] : PagePutsBack(s, f)
  \/ \E id \in Fetches : FetchEnds(id)
  \/ \E b \in BOOLEAN : XhrOpens(b) \/ XhrSends(b) \/ XhrSendsUnseen(b)
  \/ XhrEnds

Spec == Init /\ [][Next]_automationVars

-----------------------------------------------------------------------------
\* Types; an override of dialogs is installed exactly while it has a mode.
TypeOK ==
  /\ \A s \in Slots : /\ window[s] \in Seq({"page", "hook"})
                      /\ originals[s] \subseteq Seq({"page", "hook"})
  /\ capturing \in BOOLEAN /\ Len(netEntries) <= MaxEntries
  /\ dialogMode = "native" <=> originals["dialog"] = {}
  /\ underway \cup xhr.own \cup xhr.finishing \cup spoiled \subseteq 1..netSeq
  /\ xhrMeta \subseteq 0..netSeq /\ xhr.phase \in {"unsent", "opened", "sent"}
  /\ astray \subseteq Slots

\* What the page finds in its window works: it ends at the browser, through a hook
\* at most once, and through none when nothing is installed; and an inactive page
\* has nothing installed. All this in whatever order tools, switches and the page
\* come, as long as the page puts no hook back that it had kept.
HooksComeOff ==
  /\ ~switches.activated => \A s \in Slots : originals[s] = {}
  /\ \A s \in Slots \ astray : Through(s, window[s]) \in {"browser", "hook"}

\* An entry that the agent sees as under way is of a request that is, also when the
\* capture was stopped, cleared, or torn down and started again meanwhile; and one that
\* it sees as ended is of none that is. The first does not hold of an XMLHttpRequest
\* whose send throws, or that is sent or opened again while it is on its way.
RecordsAreWhole ==
  \A e \in ToSet(netEntries) :
    IF e.ended THEN e.id \notin underway ELSE e.id \in underway \cup spoiled
=============================================================================
