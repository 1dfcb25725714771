--------------------------- MODULE PageSideProofs ---------------------------
(***************************************************************************)
(* Proofs about the components of the extension that live in a page, or    *)
(* are attached to one: hooks of the automation tools, uids of snapshots,  *)
(* picks and patches of the design tools, the tools that a page registers  *)
(* itself, and the sessions of the debugger.                               *)
(***************************************************************************)
EXTENDS Extension, SequenceTheorems, FiniteSetTheorems, TLAPS

Layers == Seq({"page", "hook"})
Hook == <<"hook">>

\* Windows, what hooks remember and what the page keeps are functions by layers.
HooksTyped ==
  /\ window \in [Cap!Slots -> Layers]
  /\ originals \in [Cap!Slots -> SUBSET Layers]
  /\ held \in [Cap!Slots -> SUBSET Layers]
  /\ astray \subseteq Cap!Slots
  /\ switches \in [activated : BOOLEAN, wanted : BOOLEAN, offered : SUBSET BOOLEAN]

\* Where the page put no hook back: without an installed hook there is none in what
\* the page finds, and what the installed one calls is free of hooks.
HooksClean ==
  \A s \in Cap!Slots \ astray :
    /\ originals[s] = {} => ~Cap!Hooked(window[s])
    /\ \A o \in originals[s] : ~Cap!Hooked(o)

InactiveIsBare == ~switches.activated => \A s \in Cap!Slots : originals[s] = {}

\* NetEntries are numbered in the order in which they were recorded; no request under way
\* and no listener is of an entry to come.
RecordsTyped ==
  /\ netEntries \in Seq([id : Nat, ended : BOOLEAN]) /\ netSeq \in Nat
  /\ xhr = [phase |-> xhr.phase, own |-> xhr.own, finishing |-> xhr.finishing]
  /\ \A i \in DOMAIN netEntries : netEntries[i].id <= netSeq
  /\ \A id \in underway \cup xhr.own \cup xhr.finishing \cup xhrMeta : id \in Nat /\ id <= netSeq
  /\ 0 \notin underway

\* What an entry says is so.
RecordsOpen ==
  \A i \in DOMAIN netEntries :
    IF netEntries[i].ended THEN netEntries[i].id \notin underway
    ELSE netEntries[i].id \in underway \cup spoiled

\* The XMLHttpRequest: its recorded request is under way only while it is sent, it has a
\* listener that ends its entry unless it is spoiled, and no listener ends an entry of
\* another request under way.
XhrFollowed ==
  /\ xhr.own # {} => xhr.phase = "sent"
  /\ xhr.own \subseteq underway
  /\ xhr.own \subseteq xhr.finishing \cup spoiled
  /\ xhr.finishing \cap underway \subseteq xhr.own

HookInv == HooksTyped /\ HooksClean /\ InactiveIsBare
RecordInv == RecordsTyped /\ RecordsOpen /\ XhrFollowed

\* A hook is a hook, the browser's own function is none, and a layer of the page
\* over a function changes nothing about it.
LEMMA LayersOfHooks ==
  /\ Hook \in Layers /\ Cap!Hooked(Hook)
  /\ <<>> \in Layers /\ ~Cap!Hooked(<<>>)
  /\ \A f \in Layers : /\ Cap!Wrap("page", f) \in Layers
                       /\ Cap!Hooked(Cap!Wrap("page", f)) <=> Cap!Hooked(f)
<1>1. Hook \in Layers /\ Cap!Hooked(Hook)
  <2>1. Hook \in Layers BY DEF Hook, Layers
  <2>2. Cap!Hooked(Hook)
    <3>1. 1 \in DOMAIN Hook /\ Hook[1] = "hook" BY DEF Hook
    <3> QED BY <3>1 DEF Cap!Hooked, Cap!ToSet
  <2> QED BY <2>1, <2>2
<1>2. <<>> \in Layers /\ ~Cap!Hooked(<<>>) BY DEF Layers, Cap!Hooked, Cap!ToSet
<1>3. ASSUME NEW f \in Layers
      PROVE /\ Cap!Wrap("page", f) \in Layers
            /\ Cap!Hooked(Cap!Wrap("page", f)) <=> Cap!Hooked(f)
  <2> DEFINE g == <<"page">> \o f
  <2>1. /\ g \in Layers /\ Len(g) = Len(f) + 1 /\ g[1] = "page"
        /\ \A i \in 1..Len(f) : g[i + 1] = f[i]
    BY DEF Layers
  <2>2. DOMAIN g = 1..(Len(f) + 1) /\ DOMAIN f = 1..Len(f) /\ Len(f) \in Nat BY <2>1 DEF Layers
  <2> HIDE DEF g
  <2>3. ASSUME Cap!Hooked(f) PROVE Cap!Hooked(g)
    <3>1. PICK i \in 1..Len(f) : f[i] = "hook" BY <2>3, <2>2 DEF Cap!Hooked, Cap!ToSet
    <3>2. i + 1 \in DOMAIN g /\ g[i + 1] = "hook" BY <3>1, <2>1, <2>2
    <3> QED BY <3>2 DEF Cap!Hooked, Cap!ToSet
  <2>4. ASSUME Cap!Hooked(g) PROVE Cap!Hooked(f)
    <3>1. PICK i \in 1..(Len(f) + 1) : g[i] = "hook" BY <2>4, <2>2 DEF Cap!Hooked, Cap!ToSet
    <3>2. i # 1 BY <3>1, <2>1
    <3>3. i - 1 \in 1..Len(f) /\ g[(i - 1) + 1] = g[i] BY <3>2, <2>2
    <3>4. f[i - 1] = "hook" BY <3>3, <3>1, <2>1
    <3> QED BY <3>4, <3>3, <2>2 DEF Cap!Hooked, Cap!ToSet
  <2>5. Cap!Wrap("page", f) = g BY DEF Cap!Wrap, g
  <2> QED BY <2>1, <2>3, <2>4, <2>5
<1> QED BY <1>1, <1>2, <1>3

\* A pair of windows and originals that is as HooksTyped and HooksClean want it.
Clean(h, strays) ==
  /\ h.window \in [Cap!Slots -> Layers] /\ h.originals \in [Cap!Slots -> SUBSET Layers]
  /\ \A s \in Cap!Slots \ strays :
       /\ h.originals[s] = {} => ~Cap!Hooked(h.window[s])
       /\ \A o \in h.originals[s] : ~Cap!Hooked(o)

\* Putting hooks in keeps the hooks clean.
LEMMA InstallIsClean ==
  ASSUME NEW h, NEW strays, NEW s \in Cap!Slots, Clean(h, strays)
  PROVE Clean(Cap!Install(h, s), strays)
<1>1. CASE h.originals[s] # {} BY <1>1 DEF Cap!Install
<1>2. CASE h.originals[s] = {}
  <2> DEFINE w == [h.window EXCEPT ![s] = Hook]
             o == [h.originals EXCEPT ![s] = {h.window[s]}]
             g == [window |-> w, originals |-> o, xhrMeta |-> h.xhrMeta]
  <2>1. Cap!Install(h, s) = g BY <1>2 DEF Cap!Install, Hook
  <2>2. w \in [Cap!Slots -> Layers] /\ o \in [Cap!Slots -> SUBSET Layers]
    BY LayersOfHooks DEF Clean
  <2>3. \A r \in Cap!Slots : r # s => w[r] = h.window[r] /\ o[r] = h.originals[r] BY DEF Clean
  <2>4. o[s] = {h.window[s]} BY DEF Clean
  <2>5. g.window = w /\ g.originals = o OBVIOUS
  <2> HIDE DEF w, o, g
  <2>6. ASSUME NEW r \in Cap!Slots \ strays
        PROVE /\ o[r] = {} => ~Cap!Hooked(w[r])
              /\ \A f \in o[r] : ~Cap!Hooked(f)
    <3>1. CASE r = s BY <3>1, <2>4, <2>6, <1>2 DEF Clean
    <3>2. CASE r # s BY <3>2, <2>3, <2>6 DEF Clean
    <3> QED BY <3>1, <3>2
  <2>7. Clean(g, strays) BY <2>2, <2>5, <2>6 DEF Clean
  <2> QED BY <2>1, <2>7
<1> QED BY <1>1, <1>2

\* Taking hooks out keeps the others clean, and leaves nothing installed in the slot.
LEMMA UninstallIsClean ==
  ASSUME NEW h, NEW strays, NEW s \in Cap!Slots, Clean(h, strays)
  PROVE /\ Clean(Cap!Uninstall(h, s), strays)
        /\ Cap!Uninstall(h, s).originals[s] = {}
        /\ \A r \in Cap!Slots :
             h.originals[r] = {} => Cap!Uninstall(h, s).originals[r] = {}
<1>1. CASE h.originals[s] = {} BY <1>1 DEF Cap!Uninstall
<1>2. CASE h.originals[s] # {}
  <2>0. PICK f \in h.originals[s] : f = CHOOSE x \in h.originals[s] : TRUE BY <1>2
  <2> DEFINE w == [h.window EXCEPT ![s] = f]
             o == [h.originals EXCEPT ![s] = {}]
             g == [window |-> w, originals |-> o,
                   xhrMeta |-> IF s = "net" THEN {} ELSE h.xhrMeta]
  <2>1. Cap!Uninstall(h, s) = g BY <1>2, <2>0 DEF Cap!Uninstall
  <2>2. w \in [Cap!Slots -> Layers] /\ o \in [Cap!Slots -> SUBSET Layers]
    BY <2>0 DEF Clean
  <2>3. \A r \in Cap!Slots : r # s => w[r] = h.window[r] /\ o[r] = h.originals[r] BY DEF Clean
  <2>4. o[s] = {} /\ w[s] = f BY DEF Clean
  <2>5. g.window = w /\ g.originals = o OBVIOUS
  <2> HIDE DEF w, o, g
  <2>6. ASSUME NEW r \in Cap!Slots \ strays
        PROVE /\ o[r] = {} => ~Cap!Hooked(w[r])
              /\ \A x \in o[r] : ~Cap!Hooked(x)
    <3>1. CASE r = s BY <3>1, <2>4, <2>6, <2>0 DEF Clean
    <3>2. CASE r # s BY <3>2, <2>3, <2>6 DEF Clean
    <3> QED BY <3>1, <3>2
  <2>7. Clean(g, strays) BY <2>2, <2>5, <2>6 DEF Clean
  <2>8. \A r \in Cap!Slots : h.originals[r] = {} => g.originals[r] = {} BY <2>3, <2>4, <2>5
  <2> QED BY <2>1, <2>7, <2>8, <2>4, <2>5
<1> QED BY <1>1, <1>2

\* Steps of the hooks that leave them clean keep the invariant, if an inactive page
\* gets nothing installed and astray, held and the switches stay as they should.
LEMMA CleanHooks ==
  ASSUME HookInv, NEW h, Clean(h, astray), Cap!BecomeHooks(h),
         UNCHANGED <<held, astray>>, switches' \in
           [activated : BOOLEAN, wanted : BOOLEAN, offered : SUBSET BOOLEAN],
         ~switches'.activated => \A s \in Cap!Slots : h.originals[s] = {}
  PROVE HookInv'
BY DEF HookInv, HooksTyped, HooksClean, InactiveIsBare, Clean, Cap!BecomeHooks

\* The tools of the agent keep the hooks clean: they come while the page is active.
LEMMA ToolsKeepHooks ==
  ASSUME HookInv,
         \/ \E b \in BOOLEAN : Cap!StartNetworkCapture(b)
         \/ Cap!StopNetworkCapture \/ Cap!ClearNetworkCapture
         \/ \E m \in {"native", "accept", "dismiss"} : Cap!SetDialogBehavior(m)
  PROVE HookInv'
<1> "net" \in Cap!Slots /\ "dialog" \in Cap!Slots BY DEF Cap!Slots
<1> DEFINE h == Cap!Hooks
<1>1. Clean(h, astray)
  BY DEF Clean, Cap!Hooks, HookInv, HooksTyped, HooksClean
<1> HIDE DEF h
<1>2. \A s \in Cap!Slots :
        Clean(Cap!Install(h, s), astray) /\ Clean(Cap!Uninstall(h, s), astray)
  BY <1>1, InstallIsClean, UninstallIsClean
<1>3. ASSUME Cap!Callable, switches' = switches, UNCHANGED <<held, astray>>,
             NEW g, Clean(g, astray), Cap!BecomeHooks(g)
      PROVE HookInv'
  <2>1. switches'.activated BY <1>3 DEF Cap!Callable
  <2>2. switches' \in [activated : BOOLEAN, wanted : BOOLEAN, offered : SUBSET BOOLEAN]
    BY <1>3 DEF HookInv, HooksTyped
  <2> QED BY <2>1, <2>2, <1>3, CleanHooks
<1>4. ASSUME NEW b \in BOOLEAN, Cap!StartNetworkCapture(b) PROVE HookInv'
  <2>1. /\ Cap!Callable /\ switches' = switches /\ UNCHANGED <<held, astray>>
        /\ Cap!BecomeHooks(Cap!Install(h, "net"))
    BY <1>4 DEF Cap!StartNetworkCapture, Cap!pageVars, h
  <2> QED BY <2>1, <1>2, <1>3
<1>5. ASSUME Cap!StopNetworkCapture PROVE HookInv'
  <2>1. /\ Cap!Callable /\ switches' = switches /\ UNCHANGED <<held, astray>>
        /\ Cap!BecomeHooks(Cap!Uninstall(h, "net"))
    BY <1>5 DEF Cap!StopNetworkCapture, Cap!pageVars, h
  <2> QED BY <2>1, <1>2, <1>3
<1>6. ASSUME Cap!ClearNetworkCapture PROVE HookInv'
  BY <1>6 DEF Cap!ClearNetworkCapture, Cap!hookVars, Cap!pageVars,
              HookInv, HooksTyped, HooksClean, InactiveIsBare
<1>7. ASSUME NEW m \in {"native", "accept", "dismiss"}, Cap!SetDialogBehavior(m)
      PROVE HookInv'
  <2>1. /\ Cap!Callable /\ switches' = switches /\ UNCHANGED <<held, astray>>
        /\ \/ Cap!BecomeHooks(Cap!Install(h, "dialog"))
           \/ Cap!BecomeHooks(Cap!Uninstall(h, "dialog"))
    BY <1>7 DEF Cap!SetDialogBehavior, Cap!pageVars, h
  <2> QED BY <2>1, <1>2, <1>3
<1> QED BY <1>4, <1>5, <1>6, <1>7

\* So do the messages of the worker: deactivate takes out what is installed.
LEMMA ControlsKeepHooks ==
  ASSUME HookInv,
         \/ \E want, others \in BOOLEAN : Cap!Activate(want, others)
         \/ Cap!Rebuilt \/ Cap!DeactivateAll
  PROVE HookInv'
<1> "net" \in Cap!Slots /\ "dialog" \in Cap!Slots /\ Cap!Slots = {"net", "dialog"}
  BY DEF Cap!Slots
<1> DEFINE h == Cap!Hooks
           g == Cap!Uninstall(Cap!Uninstall(h, "net"), "dialog")
<1>1. Clean(h, astray)
  BY DEF Clean, Cap!Hooks, HookInv, HooksTyped, HooksClean
<1> HIDE DEF h
<1>2. Clean(g, astray) /\ \A s \in Cap!Slots : g.originals[s] = {}
  <2> DEFINE k == Cap!Uninstall(h, "net")
  <2>1. Clean(k, astray) /\ k.originals["net"] = {} BY <1>1, UninstallIsClean
  <2> HIDE DEF k
  <2>2. /\ Clean(Cap!Uninstall(k, "dialog"), astray)
        /\ Cap!Uninstall(k, "dialog").originals["dialog"] = {}
        /\ Cap!Uninstall(k, "dialog").originals["net"] = {}
    BY <2>1, UninstallIsClean
  <2> QED BY <2>2 DEF k
<1> HIDE DEF g
<1> DEFINE Good(w) == w \in [activated : BOOLEAN, wanted : BOOLEAN, offered : SUBSET BOOLEAN]
<1>3. ASSUME NEW want \in BOOLEAN, NEW others \in BOOLEAN, Cap!Activate(want, others)
      PROVE HookInv'
  <2>1. /\ Cap!BecomeHooks(g) \/ UNCHANGED <<window, originals>>
        /\ UNCHANGED <<held, astray>>
    BY <1>3 DEF Cap!Activate, Cap!TeardownAutomationTools, Cap!hookVars, Cap!pageVars, g, h
  <2> DEFINE changed == others \/ switches.wanted # want
             offer == CASE switches.activated /\ changed -> {}
                        [] switches.offered = {} -> {want}
                        [] OTHER -> switches.offered
  <2>2. switches' = [activated |-> TRUE, wanted |-> want, offered |-> offer]
    BY <1>3 DEF Cap!Activate
  <2>3. offer \in SUBSET BOOLEAN BY DEF HookInv, HooksTyped
  <2> HIDE DEF offer
  <2>4. Good(switches') /\ switches'.activated BY <2>2, <2>3
  <2>5. CASE Cap!BecomeHooks(g) BY <2>1, <2>4, <2>5, <1>2, CleanHooks
  <2>6. CASE UNCHANGED <<window, originals>>
    BY <2>1, <2>4, <2>6 DEF HookInv, HooksTyped, HooksClean, InactiveIsBare
  <2> QED BY <2>1, <2>5, <2>6
<1>4. ASSUME Cap!Rebuilt PROVE HookInv'
  <2>1. /\ UNCHANGED <<window, originals, held, astray>> /\ switches.activated
        /\ switches' = [switches EXCEPT !.offered = {switches.wanted}]
    BY <1>4 DEF Cap!Rebuilt, Cap!hookVars, Cap!pageVars
  <2>2. switches \in [activated : BOOLEAN, wanted : BOOLEAN, offered : SUBSET BOOLEAN]
    BY DEF HookInv, HooksTyped
  <2>3. Good(switches') /\ switches'.activated BY <2>1, <2>2
  <2> QED BY <2>1, <2>3 DEF HookInv, HooksTyped, HooksClean, InactiveIsBare
<1>5. ASSUME Cap!DeactivateAll PROVE HookInv'
  <2>1. /\ Cap!BecomeHooks(g) /\ UNCHANGED <<held, astray>>
        /\ switches' = [switches EXCEPT !.activated = FALSE]
    BY <1>5 DEF Cap!DeactivateAll, Cap!TeardownAutomationTools, Cap!pageVars, g, h
  <2>2. switches \in [activated : BOOLEAN, wanted : BOOLEAN, offered : SUBSET BOOLEAN]
    BY DEF HookInv, HooksTyped
  <2>3. Good(switches') BY <2>1, <2>2
  <2> QED BY <2>1, <2>3, <1>2, CleanHooks
<1> QED BY <1>3, <1>4, <1>5

\* And the page: what it puts over a function changes nothing, and where it puts a
\* hook back the slot is astray from then on.
LEMMA PageKeepsHooks ==
  ASSUME HookInv,
         \/ \E s \in Cap!Slots :
              Cap!PageWraps(s) \/ \E f \in held[s] : Cap!PagePutsBack(s, f)
         \/ Cap!PageFetches \/ \E id \in Cap!Fetches : Cap!FetchEnds(id)
         \/ \E b \in BOOLEAN : Cap!XhrOpens(b) \/ Cap!XhrSends(b) \/ Cap!XhrSendsUnseen(b)
         \/ Cap!XhrEnds
  PROVE HookInv'
<1>1. ASSUME NEW s \in Cap!Slots, Cap!PageWraps(s) PROVE HookInv'
  <2>0. PICK f, w : f = window[s] /\ w = Cap!Wrap("page", f) OBVIOUS
  <2>1. /\ window' = [window EXCEPT ![s] = w]
        /\ held' = [held EXCEPT ![s] = @ \cup {f}]
        /\ UNCHANGED <<originals, switches, astray>>
    BY <1>1, <2>0 DEF Cap!PageWraps
  <2>2. f \in Layers BY <2>0 DEF HookInv, HooksTyped
  <2>3. w \in Layers /\ (Cap!Hooked(w) <=> Cap!Hooked(window[s]))
    BY <2>0, <2>2, LayersOfHooks
  <2>4. HooksTyped' BY <2>1, <2>2, <2>3 DEF HookInv, HooksTyped
  <2>5. HooksClean' /\ InactiveIsBare'
    <3>1. window \in [Cap!Slots -> Layers] BY DEF HookInv, HooksTyped
    <3>2. \A r \in Cap!Slots : Cap!Hooked(window[r])' <=> Cap!Hooked(window[r])
      BY <3>1, <2>1, <2>3
    <3> QED BY <3>2, <2>1 DEF HookInv, HooksClean, InactiveIsBare
  <2> QED BY <2>4, <2>5 DEF HookInv
<1>2. ASSUME NEW s \in Cap!Slots, NEW f \in held[s], Cap!PagePutsBack(s, f) PROVE HookInv'
  <2>1. /\ window' = [window EXCEPT ![s] = f]
        /\ held' = [held EXCEPT ![s] = @ \ {f}]
        /\ astray' = IF Cap!Hooked(f) THEN astray \cup {s} ELSE astray
        /\ UNCHANGED <<originals, switches>>
    BY <1>2 DEF Cap!PagePutsBack
  <2>2. f \in Layers BY DEF HookInv, HooksTyped
  <2>3. HooksTyped' BY <2>1, <2>2 DEF HookInv, HooksTyped
  <2>4. HooksClean' /\ InactiveIsBare'
    BY <2>1 DEF HookInv, HooksTyped, HooksClean, InactiveIsBare
  <2> QED BY <2>3, <2>4 DEF HookInv
<1>3. ASSUME \/ Cap!PageFetches \/ \E id \in Cap!Fetches : Cap!FetchEnds(id)
             \/ \E b \in BOOLEAN : Cap!XhrOpens(b) \/ Cap!XhrSends(b) \/ Cap!XhrSendsUnseen(b)
             \/ Cap!XhrEnds
      PROVE HookInv'
  <2>1. UNCHANGED <<window, originals, held, astray, switches>>
    BY <1>3 DEF Cap!PageFetches, Cap!FetchEnds, Cap!XhrOpens, Cap!XhrSends, Cap!XhrEnds,
                Cap!XhrSendsUnseen, Cap!hookVars, Cap!pageVars
  <2> QED BY <2>1 DEF HookInv, HooksTyped, HooksClean, InactiveIsBare
<1> QED BY <1>1, <1>2, <1>3

\* What Push keeps of a list is of the list, or the new entry.
LEMMA PushKeeps ==
  ASSUME NEW S, NEW es \in Seq(S), NEW e \in S, MaxEntries \in Nat
  PROVE /\ Cap!Push(es, e) \in Seq(S)
        /\ \A i \in DOMAIN Cap!Push(es, e) :
             Cap!Push(es, e)[i] = e \/ \E j \in DOMAIN es : es[j] = Cap!Push(es, e)[i]
<1> DEFINE all == Append(es, e)
           first == IF Len(all) > MaxEntries THEN Len(all) - MaxEntries + 1 ELSE 1
           p == SubSeq(all, first, Len(all))
<1>1. all \in Seq(S) /\ Len(all) = Len(es) + 1 /\ Len(es) \in Nat
      /\ \A i \in 1..Len(all) : all[i] = IF i <= Len(es) THEN es[i] ELSE e
  OBVIOUS
<1> HIDE DEF all
<1>2. first \in 1..(Len(all) + 1) BY <1>1
<1> HIDE DEF first
<1>3. /\ p \in Seq(S) /\ DOMAIN p = 1..(Len(all) - first + 1)
      /\ \A i \in 1..(Len(all) - first + 1) : p[i] = all[first + i - 1]
  BY <1>1, <1>2, SubSeqProperties
<1>4. ASSUME NEW i \in DOMAIN p PROVE p[i] = e \/ \E j \in DOMAIN es : es[j] = p[i]
  <2>1. first + i - 1 \in 1..Len(all) BY <1>1, <1>2, <1>3
  <2>2. p[i] = all[first + i - 1] BY <1>3
  <2> QED BY <2>1, <2>2, <1>1
<1>5. Cap!Push(es, e) = p BY DEF Cap!Push, p, first, all
<1> QED BY <1>3, <1>4, <1>5

NetEntries == [id : Nat, ended : BOOLEAN]

\* A new entry is the last of the list, and what else is in it was there before.
LEMMA RecordAppends ==
  ASSUME RecordInv, Cap!Record, MaxEntries \in Nat
  PROVE /\ netSeq' = netSeq + 1 /\ netSeq \in Nat
        /\ netEntries' \in Seq(NetEntries)
        /\ \A i \in DOMAIN netEntries' :
             \/ netEntries'[i] = [id |-> netSeq + 1, ended |-> FALSE]
             \/ \E j \in DOMAIN netEntries : netEntries[j] = netEntries'[i]
        /\ \A i \in DOMAIN netEntries' : netEntries'[i].id <= netSeq'
<1> DEFINE e == [id |-> netSeq + 1, ended |-> FALSE]
<1>1. netSeq' = netSeq + 1 /\ netEntries' = Cap!Push(netEntries, e) BY DEF Cap!Record
<1>2. netEntries \in Seq(NetEntries) /\ netSeq \in Nat /\ e \in NetEntries
  BY DEF RecordInv, RecordsTyped, NetEntries
<1> HIDE DEF e
<1>3. /\ netEntries' \in Seq(NetEntries)
      /\ \A i \in DOMAIN netEntries' :
           netEntries'[i] = e \/ \E j \in DOMAIN netEntries : netEntries[j] = netEntries'[i]
  BY <1>1, <1>2, PushKeeps
<1>4. ASSUME NEW i \in DOMAIN netEntries' PROVE netEntries'[i].id <= netSeq'
  <2>1. CASE netEntries'[i] = e BY <2>1, <1>1, <1>2 DEF e
  <2>2. ASSUME NEW j \in DOMAIN netEntries, netEntries[j] = netEntries'[i]
        PROVE netEntries'[i].id <= netSeq'
    <3>1. j \in 1..Len(netEntries) BY <1>2
    <3>2. netEntries[j] \in NetEntries BY <3>1, <1>2, ElementOfSeq
    <3>3. netEntries[j].id \in Nat /\ netEntries[j].id <= netSeq
      BY <3>2 DEF NetEntries, RecordInv, RecordsTyped
    <3> QED BY <3>3, <2>2, <1>1, <1>2
  <2> QED BY <2>1, <2>2, <1>3
<1> QED BY <1>1, <1>2, <1>3, <1>4 DEF e

\* Ends change nothing but whether an entry has ended.
LEMMA EndedKeeps ==
  ASSUME RecordInv, NEW ids, netEntries' = Cap!Ended(netEntries, ids)
  PROVE /\ netEntries' \in Seq(NetEntries) /\ DOMAIN netEntries' = DOMAIN netEntries
        /\ \A i \in DOMAIN netEntries :
             /\ netEntries'[i].id = netEntries[i].id
             /\ netEntries'[i].ended <=> netEntries[i].ended \/ netEntries[i].id \in ids
<1>1. netEntries \in Seq(NetEntries) BY DEF RecordInv, RecordsTyped, NetEntries
<1>2. /\ DOMAIN netEntries' = DOMAIN netEntries
      /\ \A i \in DOMAIN netEntries :
           netEntries'[i] = IF netEntries[i].id \in ids
                            THEN [netEntries[i] EXCEPT !.ended = TRUE] ELSE netEntries[i]
  BY DEF Cap!Ended
<1>3. ASSUME NEW i \in DOMAIN netEntries PROVE netEntries[i] \in NetEntries
  <2>1. i \in 1..Len(netEntries) BY <1>1, <1>3
  <2> QED BY <2>1, <1>1, ElementOfSeq
<1>4. \A i \in DOMAIN netEntries :
        /\ netEntries'[i] \in NetEntries /\ netEntries'[i].id = netEntries[i].id
        /\ netEntries'[i].ended <=> netEntries[i].ended \/ netEntries[i].id \in ids
  BY <1>2, <1>3 DEF NetEntries
<1>5. netEntries' \in Seq(NetEntries)
  <2>1. DOMAIN netEntries = 1..Len(netEntries) /\ Len(netEntries) \in Nat BY <1>1
  <2>2. netEntries' = [i \in 1..Len(netEntries) |-> netEntries'[i]]
    BY <2>1 DEF Cap!Ended
  <2>3. \A i \in 1..Len(netEntries) : netEntries'[i] \in NetEntries BY <1>4, <2>1
  <2>4. netEntries' \in [1..Len(netEntries) -> NetEntries] BY <2>2, <2>3
  <2> QED BY <2>1, <2>4, SeqDef
<1> QED BY <1>2, <1>4, <1>5

\* The page's fetches keep the records true.
LEMMA FetchesAreFollowed ==
  ASSUME RecordInv, MaxEntries \in Nat,
         Cap!PageFetches \/ \E id \in Cap!Fetches : Cap!FetchEnds(id)
  PROVE RecordInv'
<1>1. ASSUME Cap!PageFetches PROVE RecordInv'
  <2>1. /\ Cap!Record /\ underway' = underway \cup {netSeq + 1}
        /\ UNCHANGED <<xhr, spoiled, xhrMeta>>
    BY <1>1 DEF Cap!PageFetches, Cap!hookVars, Cap!xhrVars
  <2>2. /\ netSeq' = netSeq + 1 /\ netSeq \in Nat
        /\ netEntries' \in Seq(NetEntries)
        /\ \A i \in DOMAIN netEntries' :
             \/ netEntries'[i] = [id |-> netSeq + 1, ended |-> FALSE]
             \/ \E j \in DOMAIN netEntries : netEntries[j] = netEntries'[i]
        /\ \A i \in DOMAIN netEntries' : netEntries'[i].id <= netSeq'
    BY <2>1, RecordAppends
  <2>3. RecordsTyped' BY <2>1, <2>2 DEF RecordInv, RecordsTyped, NetEntries
  <2>4. RecordsOpen' BY <2>1, <2>2 DEF RecordInv, RecordsTyped, RecordsOpen
  <2>5. XhrFollowed' BY <2>1, <2>2 DEF RecordInv, RecordsTyped, XhrFollowed
  <2> QED BY <2>3, <2>4, <2>5 DEF RecordInv
<1>2. ASSUME NEW id \in Cap!Fetches, Cap!FetchEnds(id) PROVE RecordInv'
  <2>1. /\ id \in underway \ xhr.own
        /\ underway' = underway \ {id} /\ netEntries' = Cap!Ended(netEntries, {id})
        /\ UNCHANGED <<netSeq, xhr, spoiled, xhrMeta>>
    BY <1>2 DEF Cap!FetchEnds, Cap!hookVars, Cap!xhrVars
  <2>2. /\ netEntries' \in Seq(NetEntries) /\ DOMAIN netEntries' = DOMAIN netEntries
        /\ \A i \in DOMAIN netEntries :
             /\ netEntries'[i].id = netEntries[i].id
             /\ netEntries'[i].ended <=> netEntries[i].ended \/ netEntries[i].id \in {id}
    BY <2>1, EndedKeeps
  <2>3. RecordsTyped' BY <2>1, <2>2 DEF RecordInv, RecordsTyped, NetEntries
  <2>4. RecordsOpen' BY <2>1, <2>2 DEF RecordInv, RecordsOpen
  <2>5. XhrFollowed' BY <2>1 DEF RecordInv, XhrFollowed
  <2> QED BY <2>3, <2>4, <2>5 DEF RecordInv
<1> QED BY <1>1, <1>2

\* So does its XMLHttpRequest, in whatever order it is opened, sent and ended.
LEMMA XhrIsFollowed ==
  ASSUME RecordInv, MaxEntries \in Nat,
         \/ \E b \in BOOLEAN : Cap!XhrOpens(b) \/ Cap!XhrSends(b) \/ Cap!XhrSendsUnseen(b)
         \/ Cap!XhrEnds
  PROVE RecordInv'
<1> USE DEF RecordInv
<1>1. ASSUME NEW b \in BOOLEAN, Cap!XhrOpens(b) PROVE RecordInv'
  <2>1. /\ UNCHANGED <<netEntries, netSeq>> /\ (xhrMeta' = {0} \/ xhrMeta' = xhrMeta)
        /\ \/ UNCHANGED <<underway, xhr, spoiled>>
           \/ /\ xhr' = [xhr EXCEPT !.phase = "opened", !.own = {}]
              /\ underway' = underway \ xhr.own /\ spoiled' = spoiled \cup xhr.own
    BY <1>1 DEF Cap!XhrOpens, Cap!xhrVars
  <2>2. CASE UNCHANGED <<underway, xhr, spoiled>>
    BY <2>1, <2>2 DEF RecordsTyped, RecordsOpen, XhrFollowed
  <2>3. CASE /\ xhr' = [xhr EXCEPT !.phase = "opened", !.own = {}]
             /\ underway' = underway \ xhr.own /\ spoiled' = spoiled \cup xhr.own
    <3>1. xhr' = [phase |-> "opened", own |-> {}, finishing |-> xhr.finishing]
      BY <2>3 DEF RecordsTyped
    <3>2. RecordsTyped' BY <3>1, <2>3, <2>1 DEF RecordsTyped
    <3>3. RecordsOpen' BY <2>3, <2>1 DEF RecordsOpen
    <3>4. XhrFollowed' BY <3>1, <2>3 DEF XhrFollowed
    <3> QED BY <3>2, <3>3, <3>4
  <2> QED BY <2>1, <2>2, <2>3
<1>2. ASSUME NEW throws \in BOOLEAN, NEW f, f.replaced \subseteq xhrMeta,
             f.entry \in {{}, {netSeq + 1}}, Cap!SendXhr(throws, f),
             f.finishing \subseteq xhr.finishing \cup f.entry,
             f.entry \subseteq f.finishing,
             xhr.finishing \ f.finishing \subseteq f.replaced \cup {0}
      PROVE /\ XhrFollowed'
            /\ underway' \subseteq underway \cup f.entry /\ underway \subseteq underway'
            /\ underway' \cup spoiled' = underway \cup spoiled \cup f.replaced \cup f.entry
            /\ xhr' = [phase |-> xhr'.phase, own |-> xhr'.own, finishing |-> f.finishing]
            /\ xhr'.own \subseteq xhr.own \cup f.entry
  <2> /\ netSeq \in Nat /\ 0 \notin underway
      /\ netSeq + 1 \notin underway \cup xhr.own \cup xhr.finishing
    BY DEF RecordsTyped
  <2>1. CASE xhr.phase # "opened"
    <3>1. xhr' = [phase |-> xhr.phase, own |-> xhr.own, finishing |-> f.finishing]
      BY <2>1, <1>2 DEF Cap!SendXhr, RecordsTyped
    <3>2. underway' = underway /\ spoiled' = spoiled \cup f.replaced \cup (f.entry \ xhr.own)
      BY <3>1, <1>2 DEF Cap!SendXhr, XhrFollowed
    <3>3. f.entry \ xhr.own = f.entry BY <1>2
    <3> QED BY <3>1, <3>2, <3>3, <1>2 DEF XhrFollowed
  <2>2. CASE xhr.phase = "opened"
    <3>1. xhr.own = {} BY <2>2 DEF XhrFollowed
    <3>2. CASE throws
      <4>1. xhr' = [phase |-> "unsent", own |-> {}, finishing |-> f.finishing]
        BY <2>2, <3>2, <1>2 DEF Cap!SendXhr
      <4>2. underway' = underway /\ spoiled' = spoiled \cup f.replaced \cup f.entry
        BY <4>1, <1>2 DEF Cap!SendXhr
      <4> QED BY <3>1, <4>1, <4>2, <1>2 DEF XhrFollowed
    <3>3. CASE ~throws
      <4>1. xhr' = [phase |-> "sent", own |-> f.entry, finishing |-> f.finishing]
        BY <2>2, <3>3, <1>2 DEF Cap!SendXhr
      <4>2. underway' = underway \cup f.entry /\ spoiled' = spoiled \cup f.replaced
        BY <4>1, <1>2 DEF Cap!SendXhr
      <4> QED BY <3>1, <4>1, <4>2, <1>2 DEF XhrFollowed
    <3> QED BY <3>2, <3>3
  <2> QED BY <2>1, <2>2
<1>3. ASSUME NEW b \in BOOLEAN, Cap!XhrSendsUnseen(b) PROVE RecordInv'
  <2> DEFINE f == [entry |-> {}, replaced |-> {}, finishing |-> xhr.finishing]
  <2>1. Cap!SendXhr(b, f) /\ UNCHANGED <<netEntries, netSeq, xhrMeta>>
    BY <1>3 DEF Cap!XhrSendsUnseen, Cap!hookVars
  <2>2. f.entry = {} /\ f.replaced = {} /\ f.finishing = xhr.finishing OBVIOUS
  <2> HIDE DEF f
  <2>3. /\ XhrFollowed' /\ underway' = underway /\ underway' \cup spoiled' = underway \cup spoiled
        /\ xhr' = [phase |-> xhr'.phase, own |-> xhr'.own, finishing |-> xhr.finishing]
        /\ xhr'.own \subseteq xhr.own
    BY <2>1, <2>2, <1>2
  <2>4. RecordsTyped' BY <2>1, <2>3 DEF RecordsTyped
  <2>5. RecordsOpen' BY <2>1, <2>3 DEF RecordsOpen
  <2> QED BY <2>3, <2>4, <2>5
<1>4. ASSUME NEW b \in BOOLEAN, Cap!XhrSends(b) PROVE RecordInv'
  <2> DEFINE new == netSeq + 1
             f == [entry |-> {new}, replaced |-> xhrMeta \ {0},
                   finishing |-> (xhr.finishing \ xhrMeta) \cup {new}]
  <2>1. Cap!Record /\ Cap!SendXhr(b, f) /\ xhrMeta' = {new}
    BY <1>4 DEF Cap!XhrSends
  <2>2. /\ f.entry = {new} /\ f.replaced = xhrMeta \ {0}
        /\ f.finishing = (xhr.finishing \ xhrMeta) \cup {new}
    OBVIOUS
  <2> HIDE DEF f
  <2>3. /\ netSeq' = netSeq + 1 /\ netSeq \in Nat
        /\ netEntries' \in Seq(NetEntries)
        /\ \A i \in DOMAIN netEntries' :
             \/ netEntries'[i] = [id |-> netSeq + 1, ended |-> FALSE]
             \/ \E j \in DOMAIN netEntries : netEntries[j] = netEntries'[i]
        /\ \A i \in DOMAIN netEntries' : netEntries'[i].id <= netSeq'
    BY <2>1, RecordAppends
  <2>4. /\ XhrFollowed' /\ underway' \subseteq underway \cup {new} /\ underway \subseteq underway'
        /\ underway' \cup spoiled' = underway \cup spoiled \cup f.replaced \cup {new}
        /\ xhr' = [phase |-> xhr'.phase, own |-> xhr'.own, finishing |-> f.finishing]
        /\ xhr'.own \subseteq xhr.own \cup {new}
    BY <2>1, <2>2, <1>2
  <2>5. RecordsTyped'
    <3>1. /\ \A id \in underway \cup xhr.own \cup xhr.finishing \cup xhrMeta :
               id \in Nat /\ id <= netSeq
          /\ 0 \notin underway
      BY DEF RecordsTyped
    <3>2. /\ \A id \in underway' \cup xhr'.own \cup f.finishing \cup xhrMeta' :
               id \in Nat /\ id <= netSeq'
          /\ 0 \notin underway'
      BY <3>1, <2>1, <2>2, <2>3, <2>4
    <3>3. xhr'.finishing = f.finishing BY <2>4
    <3> QED BY <3>2, <3>3, <2>3, <2>4 DEF RecordsTyped, NetEntries
  <2>6. RecordsOpen'
    <3>1. \A i \in DOMAIN netEntries : netEntries[i].id <= netSeq BY DEF RecordsTyped
    <3> QED BY <3>1, <2>3, <2>4 DEF RecordsOpen
  <2> QED BY <2>4, <2>5, <2>6
<1>5. ASSUME Cap!XhrEnds PROVE RecordInv'
  <2>1. /\ netEntries' = Cap!Ended(netEntries, xhr.finishing)
        /\ underway' = underway \ xhr.own
        /\ xhr' = [phase |-> "unsent", own |-> {}, finishing |-> {}]
        /\ UNCHANGED <<netSeq, spoiled, xhrMeta>>
    BY <1>5 DEF Cap!XhrEnds, Cap!hookVars
  <2>2. /\ netEntries' \in Seq(NetEntries) /\ DOMAIN netEntries' = DOMAIN netEntries
        /\ \A i \in DOMAIN netEntries :
             /\ netEntries'[i].id = netEntries[i].id
             /\ netEntries'[i].ended <=> netEntries[i].ended \/ netEntries[i].id \in xhr.finishing
    BY <2>1, EndedKeeps
  <2>3. RecordsTyped' BY <2>1, <2>2 DEF RecordsTyped, NetEntries
  <2>4. RecordsOpen' BY <2>1, <2>2 DEF RecordsOpen, XhrFollowed
  <2>5. XhrFollowed' BY <2>1 DEF XhrFollowed
  <2> QED BY <2>3, <2>4, <2>5
<1> QED BY <1>1, <1>3, <1>4, <1>5

\* The records stay true to the requests under way.
LEMMA RecordsStayTrue ==
  ASSUME RecordInv, Cap!Next, MaxEntries \in Nat
  PROVE RecordInv'
<1>1. ASSUME netEntries' = <<>> \/ netEntries' = netEntries, xhrMeta' = {} \/ xhrMeta' = xhrMeta,
             UNCHANGED <<netSeq, underway, xhr, spoiled>>
      PROVE RecordInv'
  <2>1. CASE netEntries' = <<>>
    <3>1. netEntries' \in Seq(NetEntries) /\ DOMAIN netEntries' = {} BY <2>1
    <3> QED BY <3>1, <1>1 DEF RecordInv, RecordsTyped, RecordsOpen, XhrFollowed, NetEntries
  <2>2. CASE netEntries' = netEntries
    BY <1>1, <2>2 DEF RecordInv, RecordsTyped, RecordsOpen, XhrFollowed
  <2> QED BY <1>1, <2>1, <2>2
<1>2. ASSUME NEW h, h.xhrMeta = {} \/ h.xhrMeta = xhrMeta, NEW s
      PROVE /\ Cap!Install(h, s).xhrMeta = {} \/ Cap!Install(h, s).xhrMeta = xhrMeta
            /\ Cap!Uninstall(h, s).xhrMeta = {} \/ Cap!Uninstall(h, s).xhrMeta = xhrMeta
  BY <1>2 DEF Cap!Install, Cap!Uninstall
<1>3. Cap!Hooks.xhrMeta = xhrMeta BY DEF Cap!Hooks
<1>4. \A r, s : /\ Cap!Install(Cap!Hooks, s).xhrMeta \in {{}, xhrMeta}
                /\ Cap!Uninstall(Cap!Hooks, s).xhrMeta \in {{}, xhrMeta}
                /\ Cap!Uninstall(Cap!Uninstall(Cap!Hooks, s), r).xhrMeta \in {{}, xhrMeta}
  BY <1>2, <1>3
<1>5. CASE \/ \E b \in BOOLEAN : \/ Cap!StartNetworkCapture(b)
                                 \/ \E others \in BOOLEAN : Cap!Activate(b, others)
           \/ Cap!StopNetworkCapture \/ Cap!ClearNetworkCapture \/ Cap!Rebuilt \/ Cap!DeactivateAll
           \/ \E m \in {"native", "accept", "dismiss"} : Cap!SetDialogBehavior(m)
           \/ \E s \in Cap!Slots : Cap!PageWraps(s) \/ \E f \in held[s] : Cap!PagePutsBack(s, f)
  <2>1. xhrMeta' \in {{}, xhrMeta}
    BY <1>4, <1>5
    DEF Cap!StartNetworkCapture, Cap!Activate, Cap!StopNetworkCapture,
        Cap!ClearNetworkCapture, Cap!Rebuilt, Cap!DeactivateAll, Cap!SetDialogBehavior,
        Cap!TeardownAutomationTools, Cap!BecomeHooks, Cap!PageWraps, Cap!PagePutsBack, Cap!hookVars
  <2>2. /\ netEntries' = <<>> \/ netEntries' = netEntries
        /\ UNCHANGED <<netSeq, underway, xhr, spoiled>>
    BY <1>5
    DEF Cap!StartNetworkCapture, Cap!Activate, Cap!StopNetworkCapture,
        Cap!ClearNetworkCapture, Cap!Rebuilt, Cap!DeactivateAll, Cap!SetDialogBehavior,
        Cap!PageWraps, Cap!PagePutsBack, Cap!netVars, Cap!xhrVars
  <2> QED BY <1>1, <2>1, <2>2
<1> QED BY <1>5, FetchesAreFollowed, XhrIsFollowed DEF Cap!Next

\* In every state, in whatever order the agent's tools, the switches and the page come:
\* an inactive page has no hook in it, what the page finds works as long as it put no
\* hook back itself, no request under way is listed as ended, and a record is listed as
\* under way only while its request is, unless it is of an XMLHttpRequest whose send
\* threw or that was used again before it had ended.
THEOREM HooksAreTaken == Spec => []HooksComeOff
<1>1. Init => HookInv /\ RecordInv
  BY LayersOfHooks
  DEF Init, Cap!Init, HookInv, HooksTyped, HooksClean, InactiveIsBare, RecordInv,
      RecordsTyped, RecordsOpen, XhrFollowed
<1>2. ASSUME HookInv /\ RecordInv, [Next]_extensionVars PROVE (HookInv /\ RecordInv)'
  <2>1. CASE UNCHANGED autoPart
    BY <2>1, <1>2 DEF autoPart, HookInv, HooksTyped, HooksClean, InactiveIsBare, RecordInv,
                      RecordsTyped, RecordsOpen, XhrFollowed
  <2>2. CASE Cap!Next
    <3>1. HookInv'
      BY <2>2, <1>2, ToolsKeepHooks, ControlsKeepHooks, PageKeepsHooks DEF Cap!Next
    <3>2. RecordInv' BY <2>2, <1>2, RecordsStayTrue, Bounds DEF Cap!AutomationBounds
    <3> QED BY <3>1, <3>2
  <2> QED BY <2>1, <2>2, <1>2 DEF Next, extensionVars
<1>3. HookInv /\ RecordInv => HooksComeOff
  <2>1. ASSUME HookInv PROVE Cap!HooksComeOff
    BY <2>1 DEF HookInv, HooksTyped, HooksClean, InactiveIsBare, Cap!HooksComeOff, Cap!Through
  <2>2. ASSUME RecordInv PROVE Cap!RecordsAreWhole
    BY <2>2 DEF RecordInv, RecordsOpen, Cap!RecordsAreWhole, Cap!ToSet
  <2> QED BY <2>1, <2>2 DEF HooksComeOff
<1> QED BY <1>1, <1>2, <1>3, PTL DEF Spec

-----------------------------------------------------------------------------
(***************************************************************************)
(* Uids.                                                                   *)
(***************************************************************************)
IsRegistry(r) ==
  /\ r = [prefix |-> r.prefix, seq |-> r.seq, refs |-> r.refs]
  /\ r.seq \in Nat /\ DOMAIN r.refs \subseteq 1..r.seq

\* Documents have a length, registries number what they refer to, the top frame stays.
SnapTyped ==
  /\ DOMAIN dom = Snap!Frames /\ \A f \in Snap!Frames : Len(dom[f]) \in Nat
  /\ DOMAIN registry = Snap!Frames /\ \A f \in Snap!Frames : IsRegistry(registry[f])
  /\ registry[0].prefix = 0
  /\ 0 \in present /\ present \subseteq Snap!Frames
  /\ call = [pc |-> call.pc, frames |-> call.frames, sections |-> call.sections,
             lines |-> call.lines, uid |-> call.uid]

\* What a registry refers to by the number of a line is the line's element, if it
\* refers to anything; a number of the top document has been given out.
Fits(l, r) ==
  /\ r.prefix = l.uid[1] /\ l.uid[2] \in DOMAIN r.refs => r.refs[l.uid[2]] = l.element
  /\ l.uid[1] = 0 => l.frame = 0 /\ l.uid[2] \in 1..r.seq

\* Between the calls, and while an action looks for its element, a line that was listed
\* fits its frame, and the index in its uid stands for no other frame.
ShownFit ==
  call.pc \in {"idle", "acting"} =>
    \A l \in shown : l.by = "listing" =>
      /\ l.frame \in Snap!Frames /\ Fits(l, registry[l.frame])
      /\ Snap!FrameFor(l.uid) \subseteq {l.frame}

\* A snapshot under way has gone through the frames of its sections once, the top frame
\* first, and its lines fit as things stand.
SectionsFit ==
  /\ call.pc = "list" => call.sections = <<>> /\ call.lines = {} /\ 0 \in agents
  /\ call.pc = "frames" =>
       /\ call.frames \subseteq Snap!Frames /\ call.sections \in Seq(Snap!Frames)
       /\ \A i \in 1..Len(call.sections) : call.sections[i] \notin call.frames
       /\ call.sections = <<>> => 0 \in call.frames /\ 0 \in agents
       /\ call.sections # <<>> => call.sections[1] = 0
       /\ \A l \in call.lines :
            /\ l.uid[1] \in 0..(Len(call.sections) - 1)
            /\ call.sections[l.uid[1] + 1] = l.frame
            /\ Fits(l, registry[l.frame])

SnapInv == SnapTyped /\ ShownFit /\ SectionsFit

\* A registry as a snapshot leaves it fits the lines it is rendered to.
LEMMA RenderedFits ==
  ASSUME NEW f \in Snap!Frames, NEW prefix, NEW n \in 1..2, Len(dom[f]) \in Nat,
         prefix = 0 => f = 0
  PROVE /\ IsRegistry(Snap!RenderSnapshotLines(f, prefix, n))
        /\ Snap!RenderSnapshotLines(f, prefix, n).prefix = prefix
        /\ \A l \in Snap!Lines(f, Snap!RenderSnapshotLines(f, prefix, n)) :
             /\ l.frame = f /\ l.uid[1] = prefix /\ l.by = "listing"
             /\ Fits(l, Snap!RenderSnapshotLines(f, prefix, n))
<1> DEFINE m == IF n < Len(dom[f]) THEN n ELSE Len(dom[f])
           refs == [i \in 1..m |-> dom[f][i]]
           r == [prefix |-> prefix, seq |-> m, refs |-> refs]
<1>1. Snap!RenderSnapshotLines(f, prefix, n) = r BY DEF Snap!RenderSnapshotLines
<1>2. m \in Nat /\ DOMAIN refs = 1..m OBVIOUS
<1> HIDE DEF m, refs
<1>3. /\ r.prefix = prefix /\ r.seq = m /\ r.refs = refs
      /\ r = [prefix |-> r.prefix, seq |-> r.seq, refs |-> r.refs]
  OBVIOUS
<1>4. IsRegistry(r) BY <1>2, <1>3 DEF IsRegistry
<1> HIDE DEF r
<1>5. ASSUME NEW l \in Snap!Lines(f, r)
      PROVE l.frame = f /\ l.uid[1] = prefix /\ l.by = "listing" /\ Fits(l, r)
  <2>1. PICK i \in DOMAIN r.refs :
          l = [uid |-> <<r.prefix, i>>, frame |-> f, element |-> r.refs[i], by |-> "listing"]
    BY <1>5 DEF Snap!Lines, Snap!Given
  <2>2. l.uid[1] = prefix /\ l.uid[2] = i /\ l.element = r.refs[i] /\ l.frame = f
        /\ l.by = "listing"
    BY <2>1, <1>3
  <2> QED BY <2>2, <1>2, <1>3 DEF Fits
<1> QED BY <1>1, <1>3, <1>4, <1>5

\* Registering an element gives it a number nobody has been given.
LEMMA RegisteredFits ==
  ASSUME NEW r, NEW e, IsRegistry(r), r.prefix = 0
  PROVE /\ IsRegistry(Snap!RegisterUid(r, e)) /\ Snap!RegisterUid(r, e).prefix = 0
        /\ \A l : Fits(l, r) => Fits(l, Snap!RegisterUid(r, e))
        /\ \A l \in Snap!Lines(0, Snap!RegisterUid(r, e)) :
             /\ l.frame = 0 /\ l.uid[1] = 0 /\ l.by = "listing"
             /\ Fits(l, Snap!RegisterUid(r, e))
<1> DEFINE q == Snap!RegisterUid(r, e)
<1>1. /\ IsRegistry(q) /\ q.prefix = 0 /\ q.seq >= r.seq
      /\ \A i \in 1..r.seq : i \in DOMAIN q.refs => i \in DOMAIN r.refs /\ q.refs[i] = r.refs[i]
  <2>1. CASE \E i \in DOMAIN r.refs : r.refs[i] = e
    <3>1. q = r BY <2>1 DEF Snap!RegisterUid
    <3> QED BY <3>1 DEF IsRegistry
  <2>2. CASE ~\E i \in DOMAIN r.refs : r.refs[i] = e
    <3> DEFINE refs == [i \in DOMAIN r.refs \cup {r.seq + 1} |->
                          IF i = r.seq + 1 THEN e ELSE r.refs[i]]
    <3>1. q = [r EXCEPT !.seq = r.seq + 1, !.refs = refs] BY <2>2 DEF Snap!RegisterUid
    <3>2. /\ DOMAIN refs = DOMAIN r.refs \cup {r.seq + 1}
          /\ \A i \in 1..r.seq : i \in DOMAIN refs => i \in DOMAIN r.refs /\ refs[i] = r.refs[i]
      BY DEF IsRegistry
    <3> HIDE DEF refs
    <3>3. q = [prefix |-> 0, seq |-> r.seq + 1, refs |-> refs] BY <3>1 DEF IsRegistry
    <3> HIDE DEF q
    <3> QED BY <3>2, <3>3 DEF IsRegistry
  <2> QED BY <2>1, <2>2
<1> HIDE DEF q
<1>2. ASSUME NEW l, Fits(l, r) PROVE Fits(l, q)
  <2>1. CASE l.uid[1] = 0 BY <2>1, <1>2, <1>1 DEF Fits, IsRegistry
  <2>2. CASE l.uid[1] # 0 BY <2>2, <1>1 DEF Fits
  <2> QED BY <2>1, <2>2
<1>3. ASSUME NEW l \in Snap!Lines(0, q)
      PROVE l.frame = 0 /\ l.uid[1] = 0 /\ l.by = "listing" /\ Fits(l, q)
  <2>1. PICK i \in DOMAIN q.refs :
          l = [uid |-> <<q.prefix, i>>, frame |-> 0, element |-> q.refs[i], by |-> "listing"]
    BY <1>3 DEF Snap!Lines, Snap!Given
  <2>2. l.uid[1] = 0 /\ l.uid[2] = i /\ l.element = q.refs[i] /\ l.frame = 0
        /\ l.by = "listing"
    BY <2>1, <1>1
  <2> QED BY <2>2, <1>1 DEF Fits, IsRegistry
<1> QED BY <1>1, <1>2, <1>3 DEF q

\* The initial documents have lengths, the elements being finitely many.
LEMMA SnapInit == ASSUME Snap!Init PROVE SnapInv
<1>1. 0 \in Snap!Frames BY Bounds DEF Snap!FrameBound, Snap!Frames
<1>2. Len(Snap!SetToSeq(Elements)) \in Nat
  <2>0. IsFiniteSet(Elements) BY Bounds DEF Snap!FrameBound, Snap!IsFiniteSet, IsFiniteSet
  <2> DEFINE c == Cardinality(Elements)
  <2>a. Snap!Cardinality(Elements) = c BY DEF Snap!Cardinality, Cardinality
  <2>1. c \in Nat /\ ExistsBijection(1..c, Elements) BY <2>0, FS_CardinalityType
  <2>2. PICK g : g \in Bijection(1..c, Elements) BY <2>1 DEF ExistsBijection
  <2>3. g \in [1..c -> Elements] /\ Snap!IsInjective(g)
    BY <2>2 DEF Bijection, Injection, IsInjective, Snap!IsInjective
  <2> HIDE DEF c
  <2>4. Snap!SetToSeq(Elements) \in [1..c -> Elements] BY <2>3, <2>a DEF Snap!SetToSeq
  <2>5. Snap!SetToSeq(Elements) \in Seq(Elements) BY <2>1, <2>4, SeqDef
  <2> QED BY <2>5
<1>3. SnapTyped
  <2>1. \A f \in Snap!Frames : dom[f] = <<CHOOSE e \in Elements : TRUE>>
                               \/ dom[f] = Snap!SetToSeq(Elements)
    BY DEF Snap!Init
  <2>2. \A f \in Snap!Frames : Len(dom[f]) \in Nat BY <2>1, <1>2
  <2> QED BY <2>2, <1>1 DEF Snap!Init, SnapTyped, IsRegistry, Snap!Blank, Snap!Rest
<1> QED BY <1>3 DEF Snap!Init, SnapInv, ShownFit, SectionsFit, Snap!Rest

\* When the registries change so that lines that fitted their frame still do, and
\* nothing else but agents of sub-frames, the invariant holds on.
LEMMA FitsAreKept ==
  ASSUME SnapInv, SnapTyped', UNCHANGED <<call, frameIds, shown>>, 0 \in agents => 0 \in agents',
         \A l : l.frame \in Snap!Frames /\ Fits(l, registry[l.frame])
                  => Fits(l, registry'[l.frame])
  PROVE SnapInv'
<1>1. ShownFit' BY DEF SnapInv, ShownFit, Snap!FrameFor
<1>2. SectionsFit'
  <2>1. CASE call.pc = "list" BY <2>1 DEF SnapInv, SectionsFit
  <2>2. CASE call.pc = "frames"
    <3>1. \A l \in call.lines : l.frame \in Snap!Frames
      <4>1. call.sections \in Seq(Snap!Frames) BY <2>2 DEF SnapInv, SectionsFit
      <4>2. \A i \in 1..Len(call.sections) : call.sections[i] \in Snap!Frames BY <4>1
      <4>3. ASSUME NEW l \in call.lines PROVE l.frame \in Snap!Frames
        <5>1. /\ l.uid[1] \in 0..(Len(call.sections) - 1)
              /\ call.sections[l.uid[1] + 1] = l.frame
          BY <2>2 DEF SnapInv, SectionsFit
        <5>2. l.uid[1] + 1 \in 1..Len(call.sections) BY <5>1, <4>1
        <5> QED BY <5>1, <5>2, <4>2
      <4> QED BY <4>3
    <3> QED BY <2>2, <3>1 DEF SnapInv, SectionsFit
  <2>3. CASE call.pc \notin {"list", "frames"} BY <2>3 DEF SectionsFit
  <2> QED BY <2>1, <2>2, <2>3
<1> QED BY <1>1, <1>2 DEF SnapInv

\* What the page does to its documents and frames, and the end of the tools.
LEMMA PageKeepsUids ==
  ASSUME SnapInv,
         \/ \E f \in Snap!Frames, d \in Snap!Documents : Snap!ChangeDom(f, d)
         \/ \E f \in Snap!Frames : Snap!LoadFrame(f) \/ Snap!RemoveFrame(f)
         \/ Snap!ClearSnapshotRefs
  PROVE SnapInv'
<1>0. 0 \in Snap!Frames BY Bounds DEF Snap!FrameBound, Snap!Frames
<1>1. ASSUME NEW f \in Snap!Frames, NEW d \in Snap!Documents, Snap!ChangeDom(f, d) PROVE SnapInv'
  <2>1. /\ dom' = [dom EXCEPT ![f] = d]
        /\ UNCHANGED <<present, agents, registry, frameIds, call, shown>>
    BY <1>1 DEF Snap!ChangeDom
  <2>2. Len(d) \in Nat BY DEF Snap!Documents
  <2>3. SnapTyped' BY <2>1, <2>2 DEF SnapInv, SnapTyped
  <2> QED BY <2>1, <2>3, FitsAreKept
<1>2. ASSUME NEW f \in Snap!Frames, f # 0, registry' = [registry EXCEPT ![f] = Snap!Blank],
             agents' = agents \ {f}, 0 \in present', present' \subseteq Snap!Frames,
             UNCHANGED <<dom, frameIds, call, shown>>
      PROVE SnapInv'
  <2>1. IsRegistry(Snap!Blank) /\ DOMAIN Snap!Blank.refs = {} BY DEF IsRegistry, Snap!Blank
  <2>2. SnapTyped' BY <2>1, <1>0, <1>2 DEF SnapInv, SnapTyped
  <2>3. ASSUME NEW l, l.frame \in Snap!Frames, Fits(l, registry[l.frame])
        PROVE Fits(l, registry'[l.frame])
    <3>1. CASE l.frame # f BY <2>3, <3>1, <1>2 DEF SnapInv, SnapTyped
    <3>2. CASE l.frame = f
      <4>1. registry'[l.frame] = Snap!Blank BY <3>2, <1>2 DEF SnapInv, SnapTyped
      <4>2. l.uid[1] # 0 BY <3>2, <1>2, <2>3 DEF Fits
      <4> QED BY <4>1, <4>2, <2>1 DEF Fits
    <3> QED BY <3>1, <3>2
  <2> QED BY <2>2, <2>3, <1>2, FitsAreKept
<1>3. ASSUME NEW f \in Snap!Frames, Snap!LoadFrame(f) \/ Snap!RemoveFrame(f) PROVE SnapInv'
  <2>1. /\ f # 0 /\ registry' = [registry EXCEPT ![f] = Snap!Blank] /\ agents' = agents \ {f}
        /\ present' = present \cup {f} \/ present' = present \ {f}
        /\ UNCHANGED <<dom, frameIds, call, shown>>
    BY <1>3 DEF Snap!LoadFrame, Snap!RemoveFrame
  <2>2. 0 \in present' /\ present' \subseteq Snap!Frames BY <2>1 DEF SnapInv, SnapTyped
  <2> QED BY <2>1, <2>2, <1>2
<1>4. ASSUME Snap!ClearSnapshotRefs PROVE SnapInv'
  <2>1. /\ registry' = [registry EXCEPT ![0].refs = <<>>]
        /\ UNCHANGED <<dom, present, agents, frameIds, call, shown>>
    BY <1>4 DEF Snap!ClearSnapshotRefs
  <2> DEFINE r == [prefix |-> 0, seq |-> registry[0].seq, refs |-> <<>>]
  <2>2. [registry[0] EXCEPT !.refs = <<>>] = r BY <1>0 DEF SnapInv, SnapTyped, IsRegistry
  <2>3. registry' = [registry EXCEPT ![0] = r] BY <2>1, <2>2
  <2>4. IsRegistry(r) /\ r.prefix = 0 /\ r.seq = registry[0].seq /\ DOMAIN r.refs = {}
    BY <1>0 DEF SnapInv, SnapTyped, IsRegistry
  <2> HIDE DEF r
  <2>5. SnapTyped' BY <2>1, <2>3, <2>4, <1>0 DEF SnapInv, SnapTyped
  <2>6. ASSUME NEW l, l.frame \in Snap!Frames, Fits(l, registry[l.frame])
        PROVE Fits(l, registry'[l.frame])
    <3>1. CASE l.frame # 0 BY <2>6, <3>1, <2>3 DEF SnapInv, SnapTyped
    <3>2. CASE l.frame = 0
      <4>1. registry'[l.frame] = r BY <3>2, <2>3, <1>0 DEF SnapInv, SnapTyped
      <4> QED BY <4>1, <3>2, <2>4, <2>6 DEF Fits
    <3> QED BY <3>1, <3>2
  <2> QED BY <2>1, <2>5, <2>6, FitsAreKept
<1> QED BY <1>1, <1>3, <1>4

\* The steps of take_snapshot.
LEMMA SnapshotsKeepUids ==
  ASSUME SnapInv,
         \/ Snap!TakeSnapshot \/ Snap!ListAgentFrames \/ Snap!Stitch
         \/ \E n \in 1..2 : \/ Snap!SnapshotAlone(n)
                            \/ \E f \in call.frames : Snap!SnapshotFrame(f, n)
  PROVE SnapInv'
<1>0. 0 \in Snap!Frames BY Bounds DEF Snap!FrameBound, Snap!Frames
<1>1. ASSUME Snap!TakeSnapshot PROVE SnapInv'
  <2>1. /\ \/ agents' = present /\ call' = [Snap!Rest EXCEPT !.pc = "list"]
           \/ agents' = agents /\ call' = [Snap!Rest EXCEPT !.pc = "fallback"]
        /\ UNCHANGED <<dom, present, registry, frameIds, shown>>
    BY <1>1 DEF Snap!TakeSnapshot, Snap!Goes
  <2>2. SnapTyped' BY <2>1 DEF SnapInv, SnapTyped, Snap!Rest
  <2>3. ShownFit' BY <2>1 DEF ShownFit, Snap!Rest
  <2>4. SectionsFit' BY <2>1 DEF SnapInv, SnapTyped, SectionsFit, Snap!Rest
  <2> QED BY <2>2, <2>3, <2>4 DEF SnapInv
<1>2. ASSUME Snap!ListAgentFrames PROVE SnapInv'
  <2>1. /\ call.pc = "list"
        /\ call' = [call EXCEPT !.pc = "frames", !.frames = agents \cap present]
        /\ UNCHANGED <<dom, present, agents, registry, frameIds, shown>>
    BY <1>2 DEF Snap!ListAgentFrames, Snap!Goes
  <2>2. call' = [pc |-> "frames", frames |-> agents \cap present, sections |-> call.sections,
                 lines |-> call.lines, uid |-> call.uid]
    BY <2>1 DEF SnapInv, SnapTyped
  <2>3. SnapTyped' BY <2>1, <2>2 DEF SnapInv, SnapTyped
  <2>4. ShownFit' BY <2>2 DEF ShownFit
  <2>5. 0 \in agents \cap present /\ agents \cap present \subseteq Snap!Frames
    BY <2>1 DEF SnapInv, SnapTyped, SectionsFit
  <2>6. <<>> \in Seq(Snap!Frames) /\ Len(<<>>) = 0 OBVIOUS
  <2>7. SectionsFit'
    <3>1. /\ call'.pc = "frames" /\ call'.frames = agents \cap present
          /\ call'.sections = <<>> /\ call'.lines = {} /\ agents' = agents
      BY <2>1, <2>2 DEF SnapInv, SectionsFit
    <3>2. \A i \in 1..Len(call'.sections) : FALSE BY <3>1, <2>6
    <3> QED BY <3>1, <3>2, <2>5, <2>6 DEF SectionsFit
  <2> QED BY <2>3, <2>4, <2>7 DEF SnapInv
<1>3. ASSUME Snap!Stitch PROVE SnapInv'
  <2>1. /\ call.pc = "frames" /\ call.frames = {} /\ shown' = call.lines /\ call' = Snap!Rest
        /\ frameIds' = [k \in 0..(Len(call.sections) - 1) |-> call.sections[k + 1]]
        /\ UNCHANGED <<dom, present, agents, registry>>
    BY <1>3 DEF Snap!Stitch, Snap!Goes
  <2>2. SnapTyped' BY <2>1 DEF SnapInv, SnapTyped, Snap!Rest
  <2>3. SectionsFit' BY <2>1 DEF SectionsFit, Snap!Rest
  <2>4. /\ call.sections \in Seq(Snap!Frames)
        /\ \A l \in call.lines :
             /\ l.uid[1] \in 0..(Len(call.sections) - 1)
             /\ call.sections[l.uid[1] + 1] = l.frame
             /\ Fits(l, registry[l.frame])
    BY <2>1 DEF SnapInv, SectionsFit
  <2>5. ASSUME NEW l \in call.lines
        PROVE /\ l.frame \in Snap!Frames /\ Fits(l, registry[l.frame])
              /\ l.uid[1] = 0 => l.frame = 0
              /\ l.uid[1] \in DOMAIN frameIds' => frameIds'[l.uid[1]] = l.frame
    <3>1. l.uid[1] + 1 \in 1..Len(call.sections) BY <2>4
    <3>2. l.frame \in Snap!Frames BY <3>1, <2>4
    <3> QED BY <3>2, <2>1, <2>4 DEF Fits
  <2>6. ShownFit' BY <2>5, <2>1 DEF ShownFit, Snap!FrameFor
  <2> QED BY <2>2, <2>3, <2>6 DEF SnapInv
<1>4. ASSUME NEW n \in 1..2, Snap!SnapshotAlone(n) PROVE SnapInv'
  <2>0. PICK r : r = Snap!RenderSnapshotLines(0, 0, n) OBVIOUS
  <2>1. /\ registry' = [registry EXCEPT ![0] = r] /\ shown' = Snap!Lines(0, r)
        /\ call' = Snap!Rest
        /\ UNCHANGED <<dom, present, agents, frameIds>>
    BY <1>4, <2>0 DEF Snap!SnapshotAlone, Snap!Goes
  <2>2. /\ IsRegistry(r) /\ r.prefix = 0
        /\ \A l \in Snap!Lines(0, r) : l.frame = 0 /\ l.uid[1] = 0 /\ Fits(l, r)
    BY <2>0, <1>0, RenderedFits DEF SnapInv, SnapTyped
  <2>3. SnapTyped' BY <2>1, <2>2, <1>0 DEF SnapInv, SnapTyped, Snap!Rest
  <2>4. SectionsFit' BY <2>1 DEF SectionsFit, Snap!Rest
  <2>5. registry'[0] = r BY <2>1, <1>0 DEF SnapInv, SnapTyped
  <2>6. ShownFit' BY <2>1, <2>2, <2>5, <1>0 DEF ShownFit, Snap!FrameFor
  <2> QED BY <2>3, <2>4, <2>6 DEF SnapInv
<1>5. ASSUME NEW n \in 1..2, NEW f \in call.frames, Snap!SnapshotFrame(f, n) PROVE SnapInv'
  <2>0. PICK r : r = Snap!RenderSnapshotLines(f, Len(call.sections), n) OBVIOUS
  <2> DEFINE rest == call.frames \ {f}
             skipped == [call EXCEPT !.frames = rest]
             entered == [call EXCEPT !.frames = rest, !.sections = Append(call.sections, f),
                                    !.lines = call.lines \cup Snap!Lines(f, r)]
  <2>1. /\ call.pc = "frames" /\ \A g \in call.frames : f <= g
        /\ \/ /\ f \notin present /\ call' = [call EXCEPT !.pc = "fallback"]
              /\ registry' = registry
           \/ f # 0 /\ call' = skipped /\ registry' = registry
           \/ /\ registry' = [registry EXCEPT ![f] = r]
              /\ \/ call.sections # <<>> /\ call' = skipped
                 \/ call' = entered
        /\ UNCHANGED <<dom, present, agents, frameIds, shown>>
    BY <1>5, <2>0 DEF Snap!SnapshotFrame, Snap!Goes
  <2> HIDE DEF skipped, entered
  <2>2. /\ call.frames \subseteq Snap!Frames /\ call.sections \in Seq(Snap!Frames)
        /\ \A i \in 1..Len(call.sections) : call.sections[i] \notin call.frames
        /\ call.sections = <<>> => 0 \in call.frames /\ 0 \in agents
        /\ call.sections # <<>> => call.sections[1] = 0
        /\ \A l \in call.lines :
             /\ l.uid[1] \in 0..(Len(call.sections) - 1)
             /\ call.sections[l.uid[1] + 1] = l.frame
             /\ Fits(l, registry[l.frame])
    BY <2>1 DEF SnapInv, SectionsFit
  <2>3. f \in Snap!Frames /\ Len(call.sections) \in Nat BY <2>2
  <2>4. call.sections = <<>> => f = 0
    BY <2>1, <2>2, <2>3, Bounds DEF Snap!Frames, Snap!FrameBound
  <2>5. Len(call.sections) = 0 <=> call.sections = <<>> BY <2>2
  <2>6. /\ IsRegistry(r) /\ r.prefix = Len(call.sections)
        /\ \A l \in Snap!Lines(f, r) :
             l.frame = f /\ l.uid[1] = Len(call.sections) /\ Fits(l, r)
    BY <2>0, <2>3, <2>4, <2>5, RenderedFits DEF SnapInv, SnapTyped
  <2>7. 0 \in call.frames => call.sections = <<>>
    <3>1. 1 \in 1..Len(call.sections) \/ call.sections = <<>> BY <2>5, <2>3
    <3> QED BY <3>1, <2>2
  <2>8. CASE call' = [call EXCEPT !.pc = "fallback"] /\ registry' = registry
    <3>1. call'.pc = "fallback" BY <2>8 DEF SnapInv, SnapTyped
    <3>2. SnapTyped' BY <2>1, <2>8 DEF SnapInv, SnapTyped
    <3> QED BY <3>1, <3>2 DEF SnapInv, ShownFit, SectionsFit
  <2>9. registry' = registry \/ registry' = [registry EXCEPT ![f] = r] BY <2>1
  <2>10. DOMAIN registry' = Snap!Frames /\ \A g \in Snap!Frames : IsRegistry(registry'[g])
    BY <2>9, <2>6, <2>3 DEF SnapInv, SnapTyped
  <2>11. registry'[0].prefix = 0
    <3>1. CASE f # 0 BY <2>9, <3>1, <1>0 DEF SnapInv, SnapTyped
    <3>2. CASE f = 0 BY <2>9, <2>7, <2>6, <2>5, <3>2, <1>0 DEF SnapInv, SnapTyped
    <3> QED BY <3>1, <3>2
  <2>12. \A l \in call.lines : l.frame \in Snap!Frames /\ Fits(l, registry'[l.frame])
    <3>1. ASSUME NEW l \in call.lines PROVE l.frame \in Snap!Frames /\ l.frame # f
      <4>1. l.uid[1] + 1 \in 1..Len(call.sections) BY <2>2, <2>3
      <4> QED BY <4>1, <2>2
    <3> QED BY <3>1, <2>9, <2>2 DEF SnapInv, SnapTyped
  <2>13. CASE call' = skipped /\ call.sections # <<>>
    <3>1. call' = [pc |-> "frames", frames |-> rest, sections |-> call.sections,
                   lines |-> call.lines, uid |-> call.uid]
      BY <2>13, <2>1 DEF SnapInv, SnapTyped, skipped
    <3>2. SnapTyped' BY <3>1, <2>1, <2>10, <2>11 DEF SnapInv, SnapTyped
    <3>3. ShownFit' BY <3>1 DEF ShownFit
    <3>4. SectionsFit' BY <3>1, <2>2, <2>12, <2>13 DEF SectionsFit
    <3> QED BY <3>2, <3>3, <3>4 DEF SnapInv
  <2>14. CASE call' = entered /\ registry' = [registry EXCEPT ![f] = r]
    <3> DEFINE ss == Append(call.sections, f)
               ls == call.lines \cup Snap!Lines(f, r)
    <3>1. call' = [pc |-> "frames", frames |-> rest, sections |-> ss, lines |-> ls,
                   uid |-> call.uid]
      BY <2>14, <2>1 DEF SnapInv, SnapTyped, entered
    <3>2. /\ ss \in Seq(Snap!Frames) /\ Len(ss) = Len(call.sections) + 1 /\ ss # <<>>
          /\ ss[Len(call.sections) + 1] = f
          /\ \A i \in 1..Len(call.sections) : ss[i] = call.sections[i]
      <4>1. call.sections \in Seq(Snap!Frames) /\ f \in Snap!Frames BY <2>2, <2>3
      <4> QED BY <4>1, AppendProperties
    <3>3. ss[1] = 0
      <4>1. CASE call.sections = <<>> BY <4>1, <2>4, <2>5, <3>2
      <4>2. CASE call.sections # <<>>
        <5>1. 1 \in 1..Len(call.sections) BY <4>2, <2>3, <2>5
        <5> QED BY <5>1, <4>2, <2>2, <3>2
      <4> QED BY <4>1, <4>2
    <3>4. registry'[f] = r BY <2>14, <2>3 DEF SnapInv, SnapTyped
    <3>5. ASSUME NEW l \in ls
          PROVE /\ l.uid[1] \in 0..(Len(ss) - 1) /\ ss[l.uid[1] + 1] = l.frame
                /\ Fits(l, registry'[l.frame])
      <4>1. CASE l \in call.lines
        <5>1. l.uid[1] + 1 \in 1..Len(call.sections) BY <4>1, <2>2, <2>3
        <5> QED BY <5>1, <4>1, <2>2, <2>12, <3>2, <2>3
      <4>2. CASE l \in Snap!Lines(f, r) BY <4>2, <2>6, <3>2, <3>4, <2>3
      <4> QED BY <4>1, <4>2
    <3>6. \A i \in 1..Len(ss) : ss[i] \notin rest BY <3>2, <2>2, <2>3
    <3> HIDE DEF ss, ls
    <3>7. SnapTyped' BY <3>1, <2>1, <2>10, <2>11 DEF SnapInv, SnapTyped
    <3>8. ShownFit' BY <3>1 DEF ShownFit
    <3>9. SectionsFit' BY <3>1, <3>2, <3>3, <3>5, <3>6, <2>2 DEF SectionsFit
    <3> QED BY <3>7, <3>8, <3>9 DEF SnapInv
  <2> QED BY <2>1, <2>4, <2>8, <2>13, <2>14
<1> QED BY <1>1, <1>2, <1>3, <1>4, <1>5

\* The other tools.
LEMMA ToolsKeepUids ==
  ASSUME SnapInv,
         \/ \E e \in Elements : Snap!Find(e)
         \/ \E l \in shown : Snap!Act(l.uid)
         \/ \E n \in 1..2 : Snap!ActAndObserve(n)
         \/ Snap!ActFails \/ Snap!FrameOverlay
  PROVE SnapInv'
<1>0. 0 \in Snap!Frames BY Bounds DEF Snap!FrameBound, Snap!Frames
<1>1. ASSUME NEW e \in Elements, Snap!Find(e) PROVE SnapInv'
  <2>0. PICK r : r = Snap!RegisterUid(registry[0], e) OBVIOUS
  <2>1. /\ call.pc = "idle" /\ registry' = [registry EXCEPT ![0] = r]
        /\ shown' = shown \cup {l \in Snap!Lines(0, registry'[0]) : l.element = e}
        /\ UNCHANGED <<dom, present, agents, frameIds, call>>
    BY <1>1, <2>0 DEF Snap!Find, Snap!Idle
  <2>2. IsRegistry(registry[0]) /\ registry[0].prefix = 0 BY <1>0 DEF SnapInv, SnapTyped
  <2>3. /\ IsRegistry(r) /\ r.prefix = 0
        /\ \A l : Fits(l, registry[0]) => Fits(l, r)
        /\ \A l \in Snap!Lines(0, r) : l.frame = 0 /\ l.uid[1] = 0 /\ Fits(l, r)
    BY <2>0, <2>2, RegisteredFits
  <2>4. registry'[0] = r BY <2>1, <1>0 DEF SnapInv, SnapTyped
  <2>5. SnapTyped' BY <2>1, <2>3, <1>0 DEF SnapInv, SnapTyped
  <2>6. ASSUME NEW l \in shown', l.by = "listing"
        PROVE /\ l.frame \in Snap!Frames /\ Fits(l, registry'[l.frame])
              /\ Snap!FrameFor(l.uid) \subseteq {l.frame}
    <3>1. CASE l \in shown
      <4>1. /\ l.frame \in Snap!Frames /\ Fits(l, registry[l.frame])
            /\ Snap!FrameFor(l.uid) \subseteq {l.frame}
        BY <3>1, <2>6, <2>1 DEF SnapInv, ShownFit
      <4>2. CASE l.frame = 0 BY <4>1, <4>2, <2>3, <2>4
      <4>3. CASE l.frame # 0 BY <4>1, <4>3, <2>1 DEF SnapInv, SnapTyped
      <4> QED BY <4>1, <4>2, <4>3
    <3>2. CASE l \in Snap!Lines(0, r) BY <3>2, <2>3, <2>4, <1>0 DEF Snap!FrameFor
    <3> QED BY <3>1, <3>2, <2>6, <2>1, <2>4
  <2>7. ShownFit' BY <2>6, <2>1 DEF ShownFit, Snap!FrameFor
  <2>8. SectionsFit' BY <2>1 DEF SectionsFit
  <2> QED BY <2>5, <2>7, <2>8 DEF SnapInv
<1>2. ASSUME NEW u, Snap!Act(u) PROVE SnapInv'
  <2>1. /\ call.pc = "idle" /\ call' = [Snap!Rest EXCEPT !.pc = "acting", !.uid = u]
        /\ UNCHANGED <<dom, present, agents, registry, frameIds, shown>>
    BY <1>2 DEF Snap!Act, Snap!Goes, Snap!Idle
  <2>2. SnapTyped' BY <2>1 DEF SnapInv, SnapTyped, Snap!Rest
  <2>3. ShownFit' BY <2>1 DEF SnapInv, ShownFit, Snap!FrameFor
  <2>4. SectionsFit' BY <2>1 DEF SectionsFit, Snap!Rest
  <2> QED BY <2>2, <2>3, <2>4 DEF SnapInv
<1>3. ASSUME Snap!ActFails PROVE SnapInv'
  <2>1. /\ call.pc = "acting" /\ call' = Snap!Rest
        /\ UNCHANGED <<dom, present, agents, registry, frameIds, shown>>
    BY <1>3 DEF Snap!ActFails, Snap!Goes
  <2>2. SnapTyped' BY <2>1 DEF SnapInv, SnapTyped, Snap!Rest
  <2>3. ShownFit' BY <2>1 DEF SnapInv, ShownFit, Snap!FrameFor
  <2>4. SectionsFit' BY <2>1 DEF SectionsFit, Snap!Rest
  <2> QED BY <2>2, <2>3, <2>4 DEF SnapInv
<1>4. ASSUME NEW n \in 1..2, Snap!ActAndObserve(n) PROVE SnapInv'
  <2>0. PICK r : r = Snap!RenderSnapshotLines(0, 0, n) OBVIOUS
  <2>1. /\ call.pc = "acting" /\ registry' = [registry EXCEPT ![0] = r]
        /\ shown' = {l \in shown : l.uid[1] # 0} \cup Snap!Lines(0, r)
        /\ call' = Snap!Rest
        /\ UNCHANGED <<dom, present, agents, frameIds>>
    BY <1>4, <2>0 DEF Snap!ActAndObserve, Snap!Goes, Snap!FrameLines
  <2>2. /\ IsRegistry(r) /\ r.prefix = 0
        /\ \A l \in Snap!Lines(0, r) : l.frame = 0 /\ l.uid[1] = 0 /\ Fits(l, r)
    BY <2>0, <1>0, RenderedFits DEF SnapInv, SnapTyped
  <2>3. SnapTyped' BY <2>1, <2>2, <1>0 DEF SnapInv, SnapTyped, Snap!Rest
  <2>4. SectionsFit' BY <2>1 DEF SectionsFit, Snap!Rest
  <2>5. registry'[0] = r BY <2>1, <1>0 DEF SnapInv, SnapTyped
  <2>6. ASSUME NEW l \in shown', l.by = "listing"
        PROVE /\ l.frame \in Snap!Frames /\ Fits(l, registry'[l.frame])
              /\ Snap!FrameFor(l.uid) \subseteq {l.frame}
    <3>1. CASE l \in shown /\ l.uid[1] # 0
      <4>1. /\ l.frame \in Snap!Frames /\ Fits(l, registry[l.frame])
            /\ Snap!FrameFor(l.uid) \subseteq {l.frame}
        BY <3>1, <2>6, <2>1 DEF SnapInv, ShownFit
      <4>2. CASE l.frame = 0 BY <4>1, <4>2, <3>1, <2>2, <2>5 DEF Fits
      <4>3. CASE l.frame # 0 BY <4>1, <4>3, <2>1 DEF SnapInv, SnapTyped
      <4> QED BY <4>1, <4>2, <4>3
    <3>2. CASE l \in Snap!Lines(0, r) BY <3>2, <2>2, <2>5, <1>0 DEF Snap!FrameFor
    <3> QED BY <3>1, <3>2, <2>6, <2>1
  <2>7. ShownFit' BY <2>6, <2>1 DEF ShownFit, Snap!FrameFor
  <2> QED BY <2>3, <2>4, <2>7 DEF SnapInv
<1>5. ASSUME Snap!FrameOverlay PROVE SnapInv'
  <2>1. /\ call.pc = "idle" /\ agents' = present
        /\ UNCHANGED <<dom, present, registry, frameIds, call>>
    BY <1>5 DEF Snap!FrameOverlay, Snap!Idle
  <2>2. \A l \in shown' : l.by = "listing" => l \in shown
    <3>1. ASSUME NEW f \in present, NEW l \in Snap!Given(f, registry[f], "label")
          PROVE l.by = "label"
      BY <3>1 DEF Snap!Given
    <3> QED BY <3>1, <1>5 DEF Snap!FrameOverlay
  <2>3. SnapTyped' BY <2>1 DEF SnapInv, SnapTyped
  <2>4. ShownFit' BY <2>1, <2>2 DEF SnapInv, ShownFit, Snap!FrameFor
  <2>5. SectionsFit' BY <2>1 DEF SectionsFit
  <2> QED BY <2>3, <2>4, <2>5 DEF SnapInv
<1> QED BY <1>1, <1>2, <1>3, <1>4, <1>5

\* However the frames of a page come, go, reload and stay empty, whichever snapshots
\* fail half way, a uid the agent was given by a listing means the element it was given
\* for, or nothing.
THEOREM UidsAreKept == Spec => []UidsMeanWhatWasShown
<1>1. Init => SnapInv BY SnapInit DEF Init
<1>2. ASSUME SnapInv, [Next]_extensionVars PROVE SnapInv'
  <2>1. CASE UNCHANGED snapPart
    BY <2>1, <1>2 DEF snapPart, SnapInv, SnapTyped, ShownFit, SectionsFit, Snap!FrameFor
  <2>2. CASE Snap!Next
    BY <2>2, <1>2, PageKeepsUids, SnapshotsKeepUids, ToolsKeepUids DEF Snap!Next
  <2> QED BY <2>1, <2>2, <1>2 DEF Next, extensionVars
<1>3. SnapInv => UidsMeanWhatWasShown
  <2>1. ASSUME SnapInv, call.pc \in {"idle", "acting"}, NEW l \in shown, l.by = "listing"
        PROVE Snap!Target(l.uid) \subseteq {<<l.frame, l.element>>}
    <3>1. l.frame \in Snap!Frames /\ Fits(l, registry[l.frame])
          /\ Snap!FrameFor(l.uid) \subseteq {l.frame}
      BY <2>1 DEF SnapInv, ShownFit
    <3>2. Snap!ResolveUid(l.frame, l.uid) \subseteq {<<l.frame, l.element>>}
      BY <3>1 DEF Snap!ResolveUid, Fits
    <3> QED BY <3>1, <3>2 DEF Snap!Target
  <2> QED BY <2>1 DEF UidsMeanWhatWasShown, Snap!UidsMeanWhatWasShown
<1> QED BY <1>1, <1>2, <1>3, PTL DEF Spec

-----------------------------------------------------------------------------
(***************************************************************************)
(* Picks and patches.  The names of entries are of no account, so that any *)
(* set N of them will do.                                                  *)
(***************************************************************************)
Selectors == {SelectorOf[e] : e \in Elems}
Entries(N) ==
  {e \in [id : Nat, el : Elems, sel : Selectors, name : N] : SelectorOf[e.el] = e.sel}

\* A canvas has these parts and no other.
IsCanvas(p) ==
  DOMAIN p = {"entries", "primary", "visible", "markers", "patches", "styles", "picks", "patched"}

\* What operations on a canvas preserve: entries whose element has their selector, a
\* marker only of an entry and only while they are shown, a style only of a patch.
Sound(p) ==
  /\ IsCanvas(p)
  /\ \E N : p.entries \in Seq(Entries(N))
  /\ p.picks \in Nat
  /\ \A m \in p.markers : \E i \in DOMAIN p.entries : p.entries[i].id = m
  /\ p.markers # {} => p.visible
  /\ p.styles \subseteq p.patches

\* The primary selection is of the last entry.
PrimaryIsLast(p) ==
  /\ p.entries = <<>> => p.primary = Des!NoPick
  /\ p.entries # <<>> =>
       \E x \in Elems : /\ SelectorOf[x] = p.entries[Len(p.entries)].sel
                        /\ p.primary.el = {x} /\ p.primary.sel = {SelectorOf[x]}

CanvasOk(p) == Sound(p) /\ PrimaryIsLast(p)
DesignInv == CanvasOk(canvas) /\ alive \subseteq Elems

\* An entry that is looked up again stays one, of the same id and selector.
LEMMA SyncedEntry ==
  ASSUME alive \subseteq Elems, NEW N, NEW e \in Entries(N)
  PROVE /\ Des!SyncSelectedEntry(e) \in Entries(N)
        /\ Des!SyncSelectedEntry(e).id = e.id /\ Des!SyncSelectedEntry(e).sel = e.sel
<1>1. CASE e.el \in alive \/ Des!Found(e.sel) = {} BY <1>1 DEF Des!SyncSelectedEntry
<1>2. CASE ~(e.el \in alive \/ Des!Found(e.sel) = {})
  <2>1. PICK x \in Des!Found(e.sel) : x = CHOOSE y \in Des!Found(e.sel) : TRUE BY <1>2
  <2>2. x \in Elems /\ SelectorOf[x] = e.sel BY <2>1 DEF Des!Found
  <2>3. Des!SyncSelectedEntry(e) = [e EXCEPT !.el = x] BY <1>2, <2>1 DEF Des!SyncSelectedEntry
  <2> QED BY <2>2, <2>3 DEF Entries
<1> QED BY <1>1, <1>2

\* A canvas whose entries are replaced one by one by others of the same id and selector.
LEMMA EntriesReplaced ==
  ASSUME NEW p, Sound(p), NEW N, NEW es, DOMAIN es = DOMAIN p.entries,
         es = [i \in DOMAIN p.entries |-> es[i]],
         \A i \in DOMAIN p.entries :
           es[i] \in Entries(N) /\ es[i].id = p.entries[i].id /\ es[i].sel = p.entries[i].sel
  PROVE /\ Sound([p EXCEPT !.entries = es])
        /\ es \in Seq(Entries(N)) /\ Len(es) = Len(p.entries)
        /\ PrimaryIsLast(p) => PrimaryIsLast([p EXCEPT !.entries = es])
<1>0. IsCanvas(p) BY DEF Sound
<1>1. PICK M : p.entries \in Seq(Entries(M)) BY DEF Sound
<1>2. DOMAIN p.entries = 1..Len(p.entries) /\ Len(p.entries) \in Nat BY <1>1
<1>3. es \in [1..Len(p.entries) -> Entries(N)] BY <1>2
<1>4. es \in Seq(Entries(N)) BY <1>2, <1>3, SeqDef
<1>5. Len(es) = Len(p.entries) BY <1>2, <1>4
<1> DEFINE q == [p EXCEPT !.entries = es]
<1>6. /\ IsCanvas(q) /\ q.entries = es /\ q.primary = p.primary /\ q.visible = p.visible
      /\ q.markers = p.markers /\ q.patches = p.patches /\ q.styles = p.styles
      /\ q.picks = p.picks /\ q.patched = p.patched
  BY <1>0 DEF IsCanvas
<1> HIDE DEF q
<1>7. Sound(q)
  <2>1. ASSUME NEW m \in q.markers PROVE \E j \in DOMAIN es : es[j].id = m
    <3>1. PICK j \in DOMAIN p.entries : p.entries[j].id = m BY <2>1, <1>6 DEF Sound
    <3> QED BY <3>1
  <2>2. q.picks \in Nat /\ (q.markers # {} => q.visible) /\ q.styles \subseteq q.patches
    BY <1>6 DEF Sound
  <2> QED BY <2>1, <2>2, <1>4, <1>6 DEF Sound
<1>8. ASSUME PrimaryIsLast(p) PROVE PrimaryIsLast(q)
  <2>1. es = <<>> <=> p.entries = <<>> BY <1>1, <1>4, <1>5
  <2>2. CASE p.entries = <<>> BY <2>1, <2>2, <1>6, <1>8 DEF PrimaryIsLast
  <2>3. CASE p.entries # <<>>
    <3>1. Len(p.entries) \in DOMAIN p.entries BY <2>3, <1>1
    <3>2. es[Len(es)].sel = p.entries[Len(p.entries)].sel BY <3>1, <1>5
    <3> QED BY <3>2, <2>1, <2>3, <1>6, <1>8 DEF PrimaryIsLast
  <2> QED BY <2>2, <2>3
<1> QED BY <1>4, <1>5, <1>7, <1>8 DEF q

\* syncPrimarySelection makes the last entry the primary one.
LEMMA PrimarySynced ==
  ASSUME alive \subseteq Elems, NEW p, Sound(p)
  PROVE CanvasOk(Des!SyncPrimarySelection(p))
<1>0. IsCanvas(p) BY DEF Sound
<1>1. PICK N : p.entries \in Seq(Entries(N)) BY DEF Sound
<1>2. CASE p.entries = <<>>
  <2> DEFINE q == [p EXCEPT !.primary = Des!NoPick]
  <2>1. /\ IsCanvas(q) /\ q.entries = p.entries /\ q.primary = Des!NoPick /\ q.visible = p.visible
        /\ q.markers = p.markers /\ q.patches = p.patches /\ q.styles = p.styles
        /\ q.picks = p.picks /\ q.patched = p.patched
    BY <1>0 DEF IsCanvas
  <2>2. Des!SyncPrimarySelection(p) = q BY <1>2 DEF Des!SyncPrimarySelection
  <2> HIDE DEF q
  <2>3. Sound(q) BY <2>1 DEF Sound
  <2> QED BY <2>1, <2>2, <2>3, <1>2 DEF CanvasOk, PrimaryIsLast
<1>3. CASE p.entries # <<>>
  <2> DEFINE n == Len(p.entries)
  <2>1. n \in Nat /\ n \in 1..n /\ DOMAIN p.entries = 1..n BY <1>1, <1>3
  <2>2. PICK e : e = Des!SyncSelectedEntry(p.entries[n]) OBVIOUS
  <2>3. e \in Entries(N) /\ e.id = p.entries[n].id /\ e.sel = p.entries[n].sel
    BY <2>1, <2>2, <1>1, SyncedEntry
  <2> DEFINE es == [p.entries EXCEPT ![n] = e]
             k == [el |-> {e.el}, sel |-> {e.sel}]
             q == [p EXCEPT !.entries = es]
             z == [p EXCEPT !.entries[n] = e, !.primary = k]
  <2>4. Des!SyncPrimarySelection(p) = z BY <1>3, <2>2 DEF Des!SyncPrimarySelection, Des!Last
  <2>5. /\ DOMAIN es = DOMAIN p.entries /\ es = [i \in DOMAIN p.entries |-> es[i]]
        /\ \A i \in DOMAIN p.entries :
             es[i] \in Entries(N) /\ es[i].id = p.entries[i].id /\ es[i].sel = p.entries[i].sel
    BY <1>1, <2>1, <2>3
  <2>6. es[n] = e BY <2>1
  <2> HIDE DEF es
  <2>7. Sound(q) /\ es \in Seq(Entries(N)) /\ Len(es) = n BY <2>5, EntriesReplaced
  <2>8. /\ IsCanvas(z) /\ z.entries = es /\ z.primary = k /\ z.visible = p.visible
        /\ z.markers = p.markers /\ z.patches = p.patches /\ z.styles = p.styles
        /\ z.picks = p.picks /\ z.patched = p.patched
    BY <1>0 DEF IsCanvas, es
  <2>9. /\ IsCanvas(q) /\ q.entries = es /\ q.primary = p.primary /\ q.visible = p.visible
        /\ q.markers = p.markers /\ q.patches = p.patches /\ q.styles = p.styles
        /\ q.picks = p.picks /\ q.patched = p.patched
    BY <1>0 DEF IsCanvas
  <2> HIDE DEF q, z
  <2>10. Sound(z) BY <2>7, <2>8, <2>9 DEF Sound
  <2>11. es # <<>> BY <2>1, <2>7
  <2>12. PrimaryIsLast(z)
    <3>1. e.el \in Elems /\ SelectorOf[e.el] = e.sel BY <2>3 DEF Entries
    <3>2. z.entries = es /\ z.primary.el = {e.el} /\ z.primary.sel = {e.sel} BY <2>8
    <3> QED BY <3>1, <3>2, <2>6, <2>7, <2>11 DEF PrimaryIsLast
  <2> QED BY <2>4, <2>10, <2>12 DEF CanvasOk
<1> QED BY <1>2, <1>3

\* showMarkerForEntry keeps a canvas sound whose markers are shown.
LEMMA MarkersShown ==
  ASSUME alive \subseteq Elems, NEW p, NEW ids, Sound(p), p.visible
  PROVE Sound(Des!ShowMarkers(p, ids))
<1>0. IsCanvas(p) BY DEF Sound
<1>1. PICK N : p.entries \in Seq(Entries(N)) BY DEF Sound
<1> DEFINE es == [i \in DOMAIN p.entries |-> IF p.entries[i].id \in ids
                                             THEN Des!SyncSelectedEntry(p.entries[i])
                                             ELSE p.entries[i]]
           q == [p EXCEPT !.entries = es]
           new == {e.id : e \in {x \in Des!ToSet(q.entries) : x.id \in ids /\ x.el \in alive}}
           z == [q EXCEPT !.markers = q.markers \cup new]
<1>2. Des!ShowMarkers(p, ids) = z BY DEF Des!ShowMarkers
<1>3. /\ DOMAIN es = DOMAIN p.entries /\ es = [i \in DOMAIN p.entries |-> es[i]]
      /\ \A i \in DOMAIN p.entries :
           es[i] \in Entries(N) /\ es[i].id = p.entries[i].id /\ es[i].sel = p.entries[i].sel
  <2>1. \A i \in DOMAIN p.entries : p.entries[i] \in Entries(N) BY <1>1
  <2> QED BY <2>1, SyncedEntry
<1> HIDE DEF es
<1>4. Sound(q) BY <1>3, EntriesReplaced
<1>5. q.entries = es /\ q.visible = p.visible BY <1>0 DEF IsCanvas
<1> HIDE DEF q
<1>6. \A m \in new : \E i \in DOMAIN q.entries : q.entries[i].id = m BY DEF Des!ToSet
<1> HIDE DEF new
<1>7. /\ IsCanvas(z) /\ z.entries = q.entries /\ z.primary = q.primary /\ z.visible = q.visible
      /\ z.markers = q.markers \cup new /\ z.patches = q.patches /\ z.styles = q.styles
      /\ z.picks = q.picks /\ z.patched = q.patched
  <2>1. IsCanvas(q) BY <1>4 DEF Sound
  <2> QED BY <2>1 DEF IsCanvas
<1> HIDE DEF z
<1>8. Sound(z) BY <1>4, <1>5, <1>6, <1>7 DEF Sound
<1> QED BY <1>2, <1>8

\* Clearing leaves nothing, hiding leaves no marker.
LEMMA ClearedAndHidden ==
  ASSUME NEW p, Sound(p)
  PROVE /\ CanvasOk(Des!ClearSelectedElements(p))
        /\ PrimaryIsLast(p) => CanvasOk(Des!HideSelectedElementMarker(p))
        /\ Des!ClearSelectedElements(p).visible = p.visible
        /\ Des!ClearSelectedElements(p).picks = p.picks
<1>0. IsCanvas(p) BY DEF Sound
<1>1. CanvasOk(Des!ClearSelectedElements(p))
      /\ Des!ClearSelectedElements(p).visible = p.visible
      /\ Des!ClearSelectedElements(p).picks = p.picks
  <2> DEFINE q == [p EXCEPT !.markers = {}, !.entries = <<>>, !.primary = Des!NoPick]
  <2>0. PICK es : es = <<>> OBVIOUS
  <2>1. /\ IsCanvas(q) /\ q.entries = es /\ q.primary = Des!NoPick /\ q.visible = p.visible
        /\ q.markers = {} /\ q.patches = p.patches /\ q.styles = p.styles
        /\ q.picks = p.picks /\ q.patched = p.patched
    BY <1>0, <2>0 DEF IsCanvas
  <2>2. Des!ClearSelectedElements(p) = q BY DEF Des!ClearSelectedElements
  <2> HIDE DEF q
  <2>3. es \in Seq(Entries({})) BY <2>0
  <2> QED BY <2>0, <2>1, <2>2, <2>3 DEF Sound, CanvasOk, PrimaryIsLast
<1>2. ASSUME PrimaryIsLast(p) PROVE CanvasOk(Des!HideSelectedElementMarker(p))
  <2> DEFINE q == [p EXCEPT !.visible = FALSE, !.markers = {}]
  <2>1. /\ IsCanvas(q) /\ q.entries = p.entries /\ q.primary = p.primary /\ ~q.visible
        /\ q.markers = {} /\ q.patches = p.patches /\ q.styles = p.styles
        /\ q.picks = p.picks /\ q.patched = p.patched
    BY <1>0 DEF IsCanvas
  <2>2. Des!HideSelectedElementMarker(p) = q BY DEF Des!HideSelectedElementMarker
  <2> HIDE DEF q
  <2> QED BY <2>1, <2>2, <1>2 DEF Sound, CanvasOk, PrimaryIsLast
<1> QED BY <1>1, <1>2

\* Looking all entries up again keeps the canvas as it should be.
LEMMA AllSynced ==
  ASSUME alive \subseteq Elems, NEW p, CanvasOk(p)
  PROVE CanvasOk(Des!SyncAll(p))
<1>1. PICK N : p.entries \in Seq(Entries(N)) BY DEF CanvasOk, Sound
<1> DEFINE es == [i \in DOMAIN p.entries |-> Des!SyncSelectedEntry(p.entries[i])]
<1>2. Des!SyncAll(p) = [p EXCEPT !.entries = es] BY DEF Des!SyncAll
<1>3. /\ DOMAIN es = DOMAIN p.entries /\ es = [i \in DOMAIN p.entries |-> es[i]]
      /\ \A i \in DOMAIN p.entries :
           es[i] \in Entries(N) /\ es[i].id = p.entries[i].id /\ es[i].sel = p.entries[i].sel
  <2>1. \A i \in DOMAIN p.entries : p.entries[i] \in Entries(N) BY <1>1
  <2> QED BY <2>1, SyncedEntry
<1>4. Sound(p) /\ PrimaryIsLast(p) BY DEF CanvasOk
<1> HIDE DEF es
<1>5. Sound([p EXCEPT !.entries = es]) BY <1>3, <1>4, EntriesReplaced
<1>6. PrimaryIsLast([p EXCEPT !.entries = es]) BY <1>3, <1>4, EntriesReplaced
<1> QED BY <1>2, <1>5, <1>6 DEF CanvasOk

\* Showing the markers does too.
LEMMA ShownSynced ==
  ASSUME alive \subseteq Elems, NEW p, CanvasOk(p), NEW v
  PROVE /\ CanvasOk(Des!ShowSelectedElementMarker(p))
        /\ CanvasOk(Des!SetSelectedMarkersVisible(p, v))
<1>0. IsCanvas(p) BY DEF CanvasOk, Sound
<1> DEFINE q == [p EXCEPT !.visible = TRUE]
<1>1. /\ IsCanvas(q) /\ q.entries = p.entries /\ q.primary = p.primary /\ q.visible
      /\ q.markers = p.markers /\ q.patches = p.patches /\ q.styles = p.styles
      /\ q.picks = p.picks /\ q.patched = p.patched
  BY <1>0 DEF IsCanvas
<1> HIDE DEF q
<1>2. Sound(q) /\ q.visible BY <1>1 DEF CanvasOk, Sound
<1>3. CanvasOk(Des!SyncPrimarySelection(Des!ShowMarkers(q, Des!Ids(p))))
  BY <1>2, MarkersShown, PrimarySynced
<1>4. CanvasOk(Des!ShowSelectedElementMarker(p)) BY <1>3 DEF Des!ShowSelectedElementMarker, q
<1>5. CanvasOk(Des!HideSelectedElementMarker(p)) BY ClearedAndHidden DEF CanvasOk
<1> QED BY <1>4, <1>5 DEF Des!SetSelectedMarkersVisible

\* setSelectedElement: one more entry, the primary one, or the only one.
LEMMA ElementSelected ==
  ASSUME alive \subseteq Elems, NEW p, CanvasOk(p), NEW x \in Elems, NEW append
  PROVE CanvasOk(Des!SetSelectedElement(p, x, append))
<1> DEFINE spared == IF append THEN p ELSE Des!ClearSelectedElements(p)
<1>1. Sound(spared) /\ spared.visible = p.visible /\ spared.picks = p.picks
  <2>1. Sound(p) BY DEF CanvasOk
  <2>2. /\ Sound(Des!ClearSelectedElements(p))
        /\ Des!ClearSelectedElements(p).visible = p.visible
        /\ Des!ClearSelectedElements(p).picks = p.picks
    BY <2>1, ClearedAndHidden DEF CanvasOk
  <2> QED BY <2>1, <2>2
<1>2. p.picks \in Nat BY DEF CanvasOk, Sound
<1> DEFINE next == [spared EXCEPT !.picks = p.picks + 1,
                      !.entries = Append(spared.entries,
                                         [id |-> p.picks + 1, el |-> x, sel |-> SelectorOf[x],
                                          name |-> "none"])]
<1>3. Des!SetSelectedElement(p, x, append)
        = Des!SyncPrimarySelection(IF p.visible THEN Des!ShowMarkers(next, {p.picks + 1})
                                   ELSE next)
  BY DEF Des!SetSelectedElement
<1> HIDE DEF spared
<1>4. PICK N : spared.entries \in Seq(Entries(N)) BY <1>1 DEF Sound
<1>5. spared.entries \in Seq(Entries(N \cup {"none"}))
  <2>1. DOMAIN spared.entries = 1..Len(spared.entries) /\ Len(spared.entries) \in Nat
        /\ spared.entries \in [1..Len(spared.entries) -> Entries(N)]
    BY <1>4
  <2>2. \A e \in Entries(N) : e \in Entries(N \cup {"none"}) BY DEF Entries
  <2>3. spared.entries \in [1..Len(spared.entries) -> Entries(N \cup {"none"})] BY <2>1, <2>2
  <2> QED BY <2>1, <2>3, SeqDef
<1>6. PICK e : e = [id |-> p.picks + 1, el |-> x, sel |-> SelectorOf[x], name |-> "none"]
  OBVIOUS
<1>7. e \in Entries(N \cup {"none"}) BY <1>2, <1>6 DEF Entries, Selectors
<1>8. PICK es : es = Append(spared.entries, e) OBVIOUS
<1>9. /\ es \in Seq(Entries(N \cup {"none"})) /\ Len(es) = Len(spared.entries) + 1
      /\ \A i \in 1..Len(spared.entries) : es[i] = spared.entries[i]
  BY <1>5, <1>7, <1>8, AppendProperties
<1>10. /\ IsCanvas(next) /\ next.entries = es /\ next.picks = p.picks + 1
       /\ next.visible = spared.visible /\ next.markers = spared.markers
       /\ next.styles = spared.styles /\ next.patches = spared.patches
  <2>1. IsCanvas(spared) BY <1>1 DEF Sound
  <2> QED BY <2>1, <1>6, <1>8 DEF IsCanvas
<1> HIDE DEF next
<1>11. Sound(next)
  <2>1. ASSUME NEW m \in next.markers PROVE \E j \in DOMAIN es : es[j].id = m
    <3>1. PICK j \in DOMAIN spared.entries : spared.entries[j].id = m BY <2>1, <1>1, <1>10 DEF Sound
    <3>2. DOMAIN spared.entries = 1..Len(spared.entries) /\ Len(spared.entries) \in Nat BY <1>4
    <3>3. j \in DOMAIN es BY <1>9, <3>1, <3>2
    <3> QED BY <3>1, <3>2, <3>3, <1>9
  <2>2. /\ next.picks \in Nat /\ (next.markers # {} => next.visible)
        /\ next.styles \subseteq next.patches
    BY <1>1, <1>2, <1>10 DEF Sound
  <2> QED BY <2>1, <2>2, <1>9, <1>10 DEF Sound
<1>12. p.visible => Sound(Des!ShowMarkers(next, {p.picks + 1}))
  BY <1>1, <1>10, <1>11, MarkersShown
<1>13. Sound(IF p.visible THEN Des!ShowMarkers(next, {p.picks + 1}) ELSE next) BY <1>11, <1>12
<1> QED BY <1>3, <1>13, PrimarySynced

\* Taking one entry out, with its marker.
LEMMA EntryRemoved ==
  ASSUME alive \subseteq Elems, NEW p, CanvasOk(p), NEW id
  PROVE CanvasOk(Des!RemoveSelectedElement(p, id))
<1>0. Sound(p) /\ IsCanvas(p) BY DEF CanvasOk, Sound
<1>1. CASE id \notin Des!Ids(p) BY <1>1 DEF Des!RemoveSelectedElement
<1>2. CASE id \in Des!Ids(p)
  <2>1. PICK N : p.entries \in Seq(Entries(N)) BY <1>0 DEF Sound
  <2>2. PICK n : n = Len(p.entries) OBVIOUS
  <2>3. n \in Nat /\ DOMAIN p.entries = 1..n BY <2>1, <2>2
  <2>4. PICK k : k = Des!IndexOf(p, id) OBVIOUS
  <2>5. k \in DOMAIN p.entries /\ p.entries[k].id = id
    <3>1. \E j \in DOMAIN p.entries : p.entries[j].id = id BY <1>2 DEF Des!Ids, Des!ToSet
    <3> QED BY <3>1, <2>4 DEF Des!IndexOf
  <2>6. PICK l : l = SubSeq(p.entries, 1, k - 1) OBVIOUS
  <2>7. PICK r : r = SubSeq(p.entries, k + 1, n) OBVIOUS
  <2> DEFINE S == Entries(N)
  <2>8. \A i \in 1..n : p.entries[i] \in S BY <2>1, <2>3, ElementOfSeq
  <2> HIDE DEF S
  <2>9. /\ l \in Seq(S) /\ Len(l) = k - 1 /\ \A i \in 1..(k - 1) : l[i] = p.entries[i]
    <3>1. \A i \in 1..(k - 1) : p.entries[i] \in S BY <2>3, <2>5, <2>8
    <3> QED BY <3>1, <2>3, <2>5, <2>6
  <2>10. /\ r \in Seq(S) /\ Len(r) = n - k /\ \A i \in 1..(n - k) : r[i] = p.entries[k + i]
    <3>1. \A i \in (k + 1)..n : p.entries[i] \in S BY <2>3, <2>5, <2>8
    <3> QED BY <3>1, <2>3, <2>5, <2>7
  <2>11. PICK es : es = l \o r OBVIOUS
  <2>12. /\ es \in Seq(S) /\ Len(es) = Len(l) + Len(r)
         /\ \A i \in 1..(Len(l) + Len(r)) : es[i] = IF i <= Len(l) THEN l[i] ELSE r[i - Len(l)]
    BY ONLY <2>9, <2>10, <2>11, ConcatProperties
  <2>13. DOMAIN es = 1..(n - 1) BY <2>12, <2>9, <2>10, <2>3, <2>5
  <2> DEFINE q == [p EXCEPT !.markers = p.markers \ {id}, !.entries = es]
  <2>14. /\ IsCanvas(q) /\ q.entries = es /\ q.visible = p.visible
         /\ q.markers = p.markers \ {id} /\ q.patches = p.patches /\ q.styles = p.styles
         /\ q.picks = p.picks
    BY <1>0 DEF IsCanvas
  <2>15. Des!RemoveSelectedElement(p, id) = Des!SyncPrimarySelection(q)
    BY <1>2, <2>2, <2>4, <2>6, <2>7, <2>11 DEF Des!RemoveSelectedElement, Des!RemoveAt
  <2> HIDE DEF q
  <2>16. ASSUME NEW m \in q.markers PROVE \E j \in DOMAIN es : es[j].id = m
    <3>1. m \in p.markers /\ m # id BY <2>16, <2>14
    <3>2. PICK j \in DOMAIN p.entries : p.entries[j].id = m BY <3>1, <1>0 DEF Sound
    <3>3. j \in 1..n /\ j # k /\ k \in 1..n BY <3>1, <3>2, <2>3, <2>5
    <3>4. CASE j < k
      <4>1. j \in 1..(k - 1) /\ j \in 1..(n - 1) /\ j \in 1..(Len(l) + Len(r)) /\ j <= Len(l)
        BY <3>3, <3>4, <2>3, <2>9, <2>10
      <4>2. es[j] = p.entries[j] BY <4>1, <2>12, <2>9
      <4> QED BY <4>1, <4>2, <3>2, <2>13
    <3>5. CASE j > k
      <4>1. /\ j - 1 \in 1..(n - 1) /\ j - 1 \in 1..(Len(l) + Len(r)) /\ ~(j - 1 <= Len(l))
            /\ j - 1 - Len(l) = j - k /\ j - k \in 1..(n - k) /\ k + (j - k) = j
        BY <3>3, <3>5, <2>3, <2>9, <2>10
      <4>2. es[j - 1] = r[j - k] BY <4>1, <2>12
      <4>3. es[j - 1] = p.entries[j] BY <4>1, <4>2, <2>10
      <4> QED BY <4>1, <4>3, <3>2, <2>13
    <3> QED BY <3>3, <3>4, <3>5
  <2>17. /\ q.picks \in Nat /\ (q.markers # {} => q.visible) /\ q.styles \subseteq q.patches
    BY <2>14, <1>0 DEF Sound
  <2>18. Sound(q) BY <2>12, <2>14, <2>16, <2>17 DEF Sound, S
  <2> QED BY <2>15, <2>18, PrimarySynced
<1> QED BY <1>1, <1>2

\* Renaming one.
LEMMA EntryRenamed ==
  ASSUME alive \subseteq Elems, NEW p, CanvasOk(p), NEW id, NEW name
  PROVE CanvasOk(Des!SetSelectedElementMeta(p, id, name))
<1>0. Sound(p) BY DEF CanvasOk
<1>1. CASE id \notin Des!Ids(p) BY <1>1 DEF Des!SetSelectedElementMeta
<1>2. CASE id \in Des!Ids(p)
  <2>1. PICK N : p.entries \in Seq(Entries(N)) BY <1>0 DEF Sound
  <2> DEFINE es == [i \in DOMAIN p.entries |-> IF p.entries[i].id = id
                                               THEN [p.entries[i] EXCEPT !.name = name]
                                               ELSE p.entries[i]]
  <2>2. Des!SetSelectedElementMeta(p, id, name)
          = Des!SyncPrimarySelection([p EXCEPT !.entries = es])
    BY <1>2 DEF Des!SetSelectedElementMeta
  <2>3. \A i \in DOMAIN p.entries : p.entries[i] \in Entries(N) BY <2>1
  <2>4. \A e \in Entries(N) : /\ e \in Entries(N \cup {name})
                              /\ [e EXCEPT !.name = name] \in Entries(N \cup {name})
                              /\ [e EXCEPT !.name = name].id = e.id
                              /\ [e EXCEPT !.name = name].sel = e.sel
    BY DEF Entries
  <2>5. /\ DOMAIN es = DOMAIN p.entries /\ es = [i \in DOMAIN p.entries |-> es[i]]
        /\ \A i \in DOMAIN p.entries :
             /\ es[i] \in Entries(N \cup {name})
             /\ es[i].id = p.entries[i].id /\ es[i].sel = p.entries[i].sel
    BY <2>3, <2>4
  <2> HIDE DEF es
  <2>6. Sound([p EXCEPT !.entries = es]) BY <2>5, <1>0, EntriesReplaced
  <2> QED BY <2>2, <2>6, PrimarySynced
<1> QED BY <1>1, <1>2

\* Patches come and go with their style nodes.
LEMMA PatchesKept ==
  ASSUME NEW p, CanvasOk(p), NEW id, NEW sel
  PROVE /\ CanvasOk(Des!AddCssPatch(p, sel))
        /\ CanvasOk(Des!RemoveCssPatch(p, id))
        /\ CanvasOk(Des!ClearCssPatches(p))
<1>0. Sound(p) /\ PrimaryIsLast(p) /\ IsCanvas(p) BY DEF CanvasOk, Sound
<1>1. ASSUME NEW q, IsCanvas(q), q.entries = p.entries, q.primary = p.primary,
             q.visible = p.visible, q.markers = p.markers, q.picks = p.picks,
             q.styles \subseteq q.patches
      PROVE CanvasOk(q)
  <2>1. Sound(q) BY <1>0, <1>1 DEF Sound
  <2>2. PrimaryIsLast(q) BY <1>0, <1>1 DEF PrimaryIsLast
  <2> QED BY <2>1, <2>2 DEF CanvasOk
<1>2. CanvasOk(Des!AddCssPatch(p, sel))
  <2> DEFINE q == [p EXCEPT !.patched = p.patched + 1, !.patches = @ \cup {p.patched + 1},
                            !.styles = @ \cup {p.patched + 1}]
  <2>1. /\ IsCanvas(q) /\ q.entries = p.entries /\ q.primary = p.primary
        /\ q.visible = p.visible /\ q.markers = p.markers /\ q.picks = p.picks
        /\ q.patches = p.patches \cup {p.patched + 1} /\ q.styles = p.styles \cup {p.patched + 1}
    BY <1>0 DEF IsCanvas
  <2>2. Des!AddCssPatch(p, sel) = q BY DEF Des!AddCssPatch
  <2> HIDE DEF q
  <2>3. q.styles \subseteq q.patches BY <2>1, <1>0 DEF Sound
  <2> QED BY <2>1, <2>2, <2>3, <1>1
<1>3. CanvasOk(Des!RemoveCssPatch(p, id))
  <2> DEFINE q == [p EXCEPT !.patches = @ \ {id}, !.styles = @ \ {id}]
  <2>1. /\ IsCanvas(q) /\ q.entries = p.entries /\ q.primary = p.primary
        /\ q.visible = p.visible /\ q.markers = p.markers /\ q.picks = p.picks
        /\ q.patches = p.patches \ {id} /\ q.styles = p.styles \ {id}
    BY <1>0 DEF IsCanvas
  <2>2. Des!RemoveCssPatch(p, id) = q BY DEF Des!RemoveCssPatch
  <2> HIDE DEF q
  <2>3. q.styles \subseteq q.patches BY <2>1, <1>0 DEF Sound
  <2> QED BY <2>1, <2>2, <2>3, <1>1
<1>4. CanvasOk(Des!ClearCssPatches(p))
  <2> DEFINE q == [p EXCEPT !.patches = {}, !.styles = @ \ p.patches]
  <2>1. /\ IsCanvas(q) /\ q.entries = p.entries /\ q.primary = p.primary
        /\ q.visible = p.visible /\ q.markers = p.markers /\ q.picks = p.picks
        /\ q.patches = {} /\ q.styles = p.styles \ p.patches
    BY <1>0 DEF IsCanvas
  <2>2. Des!ClearCssPatches(p) = q BY DEF Des!ClearCssPatches
  <2> HIDE DEF q
  <2>3. q.styles \subseteq q.patches BY <2>1, <1>0 DEF Sound
  <2> QED BY <2>1, <2>2, <2>3, <1>1
<1> QED BY <1>2, <1>3, <1>4

\* An empty canvas is as it should be.
LEMMA BlankIsOk == CanvasOk(Des!Blank)
<1>1. PICK es : es = <<>> OBVIOUS
<1>2. /\ IsCanvas(Des!Blank) /\ Des!Blank.entries = es /\ Des!Blank.primary = Des!NoPick
      /\ Des!Blank.markers = {} /\ Des!Blank.styles = {} /\ Des!Blank.picks = 0
  BY <1>1 DEF Des!Blank, IsCanvas
<1>3. es \in Seq(Entries({})) BY <1>1
<1> QED BY <1>1, <1>2, <1>3 DEF CanvasOk, Sound, PrimaryIsLast

\* The agent's tools keep the canvas as it should be.
LEMMA ToolsKeepPicks ==
  ASSUME DesignInv
  PROVE /\ Des!GetSelectedElement => DesignInv'
        /\ Des!GetSelectedElements => DesignInv'
        /\ Des!HideSelectedMarker => DesignInv'
        /\ Des!ClearSelected => DesignInv'
        /\ Des!ShowSelectedMarker({}) => DesignInv'
        /\ \A e \in alive : Des!ShowSelectedMarker({e}) => DesignInv'
        /\ \A id : Des!RemoveSelected(id) => DesignInv'
        /\ \A id, name : Des!UpdateSelected(id, name) => DesignInv'
<1>0. /\ CanvasOk(canvas) /\ alive \subseteq Elems
      /\ Sound(canvas) /\ PrimaryIsLast(canvas)
  BY DEF DesignInv, CanvasOk
<1>1. ASSUME NEW p, CanvasOk(p), Des!Tool(p) PROVE DesignInv'
  BY <1>0, <1>1 DEF Des!Tool, DesignInv
<1>2. Des!GetSelectedElement => DesignInv'
  BY <1>0, <1>1, PrimarySynced DEF Des!GetSelectedElement
<1>3. Des!GetSelectedElements => DesignInv' BY <1>0, <1>1, AllSynced DEF Des!GetSelectedElements
<1>4. Des!HideSelectedMarker => DesignInv'
  BY <1>0, <1>1, ClearedAndHidden DEF Des!HideSelectedMarker
<1>5. ASSUME Des!ClearSelected PROVE DesignInv'
  <2>1. Sound(Des!SyncAll(canvas)) BY <1>0, AllSynced DEF CanvasOk
  <2> QED BY <2>1, <1>1, <1>5, ClearedAndHidden DEF Des!ClearSelected
<1>6. ASSUME Des!ShowSelectedMarker({}) PROVE DesignInv'
  BY <1>0, <1>1, <1>6, ShownSynced DEF Des!ShowSelectedMarker
<1>7. ASSUME NEW e \in alive, Des!ShowSelectedMarker({e}) PROVE DesignInv'
  <2>1. PICK x : x = CHOOSE y \in {e} : TRUE OBVIOUS
  <2>2. x \in Elems BY <2>1, <1>0
  <2>3. CanvasOk(Des!SetSelectedElement(canvas, x, FALSE)) BY <2>2, <1>0, ElementSelected
  <2>4. CanvasOk(Des!ShowSelectedElementMarker(Des!SetSelectedElement(canvas, x, FALSE)))
    BY <2>3, <1>0, ShownSynced
  <2>5. {e} # {} OBVIOUS
  <2>6. Des!Tool(Des!ShowSelectedElementMarker(Des!SetSelectedElement(canvas, x, FALSE)))
    BY <1>7, <2>1, <2>5 DEF Des!ShowSelectedMarker
  <2> QED BY <2>4, <2>6, <1>1
<1>8. ASSUME NEW id, Des!RemoveSelected(id) PROVE DesignInv'
  BY <1>0, <1>1, <1>8, EntryRemoved DEF Des!RemoveSelected
<1>9. ASSUME NEW id, NEW name, Des!UpdateSelected(id, name) PROVE DesignInv'
  <2>1. PICK k : Des!Tool(Des!SyncAll(Des!SetSelectedElementMeta(canvas, k, name)))
    BY <1>9 DEF Des!UpdateSelected
  <2>2. CanvasOk(Des!SetSelectedElementMeta(canvas, k, name)) BY <1>0, EntryRenamed
  <2>3. CanvasOk(Des!SyncAll(Des!SetSelectedElementMeta(canvas, k, name)))
    BY <2>2, <1>0, AllSynced
  <2> QED BY <2>1, <2>3, <1>1
<1> QED BY <1>2, <1>3, <1>4, <1>5, <1>6, <1>7, <1>8, <1>9

\* Its patches and baselines too.
LEMMA PatchesKeepPicks ==
  ASSUME DesignInv
  PROVE /\ \A given, rules, shadow : Des!ApplyCss(given, rules, shadow) => DesignInv'
        /\ \A id : Des!RemovePatch(id) => DesignInv'
        /\ Des!ClearPatches => DesignInv'
        /\ \A b : Des!Baseline(b) => DesignInv'
<1>0. CanvasOk(canvas) /\ alive \subseteq Elems /\ Sound(canvas)
  BY DEF DesignInv, CanvasOk
<1>1. ASSUME NEW p, CanvasOk(p), Des!Tool(p) PROVE DesignInv'
  BY <1>0, <1>1 DEF Des!Tool, DesignInv
<1>2. ASSUME NEW given, NEW rules, NEW shadow, Des!ApplyCss(given, rules, shadow)
      PROVE DesignInv'
  <2>1. PICK synced : synced = IF given = {} THEN Des!SyncPrimarySelection(canvas) ELSE canvas
    OBVIOUS
  <2>2. CanvasOk(synced) BY <2>1, <1>0, PrimarySynced
  <2>3. PICK sel : sel = IF given = {} THEN synced.primary.sel ELSE given OBVIOUS
  <2>4. Des!Tool(IF Des!CanPatch(sel, rules, shadow) THEN Des!AddCssPatch(synced, sel) ELSE synced)
    BY <1>2, <2>1, <2>3 DEF Des!ApplyCss
  <2>5. CanvasOk(Des!AddCssPatch(synced, sel)) BY <2>2, PatchesKept
  <2> QED BY <2>2, <2>4, <2>5, <1>1
<1>3. ASSUME NEW id, Des!RemovePatch(id) PROVE DesignInv'
  BY <1>0, <1>1, <1>3, PatchesKept DEF Des!RemovePatch
<1>4. ASSUME Des!ClearPatches PROVE DesignInv'
  BY <1>0, <1>1, <1>4, PatchesKept DEF Des!ClearPatches
<1>5. ASSUME NEW b, Des!Baseline(b) PROVE DesignInv'
  BY <1>0, <1>5 DEF Des!Baseline, DesignInv
<1> QED BY <1>2, <1>3, <1>4, <1>5

\* What the page does, and the user.
LEMMA PageKeepsPicks ==
  ASSUME DesignInv
  PROVE /\ Des!Rerender => DesignInv'
        /\ \A id : Des!StyleDropped(id) => DesignInv'
        /\ \A id : Des!MarkerTick(id) => DesignInv'
        /\ \A e \in alive : Des!Pick(e) => DesignInv'
        /\ Des!Escape => DesignInv'
        /\ Des!NewDocument => DesignInv'
<1>0. /\ CanvasOk(canvas) /\ alive \subseteq Elems
      /\ Sound(canvas) /\ PrimaryIsLast(canvas) /\ IsCanvas(canvas)
  BY DEF DesignInv, CanvasOk, Sound
<1>1. ASSUME Des!Rerender PROVE DesignInv' BY <1>0, <1>1 DEF Des!Rerender, DesignInv
<1>2. ASSUME NEW q, IsCanvas(q), q.entries = canvas.entries, q.primary = canvas.primary,
             q.visible = canvas.visible, q.markers \subseteq canvas.markers,
             q.picks = canvas.picks, q.patches = canvas.patches,
             q.styles \subseteq canvas.styles
      PROVE CanvasOk(q)
  <2>1. Sound(q) BY <1>0, <1>2 DEF Sound
  <2>2. PrimaryIsLast(q) BY <1>0, <1>2 DEF PrimaryIsLast
  <2> QED BY <2>1, <2>2 DEF CanvasOk
<1>3. ASSUME NEW id, Des!StyleDropped(id) PROVE DesignInv'
  <2> DEFINE q == [canvas EXCEPT !.styles = @ \ {id}]
  <2>1. /\ IsCanvas(q) /\ q.entries = canvas.entries /\ q.primary = canvas.primary
        /\ q.visible = canvas.visible /\ q.markers = canvas.markers
        /\ q.picks = canvas.picks /\ q.patches = canvas.patches
        /\ q.styles = canvas.styles \ {id}
    BY <1>0 DEF IsCanvas
  <2>2. canvas' = q /\ alive' = alive BY <1>3 DEF Des!StyleDropped
  <2> HIDE DEF q
  <2>3. CanvasOk(q) BY <2>1, <1>2
  <2> QED BY <2>2, <2>3, <1>0 DEF DesignInv
<1>4. ASSUME NEW id, Des!MarkerTick(id) PROVE DesignInv'
  <2> DEFINE q == [canvas EXCEPT !.markers = @ \ {id}]
  <2>1. /\ IsCanvas(q) /\ q.entries = canvas.entries /\ q.primary = canvas.primary
        /\ q.visible = canvas.visible /\ q.markers = canvas.markers \ {id}
        /\ q.picks = canvas.picks /\ q.patches = canvas.patches /\ q.styles = canvas.styles
    BY <1>0 DEF IsCanvas
  <2>2. canvas' = q /\ alive' = alive BY <1>4 DEF Des!MarkerTick
  <2> HIDE DEF q
  <2>3. CanvasOk(q) BY <2>1, <1>2
  <2> QED BY <2>2, <2>3, <1>0 DEF DesignInv
<1>5. ASSUME NEW e \in alive, Des!Pick(e) PROVE DesignInv'
  <2>1. PICK append : append = (picker = "add") OBVIOUS
  <2>2. canvas' = Des!SetSelectedElement(canvas, e, append) /\ alive' = alive
    BY <1>5, <2>1 DEF Des!Pick
  <2>3. CanvasOk(Des!SetSelectedElement(canvas, e, append)) BY <1>0, ElementSelected
  <2> QED BY <2>2, <2>3, <1>0 DEF DesignInv
<1>6. ASSUME Des!Escape PROVE DesignInv' BY <1>0, <1>6 DEF Des!Escape, DesignInv
<1>7. ASSUME Des!NewDocument PROVE DesignInv'
  BY <1>0, <1>7, BlankIsOk DEF Des!NewDocument, DesignInv
<1> QED BY <1>1, <1>3, <1>4, <1>5, <1>6, <1>7

\* The popup's scripts and messages.
LEMMA PopupKeepsPicks ==
  ASSUME DesignInv
  PROVE /\ Des!PopupAsks => DesignInv'
        /\ \A b : Des!RunElementPickerScript(b) => DesignInv'
        /\ \A b : Des!Inject(b) => DesignInv'
        /\ \A b : Des!Message(b) => DesignInv'
<1>0. /\ CanvasOk(canvas) /\ alive \subseteq Elems
      /\ Sound(canvas) /\ PrimaryIsLast(canvas)
  BY DEF DesignInv, CanvasOk
<1>1. ASSUME Des!PopupAsks PROVE DesignInv'
  <2>1. UNCHANGED <<alive, canvas>> BY <1>1 DEF Des!PopupAsks, Des!Ask
  <2> QED BY <2>1, <1>0 DEF DesignInv
<1>2. CanvasOk(Des!Performed(request))
  <2>1. CanvasOk(Des!ClearSelectedElements(canvas)) BY <1>0, ClearedAndHidden
  <2>2. CanvasOk(Des!SyncAll(canvas)) BY <1>0, AllSynced
  <2>3. CanvasOk(Des!RemoveSelectedElement(canvas, request.id)) BY <1>0, EntryRemoved
  <2>4. CanvasOk(Des!SetSelectedElementMeta(canvas, request.id, request.name))
    BY <1>0, EntryRenamed
  <2>5. CanvasOk(Des!SetSelectedMarkersVisible(canvas, request.visible)) BY <1>0, ShownSynced
  <2>6. CanvasOk(Des!RemoveCssPatch(canvas, request.id)) BY <1>0, PatchesKept
  <2>7. CanvasOk(Des!ClearCssPatches(canvas)) BY <1>0, PatchesKept
  <2> QED BY <1>0, <2>1, <2>2, <2>3, <2>4, <2>5, <2>6, <2>7 DEF Des!Performed
<1>3. ASSUME Des!Perform(request) PROVE CanvasOk(canvas')
  BY <1>0, <1>2, <1>3 DEF Des!Perform
<1>4. ASSUME NEW b, Des!RunElementPickerScript(b) PROVE DesignInv'
  <2>1. alive' = alive /\ (Des!Perform(request) \/ canvas' = canvas)
    BY <1>4 DEF Des!RunElementPickerScript
  <2> QED BY <2>1, <1>0, <1>3 DEF DesignInv
<1>5. ASSUME NEW b, Des!Inject(b) PROVE DesignInv' BY <1>0, <1>5 DEF Des!Inject, DesignInv
<1>6. ASSUME NEW b, Des!Message(b) PROVE DesignInv'
  <2>1. alive' = alive /\ (Des!Perform(request) \/ canvas' = canvas) BY <1>6 DEF Des!Message
  <2> QED BY <2>1, <1>0, <1>3 DEF DesignInv
<1> QED BY <1>1, <1>4, <1>5, <1>6

\* Whatever the agent's tools, the popup, the user and a page that replaces its elements
\* do in turn, the default element is of the last pick, and every marker and style node
\* is of something that is listed.
THEOREM PicksAreListed == Spec => []PicksAndPatchesAgree
<1>1. Init => DesignInv BY BlankIsOk DEF Init, Des!Init, DesignInv
<1>2. ASSUME DesignInv, [Next]_extensionVars PROVE DesignInv'
  <2>1. CASE UNCHANGED desPart BY <2>1, <1>2 DEF desPart, DesignInv
  <2>2. CASE Des!Next
    <3>1. DesignInv BY <1>2
    <3> QED BY <3>1, <2>2, ToolsKeepPicks, PatchesKeepPicks, PageKeepsPicks, PopupKeepsPicks
         DEF Des!Next
  <2> QED BY <2>1, <2>2, <1>2 DEF Next, extensionVars
<1>3. DesignInv => PicksAndPatchesAgree
  <2> SUFFICES ASSUME DesignInv PROVE PicksAndPatchesAgree OBVIOUS
  <2>1. Sound(canvas) /\ PrimaryIsLast(canvas) BY DEF DesignInv, CanvasOk
  <2>2. ASSUME Des!Target(canvas) # {}
        PROVE /\ canvas.entries # <<>>
              /\ \A e \in Des!Target(canvas) : SelectorOf[e] = Des!Last(canvas.entries).sel
    <3>1. canvas.entries # <<>>
      BY <2>1, <2>2 DEF PrimaryIsLast, Des!Target, Des!NoPick
    <3>2. PICK x \in Elems : /\ SelectorOf[x] = canvas.entries[Len(canvas.entries)].sel
                             /\ canvas.primary.el = {x}
                             /\ canvas.primary.sel = {SelectorOf[x]}
      BY <3>1, <2>1 DEF PrimaryIsLast
    <3> QED BY <3>1, <3>2 DEF Des!Target, Des!Last, Des!Found
  <2>3. canvas.markers \subseteq Des!Ids(canvas) BY <2>1 DEF Sound, Des!Ids, Des!ToSet
  <2>4. (canvas.markers # {} => canvas.visible) /\ canvas.styles \subseteq canvas.patches
    BY <2>1 DEF Sound
  <2> QED BY <2>2, <2>3, <2>4 DEF PicksAndPatchesAgree, Des!PicksAndPatchesAgree
<1> QED BY <1>1, <1>2, <1>3, PTL DEF Spec

-----------------------------------------------------------------------------
(***************************************************************************)
(* What the page has registered arrives. Worlds are what the embedded      *)
(* servers and their tunnels hold (Page); a tunnel is open if it is heard. *)
(***************************************************************************)
ServerStates == [toolset : BOOLEAN, tools : Pg!Tools, at : {0} \cup Pg!Tunnels,
                 initialized : BOOLEAN]
TunnelStates == [of : {0} \cup Pg!Servers, opened : BOOLEAN, attached : BOOLEAN]
MirrorEntries == [Names -> [def : Defs \cup {Nothing}, gen : Nat]]
MirrorStates == [registered : MirrorEntries, queued : BOOLEAN, pc : {"rest", "reading"},
                 dirty : BOOLEAN, read : Pg!Tools]
Closings == [what : {"rebuild", "reconnect"}, of : Pg!Servers, gen : Nat]

IsWorld(w) ==
  /\ w \in [embedded : {0} \cup Pg!Servers, generation : Nat,
            server : [Pg!Servers -> ServerStates], notice : SUBSET Pg!Servers,
            tunnel : [Pg!Tunnels -> TunnelStates]]
  /\ w.embedded \in {0, w.generation + 1}

\* Tunnels are made one after the other.
InOrder(w) == \E k \in Nat : {t \in Pg!Tunnels : w.tunnel[t].of # 0} = 1..k

\* At most one tunnel is heard, and it is the embedded server's.
OpenAt(w, t) == w.tunnel[t].opened /\ w.tunnel[t].attached
OneHeard(w) ==
  \A t \in Pg!Tunnels : OpenAt(w, t) =>
    w.embedded # 0 /\ w.tunnel[t].of = w.embedded /\ w.server[w.embedded].at = t

WorldOk(w) == IsWorld(w) /\ InOrder(w) /\ OneHeard(w)

\* Who is heard and has listed knows the server's tools, or is going to be told.
FarTold(w) ==
  \A t \in Pg!Tunnels :
    /\ w.tunnel[t].of = 0 => far[t] = "new"
    /\ OpenAt(w, t) /\ far[t] # "new" => w.server[w.embedded].initialized
    /\ OpenAt(w, t) /\ far[t] = "listed" =>
         w.embedded \in w.notice \/ listed[t] = w.server[w.embedded].tools

\* What the mirror takes to be registered with the server that is there is.
Believed(w, entries) ==
  \A n \in Names :
    /\ entries[n].gen <= w.generation
    /\ Pg!Current(entries[n], w.generation) =>
         w.embedded # 0 /\ w.server[w.embedded].tools[n] = entries[n].def

\* A read is of the page as it is, or another one follows; and once there is none to
\* follow, what the page has is registered with the server that is there.
Following == changeQueued \/ mirror.queued
Rebuilding == \E c \in closing : c.what = "rebuild"
ReadSound == mirror.pc = "reading" => mirror.dirty \/ Following \/ mirror.read = context
RestSound ==
  (activated /\ mirror.pc = "rest" /\ ~Following /\ ~Rebuilding) =>
    \A n \in Names : context[n] # Nothing =>
      mirror.registered[n].def = context[n] /\ mirror.registered[n].gen = generation

PageTypes ==
  /\ context \in Pg!Tools /\ changeQueued \in BOOLEAN
  /\ activated \in BOOLEAN /\ toolset \in BOOLEAN
  /\ mirror \in MirrorStates /\ closing \subseteq Closings
  /\ listed \in [Pg!Tunnels -> Pg!Tools]
  /\ far \in [Pg!Tunnels -> {"new", "told", "listed"}]

PageInv ==
  /\ PageTypes /\ WorldOk(Pg!World) /\ FarTold(Pg!World)
  /\ Believed(Pg!World, mirror.registered) /\ ReadSound /\ RestSound

\* One world from another: whoever is heard afterwards is new or was heard, at the same
\* server with the same tools, and no notice is forgotten.
Keeps(w, v) ==
  /\ \A t \in Pg!Tunnels : v.tunnel[t].of = 0 => w.tunnel[t].of = 0
  /\ \A t \in Pg!Tunnels : OpenAt(v, t) =>
       \/ w.tunnel[t].of = 0
       \/ /\ OpenAt(w, t) /\ v.embedded = w.embedded
          /\ v.server[w.embedded].initialized = w.server[w.embedded].initialized
          /\ v.server[w.embedded].tools = w.server[w.embedded].tools
  /\ w.notice \subseteq v.notice
  /\ w.generation <= v.generation
  /\ (v.generation = w.generation /\ w.embedded # 0) =>
       /\ v.embedded = w.embedded
       /\ v.server[w.embedded].tools = w.server[w.embedded].tools

\* What is so of a world is so of what it becomes.
LEMMA KeepingIsTransitive ==
  ASSUME NEW w, NEW u, NEW v, IsWorld(w), IsWorld(u), IsWorld(v), Keeps(w, u), Keeps(u, v),
         w.embedded # 0 => u.embedded = w.embedded
  PROVE  Keeps(w, v)
<1>0. w.generation \in Nat /\ u.generation \in Nat /\ v.generation \in Nat
  BY DEF IsWorld
<1> USE DEF Keeps
<1>1. \A t \in Pg!Tunnels : v.tunnel[t].of = 0 => w.tunnel[t].of = 0
  OBVIOUS
<1>2. ASSUME NEW t \in Pg!Tunnels, OpenAt(v, t), w.tunnel[t].of # 0
      PROVE  /\ OpenAt(w, t) /\ v.embedded = w.embedded
             /\ v.server[w.embedded].initialized = w.server[w.embedded].initialized
             /\ v.server[w.embedded].tools = w.server[w.embedded].tools
  <2>1. u.tunnel[t].of # 0
    BY <1>2
  <2>2. /\ OpenAt(u, t) /\ v.embedded = u.embedded
        /\ v.server[u.embedded].initialized = u.server[u.embedded].initialized
        /\ v.server[u.embedded].tools = u.server[u.embedded].tools
    BY <1>2, <2>1
  <2> QED BY <1>2, <2>2
<1>3. w.notice \subseteq v.notice /\ w.generation <= v.generation
  BY <1>0
<1>4. ASSUME v.generation = w.generation, w.embedded # 0
      PROVE  /\ v.embedded = w.embedded
             /\ v.server[w.embedded].tools = w.server[w.embedded].tools
  <2>1. u.generation = w.generation
    BY <1>0, <1>4
  <2> QED BY <1>4, <2>1
<1> QED BY <1>1, <1>2, <1>3, <1>4

\* Neither the far ends nor the mirror are misled by such a step.
LEMMA KeepingMisleadsNobody ==
  ASSUME NEW w, NEW v, NEW entries, IsWorld(w), IsWorld(v), OneHeard(w), Keeps(w, v),
         \A n \in Names : entries[n].gen \in Nat,
         FarTold(w), Believed(w, entries)
  PROVE  FarTold(v) /\ Believed(v, entries)
<1>1. ASSUME NEW t \in Pg!Tunnels, OpenAt(v, t), far[t] # "new"
      PROVE  /\ v.server[v.embedded].initialized
             /\ far[t] = "listed" =>
                  v.embedded \in v.notice \/ listed[t] = v.server[v.embedded].tools
  <2>1. w.tunnel[t].of # 0
    BY <1>1 DEF FarTold
  <2>2. /\ OpenAt(w, t) /\ v.embedded = w.embedded
        /\ v.server[w.embedded].initialized = w.server[w.embedded].initialized
        /\ v.server[w.embedded].tools = w.server[w.embedded].tools
        /\ w.notice \subseteq v.notice
    BY <1>1, <2>1 DEF Keeps
  <2> QED BY <1>1, <2>2 DEF FarTold
<1>2. \A t \in Pg!Tunnels : v.tunnel[t].of = 0 => far[t] = "new"
  BY DEF FarTold, Keeps
<1>3. FarTold(v)
  BY <1>1, <1>2 DEF FarTold
<1>4. w.generation \in Nat /\ v.generation \in Nat /\ w.generation <= v.generation
  BY DEF IsWorld, Keeps
<1>5. ASSUME NEW n \in Names
      PROVE  /\ entries[n].gen <= v.generation
             /\ Pg!Current(entries[n], v.generation) =>
                  v.embedded # 0 /\ v.server[v.embedded].tools[n] = entries[n].def
  <2>1. entries[n].gen <= w.generation /\ entries[n].gen \in Nat
    BY DEF Believed
  <2>2. ASSUME Pg!Current(entries[n], v.generation)
        PROVE  v.embedded # 0 /\ v.server[v.embedded].tools[n] = entries[n].def
    <3>1. v.generation = w.generation
      BY <1>4, <2>1, <2>2 DEF Pg!Current
    <3>2. w.embedded # 0 /\ w.server[w.embedded].tools[n] = entries[n].def
      BY <2>2, <3>1 DEF Believed
    <3> QED BY <3>1, <3>2 DEF Keeps
  <2> QED BY <1>4, <2>1, <2>2
<1> QED BY <1>3, <1>5 DEF Believed

\* What closing a server's tunnel changes.
LEMMA DisconnectedFields ==
  ASSUME NEW w, IsWorld(w), NEW s \in Pg!Servers, NEW v, v = Pg!Disconnect(w, s)
  PROVE  /\ IsWorld(v) /\ v.embedded = w.embedded /\ v.generation = w.generation
         /\ v.notice = w.notice
         /\ \A r \in Pg!Servers : /\ v.server[r].tools = w.server[r].tools
                                  /\ r # s => v.server[r] = w.server[r]
         /\ \A t \in Pg!Tunnels :
              /\ v.tunnel[t].of = w.tunnel[t].of
              /\ OpenAt(v, t) => OpenAt(w, t) /\ t # w.server[s].at
         /\ w.server[s].at = 0 => v = w
<1>1. CASE w.server[s].at = 0
  <2>1. v = w
    BY <1>1 DEF Pg!Disconnect
  <2>2. 0 \notin Pg!Tunnels
    BY DEF Pg!Tunnels
  <2> QED BY <1>1, <2>1, <2>2
<1>2. CASE w.server[s].at # 0
  <2>1. PICK t : t = w.server[s].at
    OBVIOUS
  <2>2. t \in Pg!Tunnels
    BY <1>2, <2>1 DEF IsWorld, ServerStates
  <2>3. PICK st : st = [w.server[s] EXCEPT !.at = 0, !.initialized = FALSE]
    OBVIOUS
  <2>4. PICK tn : tn = [w.tunnel[t] EXCEPT !.opened = FALSE, !.attached = FALSE]
    OBVIOUS
  <2>5. st \in ServerStates /\ st.tools = w.server[s].tools
    BY <2>3 DEF IsWorld, ServerStates
  <2>6. tn \in TunnelStates /\ tn.of = w.tunnel[t].of /\ ~tn.opened
    BY <2>2, <2>4 DEF IsWorld, TunnelStates
  <2>7. /\ v.embedded = w.embedded /\ v.generation = w.generation /\ v.notice = w.notice
        /\ v.server = [w.server EXCEPT ![s] = st] /\ v.tunnel = [w.tunnel EXCEPT ![t] = tn]
        /\ DOMAIN v = DOMAIN w
        /\ v = [w EXCEPT !.server = v.server, !.tunnel = v.tunnel]
    BY <1>2, <2>1, <2>2, <2>3, <2>4 DEF Pg!Disconnect, IsWorld, ServerStates, TunnelStates
  <2>8. /\ v.server \in [Pg!Servers -> ServerStates] /\ v.tunnel \in [Pg!Tunnels -> TunnelStates]
        /\ \A r \in Pg!Servers : v.server[r] = IF r = s THEN st ELSE w.server[r]
        /\ \A u \in Pg!Tunnels : v.tunnel[u] = IF u = t THEN tn ELSE w.tunnel[u]
    BY <2>2, <2>5, <2>6, <2>7 DEF IsWorld
  <2>9. IsWorld(v)
    BY <2>7, <2>8 DEF IsWorld
  <2> QED BY <1>2, <2>1, <2>5, <2>6, <2>7, <2>8, <2>9 DEF OpenAt
<1> QED BY <1>1, <1>2

\* Closing a tunnel of the embedded server, or of one that is not it.
LEMMA Disconnected ==
  ASSUME NEW w, WorldOk(w), NEW s \in Pg!Servers, NEW v, v = Pg!Disconnect(w, s)
  PROVE  /\ WorldOk(v) /\ Keeps(w, v)
         /\ v.embedded = w.embedded /\ v.generation = w.generation
<1> USE DEF WorldOk
<1>1. /\ IsWorld(v) /\ v.embedded = w.embedded /\ v.generation = w.generation
      /\ v.notice = w.notice
      /\ \A r \in Pg!Servers : /\ v.server[r].tools = w.server[r].tools
                               /\ r # s => v.server[r] = w.server[r]
      /\ \A t \in Pg!Tunnels :
           /\ v.tunnel[t].of = w.tunnel[t].of
           /\ OpenAt(v, t) => OpenAt(w, t) /\ t # w.server[s].at
  BY DisconnectedFields
<1>2. ASSUME NEW t \in Pg!Tunnels, OpenAt(v, t)
      PROVE  /\ OpenAt(w, t) /\ w.embedded # 0 /\ w.embedded \in Pg!Servers
             /\ w.tunnel[t].of = w.embedded /\ w.server[w.embedded].at = t
             /\ v.server[w.embedded] = w.server[w.embedded]
  <2>1. /\ OpenAt(w, t) /\ w.embedded # 0 /\ w.tunnel[t].of = w.embedded
        /\ w.server[w.embedded].at = t
    BY <1>1, <1>2 DEF OneHeard
  <2>2. w.embedded \in Pg!Servers /\ w.embedded # s
    BY <1>1, <1>2, <2>1 DEF IsWorld
  <2> QED BY <1>1, <2>1, <2>2
<1>3. OneHeard(v)
  BY <1>1, <1>2 DEF OneHeard
<1>4. InOrder(v)
  BY <1>1 DEF InOrder
<1>5. Keeps(w, v)
  BY <1>1, <1>2 DEF Keeps, IsWorld
<1> QED BY <1>1, <1>3, <1>4, <1>5

\* Retiring the embedded server and closing its tunnel.
LEMMA Retired ==
  ASSUME NEW w, WorldOk(w)
  PROVE  /\ w.embedded = 0 => WorldOk(Pg!RetireEmbedded(w)) /\ Keeps(w, Pg!RetireEmbedded(w))
         /\ w.embedded # 0 =>
              LET v == Pg!Disconnect(Pg!RetireEmbedded(w), w.embedded)
              IN  WorldOk(v) /\ Keeps(w, v)
<1> USE DEF WorldOk
<1>1. PICK u : u = Pg!RetireEmbedded(w)
  OBVIOUS
<1>2. /\ IsWorld(u) /\ u.embedded = 0 /\ u.generation = w.generation + 1
      /\ u.server = w.server /\ u.notice = w.notice /\ u.tunnel = w.tunnel
  <2>1. /\ u.embedded = 0 /\ u.generation = w.generation + 1
        /\ u.server = w.server /\ u.notice = w.notice /\ u.tunnel = w.tunnel
        /\ DOMAIN u = {"embedded", "generation", "server", "notice", "tunnel"}
    BY <1>1 DEF Pg!RetireEmbedded, IsWorld
  <2>2. u = [embedded |-> u.embedded, generation |-> u.generation, server |-> u.server,
             notice |-> u.notice, tunnel |-> u.tunnel]
    BY <1>1, <2>1 DEF Pg!RetireEmbedded, IsWorld
  <2>3. IsWorld(u)
    BY <2>1, <2>2 DEF IsWorld
  <2> QED BY <2>1, <2>3
<1>3. w.generation \in Nat /\ InOrder(u)
  BY <1>2 DEF IsWorld, InOrder
<1>4. ASSUME w.embedded = 0 PROVE WorldOk(u) /\ Keeps(w, u)
  <2>1. \A t \in Pg!Tunnels : ~OpenAt(u, t)
    BY <1>2, <1>4 DEF OneHeard, OpenAt
  <2> QED BY <1>2, <1>3, <2>1 DEF OneHeard, Keeps
<1>5. ASSUME w.embedded # 0, NEW v, v = Pg!Disconnect(u, w.embedded)
      PROVE  WorldOk(v) /\ Keeps(w, v)
  <2>1. w.embedded \in Pg!Servers
    BY <1>5 DEF IsWorld
  <2>2. /\ IsWorld(v) /\ v.embedded = 0 /\ v.generation = w.generation + 1
        /\ v.notice = w.notice
        /\ \A t \in Pg!Tunnels :
             /\ v.tunnel[t].of = w.tunnel[t].of
             /\ OpenAt(v, t) => OpenAt(u, t) /\ t # u.server[w.embedded].at
    BY <1>2, <1>5, <2>1, DisconnectedFields
  <2>3. \A t \in Pg!Tunnels : ~OpenAt(v, t)
    BY <1>2, <2>2 DEF OneHeard, OpenAt
  <2>4. OneHeard(v) /\ InOrder(v)
    BY <1>3, <2>2, <2>3 DEF OneHeard, InOrder
  <2> QED BY <1>3, <2>2, <2>3, <2>4 DEF Keeps
<1> QED BY <1>1, <1>4, <1>5

\* The next tunnel has not been made, and all before it have.
LEMMA NextTunnel ==
  ASSUME NEW w, InOrder(w), NEW t, t = Pg!FreshTunnel(w)
  PROVE  \E k \in Nat : /\ {u \in Pg!Tunnels : w.tunnel[u].of # 0} = 1..k
                        /\ t = k + 1 /\ t \notin 1..k
<1>1. PICK k \in Nat : {u \in Pg!Tunnels : w.tunnel[u].of # 0} = 1..k
  BY DEF InOrder
<1>2. Cardinality(1..k) = k
  BY FS_Interval
<1>3. Pg!FreshTunnel(w) = Cardinality({u \in Pg!Tunnels : w.tunnel[u].of # 0}) + 1
  BY DEF Pg!FreshTunnel, Pg!Cardinality, Cardinality
<1>4. t = k + 1
  BY <1>1, <1>2, <1>3
<1> QED BY <1>1, <1>4

\* Connecting the embedded server: its last tunnel is not heard any more.
LEMMA Connected ==
  ASSUME NEW w, WorldOk(w), w.embedded # 0, Pg!FreshTunnel(w) \in Pg!Tunnels,
         activated' \in BOOLEAN, NEW v, v = Pg!Connect(w, w.embedded)
  PROVE  /\ WorldOk(v) /\ Keeps(w, v)
         /\ v.embedded = w.embedded /\ v.generation = w.generation
<1> USE DEF WorldOk
<1>1. PICK s : s = w.embedded
  OBVIOUS
<1>2. s \in Pg!Servers /\ s # 0
  BY <1>1 DEF IsWorld
<1>3. PICK t : t = Pg!FreshTunnel(w)
  OBVIOUS
<1>4. PICK k \in Nat : /\ {u \in Pg!Tunnels : w.tunnel[u].of # 0} = 1..k
                       /\ t = k + 1 /\ t \notin 1..k
  BY <1>3, NextTunnel
<1>5. t \in Pg!Tunnels /\ w.tunnel[t].of = 0
  BY <1>3, <1>4
<1>6. PICK old : old = w.server[s].at
  OBVIOUS
<1>7. PICK st : st = [w.server[s] EXCEPT !.at = t]
  OBVIOUS
<1>8. st \in ServerStates /\ st.at = t /\ st.tools = w.server[s].tools
      /\ st.initialized = w.server[s].initialized
  BY <1>2, <1>5, <1>7 DEF IsWorld, ServerStates
<1>9. PICK tn : tn = [of |-> s, opened |-> activated', attached |-> TRUE]
  OBVIOUS
<1>10. tn \in TunnelStates /\ tn.of = s
  BY <1>2, <1>9 DEF TunnelStates
<1> DEFINE after(u) == IF u = t THEN tn
                       ELSE IF u = old THEN [w.tunnel[u] EXCEPT !.attached = FALSE]
                       ELSE w.tunnel[u]
<1>11. /\ v.embedded = w.embedded /\ v.generation = w.generation /\ v.notice = w.notice
       /\ v.server = [w.server EXCEPT ![s] = st]
       /\ v.tunnel = [u \in Pg!Tunnels |-> after(u)]
       /\ DOMAIN v = DOMAIN w
       /\ v = [w EXCEPT !.server = v.server, !.tunnel = v.tunnel]
  BY <1>1, <1>2, <1>3, <1>6, <1>7, <1>9 DEF Pg!Connect, IsWorld, ServerStates
<1>12. ASSUME NEW u \in Pg!Tunnels
       PROVE  /\ after(u) \in TunnelStates
              /\ u # t => after(u).of = w.tunnel[u].of
              /\ (u # t /\ after(u).opened /\ after(u).attached) =>
                   OpenAt(w, u) /\ u # old
  BY <1>10 DEF IsWorld, TunnelStates, OpenAt
<1>13. /\ v.server \in [Pg!Servers -> ServerStates]
       /\ v.server[s] = st /\ \A r \in Pg!Servers : r # s => v.server[r] = w.server[r]
  BY <1>2, <1>8, <1>11 DEF IsWorld
<1>14. v.tunnel \in [Pg!Tunnels -> TunnelStates]
  BY <1>11, <1>12
<1>15. IsWorld(v)
  BY <1>11, <1>13, <1>14 DEF IsWorld
<1>16. /\ v.tunnel[t] = tn
       /\ \A u \in Pg!Tunnels : u # t =>
            /\ v.tunnel[u].of = w.tunnel[u].of
            /\ OpenAt(v, u) => OpenAt(w, u) /\ u # old
  BY <1>5, <1>11, <1>12 DEF OpenAt
<1>17. \A u \in Pg!Tunnels : OpenAt(v, u) => u = t
  BY <1>1, <1>6, <1>16 DEF OneHeard
<1>18. OneHeard(v)
  BY <1>1, <1>2, <1>8, <1>10, <1>11, <1>13, <1>16, <1>17 DEF OneHeard
<1>19. InOrder(v)
  <2>1. {u \in Pg!Tunnels : v.tunnel[u].of # 0} = 1..(k + 1)
    <3>1. \A u \in Pg!Tunnels : v.tunnel[u].of # 0 <=> u = t \/ w.tunnel[u].of # 0
      BY <1>2, <1>5, <1>10, <1>16
    <3>2. {u \in Pg!Tunnels : v.tunnel[u].of # 0} =
            {t} \cup {u \in Pg!Tunnels : w.tunnel[u].of # 0}
      BY <1>5, <3>1
    <3>3. 1..(k + 1) = {k + 1} \cup 1..k
      OBVIOUS
    <3> QED BY <1>4, <3>2, <3>3
  <2> QED BY <2>1 DEF InOrder
<1>20. Keeps(w, v)
  <2>1. \A u \in Pg!Tunnels : v.tunnel[u].of = 0 => w.tunnel[u].of = 0
    BY <1>5, <1>16
  <2>2. \A u \in Pg!Tunnels : OpenAt(v, u) => w.tunnel[u].of = 0
    BY <1>5, <1>17
  <2>3. v.server[w.embedded].tools = w.server[w.embedded].tools
    BY <1>1, <1>8, <1>13
  <2> QED BY <1>11, <2>1, <2>2, <2>3 DEF Keeps, IsWorld
<1> QED BY <1>11, <1>15, <1>18, <1>19, <1>20

\* A server made because there is none.
LEMMA Made ==
  ASSUME NEW w, WorldOk(w), w.embedded = 0, Pg!FreshServer(w) \in Pg!Servers,
         toolset' \in BOOLEAN, NEW v,
         v = [w EXCEPT !.embedded = Pg!FreshServer(w),
                       !.server[Pg!FreshServer(w)] = [Pg!NoServer EXCEPT !.toolset = toolset']]
  PROVE  /\ WorldOk(v) /\ Keeps(w, v) /\ v.embedded # 0 /\ v.generation = w.generation
         /\ v.tunnel = w.tunnel
<1> USE DEF WorldOk
<1>1. PICK s : s = Pg!FreshServer(w)
  OBVIOUS
<1>2. s \in Pg!Servers /\ s = w.generation + 1 /\ s # 0
  BY <1>1 DEF Pg!FreshServer, IsWorld
<1>3. PICK st : st = [Pg!NoServer EXCEPT !.toolset = toolset']
  OBVIOUS
<1>4. st \in ServerStates
  BY <1>3 DEF Pg!NoServer, ServerStates, Pg!Tools, Pg!Empty
<1>5. /\ v.embedded = s /\ v.generation = w.generation /\ v.notice = w.notice
      /\ v.server = [w.server EXCEPT ![s] = st] /\ v.tunnel = w.tunnel
      /\ DOMAIN v = DOMAIN w
      /\ v = [w EXCEPT !.embedded = v.embedded, !.server = v.server]
  BY <1>1, <1>2, <1>3 DEF IsWorld
<1>6. v.server \in [Pg!Servers -> ServerStates]
  BY <1>2, <1>4, <1>5 DEF IsWorld
<1>7. IsWorld(v)
  BY <1>2, <1>5, <1>6 DEF IsWorld
<1>8. \A t \in Pg!Tunnels : ~OpenAt(v, t)
  BY <1>5 DEF OneHeard, OpenAt
<1>9. OneHeard(v) /\ InOrder(v) /\ Keeps(w, v)
  BY <1>5, <1>8 DEF OneHeard, InOrder, Keeps, IsWorld
<1> QED BY <1>2, <1>5, <1>7, <1>9

\* embeddedServer: whatever was there, there is one afterwards, of this generation.
LEMMA Embedded ==
  ASSUME NEW w, WorldOk(w), Pg!FreshServer(w) \in Pg!Servers,
         Pg!FreshTunnel(w) \in Pg!Tunnels, activated' \in BOOLEAN, toolset' \in BOOLEAN,
         NEW v, v = Pg!EmbeddedServer(w)
  PROVE  /\ WorldOk(v) /\ Keeps(w, v) /\ v.embedded # 0 /\ v.generation = w.generation
         /\ w.embedded # 0 => v.embedded = w.embedded
<1>1. PICK u : u = IF w.embedded # 0 THEN w
                   ELSE [w EXCEPT !.embedded = Pg!FreshServer(w),
                           !.server[Pg!FreshServer(w)] =
                             [Pg!NoServer EXCEPT !.toolset = toolset']]
  OBVIOUS
<1>2. Keeps(w, w)
  BY DEF Keeps, WorldOk, IsWorld
<1>3. /\ WorldOk(u) /\ Keeps(w, u) /\ u.embedded # 0 /\ u.generation = w.generation
      /\ u.tunnel = w.tunnel /\ (w.embedded # 0 => u.embedded = w.embedded)
  <2>1. CASE w.embedded # 0
    BY <1>1, <1>2, <2>1
  <2>2. CASE w.embedded = 0
    <3>1. u = [w EXCEPT !.embedded = Pg!FreshServer(w),
                        !.server[Pg!FreshServer(w)] = [Pg!NoServer EXCEPT !.toolset = toolset']]
      BY <1>1, <2>2
    <3> QED BY <2>2, <3>1, Made
  <2> QED BY <2>1, <2>2
<1>4. CASE activated' /\ u.server[u.embedded].at = 0
  <2>1. v = Pg!Connect(u, u.embedded)
    BY <1>1, <1>4 DEF Pg!EmbeddedServer
  <2>2. Pg!FreshTunnel(u) = Pg!FreshTunnel(w)
    BY <1>3 DEF Pg!FreshTunnel
  <2>3. /\ WorldOk(v) /\ Keeps(u, v)
        /\ v.embedded = u.embedded /\ v.generation = u.generation
    BY <1>3, <2>1, <2>2, Connected
  <2>4. Keeps(w, v)
    BY <1>3, <2>3, KeepingIsTransitive DEF WorldOk
  <2> QED BY <1>3, <2>3, <2>4
<1>5. CASE ~(activated' /\ u.server[u.embedded].at = 0)
  <2>1. v = u
    BY <1>1, <1>5 DEF Pg!EmbeddedServer
  <2> QED BY <1>3, <2>1
<1> QED BY <1>4, <1>5

\* What the mirror does to the server with what it has read: who is heard is going to be
\* told of what changes, and afterwards the server has what was read.
LEMMA Reconciled ==
  ASSUME mirror \in MirrorStates, NEW w, WorldOk(w), w.embedded # 0, FarTold(w),
         Believed(w, mirror.registered), NEW v, v = Pg!Reconcile(w),
         NEW entries, entries = [n \in Names |-> [def |-> mirror.read[n], gen |-> w.generation]]
  PROVE  /\ WorldOk(v) /\ FarTold(v) /\ Believed(v, entries)
         /\ v.generation = w.generation /\ entries \in MirrorEntries
<1> USE DEF WorldOk
<1>1. PICK s : s = w.embedded
  OBVIOUS
<1>2. s \in Pg!Servers /\ s # 0 /\ w.generation \in Nat
  BY <1>1 DEF IsWorld
<1>3. PICK read : read = mirror.read
  OBVIOUS
<1>4. read \in Pg!Tools /\ mirror.registered \in MirrorEntries
  BY <1>3 DEF MirrorStates
<1> DEFINE same(n) == Pg!Current(mirror.registered[n], w.generation)
           known(n) == IF same(n) THEN mirror.registered[n].def ELSE Nothing
           now(n) == IF known(n) = read[n] THEN w.server[s].tools[n] ELSE read[n]
           st == [w.server[s] EXCEPT !.tools = [n \in Names |-> now(n)]]
           notices == IF \E n \in Names : known(n) # read[n] THEN w.notice \cup {s}
                      ELSE w.notice
<1>5. w.server[s] \in ServerStates /\ w.server[s].tools \in Pg!Tools
  BY <1>2 DEF IsWorld, ServerStates
<1>6. \A n \in Names : now(n) \in Defs \cup {Nothing}
  BY <1>4, <1>5 DEF Pg!Tools
<1>7. [n \in Names |-> now(n)] \in Pg!Tools
  BY <1>6 DEF Pg!Tools
<1>8. \A n \in Names : read[n] # Nothing => now(n) = read[n]
  <2> SUFFICES ASSUME NEW n \in Names, read[n] # Nothing, known(n) = read[n]
               PROVE  w.server[s].tools[n] = read[n]
    OBVIOUS
  <2>1. same(n)
    OBVIOUS
  <2> QED BY <1>1, <2>1 DEF Believed
<1>9. notices = w.notice => \/ s \in w.notice
                         \/ [n \in Names |-> now(n)] = w.server[s].tools
  <2> SUFFICES ASSUME s \notin notices PROVE \A n \in Names : now(n) = w.server[s].tools[n]
    BY <1>5 DEF Pg!Tools
  <2> QED OBVIOUS
<1>10. notices \in SUBSET Pg!Servers /\ w.notice \subseteq notices
       /\ (s \in notices \/ [n \in Names |-> now(n)] = w.server[s].tools)
  BY <1>2, <1>9 DEF IsWorld
<1>11. /\ st \in ServerStates /\ st.tools = [n \in Names |-> now(n)]
       /\ st.at = w.server[s].at /\ st.initialized = w.server[s].initialized
  <2> HIDE DEF now
  <2> QED BY <1>5, <1>7 DEF ServerStates
<1>12. /\ v.embedded = w.embedded /\ v.generation = w.generation /\ v.tunnel = w.tunnel
       /\ v.server = [w.server EXCEPT ![s] = st] /\ v.notice = notices
       /\ DOMAIN v = DOMAIN w
       /\ v = [w EXCEPT !.server = v.server, !.notice = v.notice]
  BY <1>1, <1>2, <1>3 DEF Pg!Reconcile, IsWorld
<1> HIDE DEF st, notices, now
<1>13. /\ v.server \in [Pg!Servers -> ServerStates] /\ v.server[s] = st
       /\ \A r \in Pg!Servers : r # s => v.server[r] = w.server[r]
  BY <1>2, <1>11, <1>12 DEF IsWorld
<1>14. IsWorld(v)
  BY <1>10, <1>12, <1>13 DEF IsWorld
<1>15. OneHeard(v) /\ InOrder(v)
  BY <1>1, <1>2, <1>11, <1>12, <1>13 DEF OneHeard, InOrder, OpenAt
<1>16. FarTold(v)
  BY <1>1, <1>10, <1>11, <1>12, <1>13 DEF FarTold, OpenAt
<1>17. entries \in MirrorEntries
  BY <1>2, <1>3, <1>4 DEF MirrorEntries, Pg!Tools
<1>18. Believed(v, entries)
  <2> SUFFICES ASSUME NEW n \in Names
               PROVE  /\ entries[n].gen <= v.generation
                      /\ Pg!Current(entries[n], v.generation) =>
                           v.embedded # 0 /\ v.server[v.embedded].tools[n] = entries[n].def
    BY DEF Believed
  <2>1. entries[n].gen = w.generation /\ entries[n].def = read[n]
    BY <1>3
  <2>2. v.embedded = s /\ v.server[s].tools[n] = now(n)
    BY <1>1, <1>11, <1>12, <1>13
  <2> QED BY <1>2, <1>8, <1>12, <2>1, <2>2 DEF Pg!Current
<1> QED BY <1>12, <1>14, <1>15, <1>16, <1>17, <1>18

\* The mirror that is told to sync reads, and again if it was reading.
LEMMA Synced ==
  ASSUME NEW m, m \in MirrorStates, context \in Pg!Tools, NEW q, q = Pg!Sync(m)
  PROVE  /\ q \in MirrorStates /\ q.registered = m.registered /\ q.queued = m.queued
         /\ q.pc = "reading" /\ (q.dirty \/ q.read = context)
<1>1. CASE m.pc = "reading"
  <2>1. q = [m EXCEPT !.dirty = TRUE]
    BY <1>1 DEF Pg!Sync
  <2> QED BY <1>1, <2>1 DEF MirrorStates
<1>2. CASE m.pc # "reading"
  <2>1. q = [m EXCEPT !.pc = "reading", !.dirty = FALSE, !.read = context]
    BY <1>2 DEF Pg!Sync
  <2> QED BY <2>1 DEF MirrorStates
<1> QED BY <1>1, <1>2

\* The world as it is.
LEMMA WorldFields ==
  /\ Pg!World.embedded = embedded /\ Pg!World.generation = generation
  /\ Pg!World.server = server /\ Pg!World.notice = notice /\ Pg!World.tunnel = tunnel
BY DEF Pg!World

\* What a step makes of the world it leaves behind, if the far ends stay.
LEMMA Arriving ==
  ASSUME PageTypes', NEW v, WorldOk(v), FarTold(v), Pg!Becomes(v), UNCHANGED <<far, listed>>,
         Believed(v, mirror'.registered), ReadSound', RestSound'
  PROVE  PageInv'
<1>1. (Pg!World)' = v
  <2>1. v = [embedded |-> v.embedded, generation |-> v.generation, server |-> v.server,
             notice |-> v.notice, tunnel |-> v.tunnel]
    BY DEF WorldOk, IsWorld
  <2> QED BY <2>1 DEF Pg!World, Pg!Becomes
<1>2. WorldOk(Pg!World)'
  BY <1>1 DEF WorldOk, IsWorld, InOrder, OneHeard, OpenAt
<1>3. FarTold(Pg!World)'
  BY <1>1 DEF FarTold, OpenAt
<1>4. Believed(Pg!World, mirror.registered)'
  BY <1>1 DEF Believed
<1> QED BY <1>2, <1>3, <1>4 DEF PageInv

\* A step that leaves the servers and tunnels alone.
LEMMA StayingPut ==
  ASSUME PageInv, PageTypes', UNCHANGED <<embedded, generation, server, notice, tunnel,
                                          far, listed>>,
         \A n \in Names : mirror'.registered[n] = mirror.registered[n],
         ReadSound', RestSound'
  PROVE  PageInv'
<1>1. Pg!Becomes(Pg!World)
  BY WorldFields DEF Pg!Becomes
<1>2. Believed(Pg!World, mirror'.registered)
  BY DEF PageInv, Believed
<1> QED BY <1>1, <1>2, Arriving DEF PageInv

\* A step to a world that keeps to this one.
LEMMA Moving ==
  ASSUME PageInv, PageTypes', NEW v, WorldOk(v), Keeps(Pg!World, v), Pg!Becomes(v),
         UNCHANGED <<far, listed>>, mirror'.registered = mirror.registered,
         ReadSound', RestSound'
  PROVE  PageInv'
<1>1. \A n \in Names : mirror.registered[n].gen \in Nat
  BY DEF PageInv, PageTypes, MirrorStates, MirrorEntries
<1>2. FarTold(v) /\ Believed(v, mirror.registered)
  BY <1>1, KeepingMisleadsNobody DEF PageInv, WorldOk
<1> QED BY <1>2, Arriving

\* What the page registers and unregisters is read later.
LEMMA RegisteringIsFollowed ==
  ASSUME PageInv
  PROVE  /\ \A n \in Names, d \in Defs : Pg!RegisterTool(n, d) => PageInv'
         /\ \A n \in Names : Pg!UnregisterTool(n) => PageInv'
         /\ Pg!NotifyToolChange => PageInv'
         /\ Pg!Scheduled => PageInv'
<1> USE DEF PageInv, PageTypes, Pg!serverVars, Pg!peerVars
<1>1. ASSUME NEW n \in Names, NEW d \in Defs, Pg!RegisterTool(n, d) PROVE PageInv'
  <2>1. PageTypes' /\ ReadSound' /\ RestSound'
    BY <1>1 DEF Pg!RegisterTool, Pg!Tools, ReadSound, RestSound, Following
  <2> QED BY <1>1, <2>1, StayingPut DEF Pg!RegisterTool
<1>2. ASSUME NEW n \in Names, Pg!UnregisterTool(n) PROVE PageInv'
  <2>1. PageTypes' /\ ReadSound' /\ RestSound'
    BY <1>2 DEF Pg!UnregisterTool, Pg!Tools, ReadSound, RestSound, Following
  <2> QED BY <1>2, <2>1, StayingPut DEF Pg!UnregisterTool
<1>3. ASSUME Pg!NotifyToolChange PROVE PageInv'
  <2>1. mirror' \in MirrorStates /\ mirror'.queued /\ mirror'.registered = mirror.registered
    BY <1>3 DEF Pg!NotifyToolChange, MirrorStates
  <2>2. PageTypes' /\ ReadSound' /\ RestSound'
    BY <1>3, <2>1 DEF Pg!NotifyToolChange, ReadSound, RestSound, Following
  <2> QED BY <1>3, <2>1, <2>2, StayingPut DEF Pg!NotifyToolChange
<1>4. ASSUME Pg!Scheduled PROVE PageInv'
  <2>1. PICK m : m = [mirror EXCEPT !.queued = FALSE]
    OBVIOUS
  <2>2. m \in MirrorStates /\ m.registered = mirror.registered
    BY <2>1 DEF MirrorStates
  <2>3. mirror' = Pg!Sync(m)
    BY <1>4, <2>1 DEF Pg!Scheduled
  <2>4. /\ mirror' \in MirrorStates /\ mirror'.registered = mirror.registered
        /\ mirror'.pc = "reading" /\ (mirror'.dirty \/ mirror'.read = context)
    BY <2>2, <2>3, Synced
  <2>5. PageTypes' /\ ReadSound' /\ RestSound'
    BY <1>4, <2>4 DEF Pg!Scheduled, ReadSound, RestSound
  <2> QED BY <1>4, <2>4, <2>5, StayingPut DEF Pg!Scheduled
<1> QED BY <1>1, <1>2, <1>3, <1>4

\* The mirror writes what it has read to the server that is there now.
LEMMA SyncDoneArrives ==
  ASSUME PageInv, Pg!SyncDone
  PROVE  PageInv'
<1> USE DEF PageInv, PageTypes, Pg!serverVars, Pg!peerVars
<1>1. /\ UNCHANGED <<context, changeQueued, activated, toolset, closing, listed, far>>
      /\ mirror.pc = "reading" /\ Pg!FreshServer(Pg!World) \in Pg!Servers
      /\ Pg!FreshTunnel(Pg!World) \in Pg!Tunnels
  BY DEF Pg!SyncDone, Pg!Room
<1>2. CASE ~activated
  <2>1. mirror' = [mirror EXCEPT !.registered = Pg!Forgotten, !.pc = "rest",
                                 !.read = Pg!Empty, !.dirty = FALSE]
    BY <1>2 DEF Pg!SyncDone
  <2>2. UNCHANGED <<embedded, generation, server, notice, tunnel>>
    BY <1>2 DEF Pg!SyncDone
  <2>3. Pg!Forgotten \in MirrorEntries /\ Pg!Empty \in Pg!Tools
    BY DEF Pg!Forgotten, MirrorEntries, Pg!Empty, Pg!Tools
  <2>4. mirror' \in MirrorStates /\ mirror'.registered = Pg!Forgotten /\ mirror'.pc = "rest"
    BY <2>1, <2>3 DEF MirrorStates
  <2>5. PageTypes' /\ ReadSound' /\ RestSound'
    BY <1>1, <1>2, <2>4 DEF ReadSound, RestSound
  <2>6. Believed(Pg!World, mirror'.registered)
    BY <2>4 DEF Believed, Pg!Forgotten, Pg!Current, WorldOk, IsWorld
  <2>7. Pg!Becomes(Pg!World)
    BY <2>2, WorldFields DEF Pg!Becomes
  <2> QED BY <1>1, <2>5, <2>6, <2>7, Arriving
<1>3. CASE activated
  <2>1. PICK w : w = Pg!EmbeddedServer(Pg!World)
    OBVIOUS
  <2>2. /\ WorldOk(w) /\ Keeps(Pg!World, w) /\ w.embedded # 0
        /\ w.generation = generation
    BY <1>1, <2>1, Embedded, WorldFields
  <2>3. \A n \in Names : mirror.registered[n].gen \in Nat
    BY DEF MirrorStates, MirrorEntries
  <2>4. FarTold(w) /\ Believed(w, mirror.registered)
    BY <2>2, <2>3, KeepingMisleadsNobody DEF WorldOk
  <2>5. PICK v : v = Pg!Reconcile(w)
    OBVIOUS
  <2>6. PICK entries : entries = [n \in Names |-> [def |-> mirror.read[n], gen |-> w.generation]]
    OBVIOUS
  <2>7. /\ WorldOk(v) /\ FarTold(v) /\ Believed(v, entries)
        /\ v.generation = w.generation /\ entries \in MirrorEntries
    BY <2>2, <2>4, <2>5, <2>6, Reconciled
  <2>8. PICK m : m = [mirror EXCEPT !.registered = entries]
    OBVIOUS
  <2>9. /\ m \in MirrorStates /\ m.registered = entries /\ m.queued = mirror.queued
        /\ m.dirty = mirror.dirty /\ m.read = mirror.read
    BY <2>7, <2>8 DEF MirrorStates
  <2>10. /\ Pg!Becomes(v)
         /\ mirror' = IF m.dirty THEN [m EXCEPT !.dirty = FALSE, !.read = context]
                      ELSE [m EXCEPT !.pc = "rest", !.read = Pg!Empty]
    BY <1>3, <2>1, <2>5, <2>6, <2>8 DEF Pg!SyncDone
  <2>11. generation' = generation
    BY <2>2, <2>7, <2>10 DEF Pg!Becomes
  <2>12. /\ mirror' \in MirrorStates /\ mirror'.registered = entries
         /\ mirror'.queued = mirror.queued
         /\ mirror.dirty => mirror'.pc = m.pc /\ mirror'.read = context
         /\ ~mirror.dirty => mirror'.pc = "rest"
    <3>1. Pg!Empty \in Pg!Tools
      BY DEF Pg!Empty, Pg!Tools
    <3> QED BY <2>9, <2>10, <3>1 DEF MirrorStates
  <2>13. m.pc = "reading"
    BY <1>1, <2>8 DEF MirrorStates
  <2>14. PageTypes'
    BY <1>1, <2>12
  <2>15. ReadSound'
    BY <1>1, <2>12 DEF ReadSound
  <2>16. RestSound'
    <3> SUFFICES ASSUME mirror'.pc = "rest", ~(changeQueued' \/ mirror'.queued),
                        NEW n \in Names
                 PROVE  mirror'.registered[n].def = context'[n]
                        /\ mirror'.registered[n].gen = generation'
      BY DEF RestSound, Following
    <3>1. ~mirror.dirty /\ ~changeQueued /\ ~mirror.queued
      BY <1>1, <2>12, <2>13
    <3>2. mirror.read = context
      BY <1>1, <3>1 DEF ReadSound, Following
    <3> QED BY <1>1, <2>2, <2>6, <2>11, <2>12, <3>2
  <2> QED BY <1>1, <2>7, <2>10, <2>12, <2>14, <2>15, <2>16, Arriving
<1> QED BY <1>2, <1>3


\* What the far ends hear and ask for changes nothing the mirror relies on.
LEMMA Hearing ==
  ASSUME PageInv, PageTypes', WorldOk(Pg!World)', FarTold(Pg!World)',
         UNCHANGED <<context, changeQueued, activated, mirror, closing, generation, embedded>>,
         \A s \in Pg!Servers : server'[s].tools = server[s].tools
  PROVE  PageInv'
<1>1. embedded \in {0} \cup Pg!Servers
  BY WorldFields DEF PageInv, WorldOk, IsWorld
<1>2. Believed(Pg!World, mirror.registered)'
  <2>1. /\ Pg!World'.embedded = embedded /\ Pg!World'.generation = generation
        /\ Pg!World'.server = server'
    BY DEF Pg!World
  <2> QED BY <1>1, <2>1, WorldFields DEF PageInv, Believed
<1>3. ReadSound' /\ RestSound'
  BY DEF PageInv, ReadSound, RestSound, Following, Rebuilding
<1> QED BY <1>2, <1>3 DEF PageInv

\* Whoever is told of a change has something to list again; who lists knows the tools.
LEMMA HearingIsSound ==
  ASSUME PageInv
  PROVE  /\ \A s \in Pg!Servers : Pg!SendToolListChanged(s) => PageInv'
         /\ \A t \in Pg!Tunnels : Pg!Initialize(t) => PageInv'
         /\ \A t \in Pg!Tunnels : Pg!ListTools(t) => PageInv'
<1> USE DEF Pg!serverVars, Pg!peerVars
<1>1. /\ PageTypes /\ WorldOk(Pg!World) /\ FarTold(Pg!World)
      /\ far \in [Pg!Tunnels -> {"new", "told", "listed"}]
      /\ listed \in [Pg!Tunnels -> Pg!Tools]
  BY DEF PageInv, PageTypes
<1>2. /\ embedded \in {0} \cup Pg!Servers /\ generation \in Nat
      /\ embedded \in {0, generation + 1}
      /\ server \in [Pg!Servers -> ServerStates] /\ notice \in SUBSET Pg!Servers
      /\ tunnel \in [Pg!Tunnels -> TunnelStates]
  <2>1. Pg!World \in [embedded : {0} \cup Pg!Servers, generation : Nat,
                      server : [Pg!Servers -> ServerStates], notice : SUBSET Pg!Servers,
                      tunnel : [Pg!Tunnels -> TunnelStates]]
        /\ Pg!World.embedded \in {0, Pg!World.generation + 1}
    BY <1>1 DEF WorldOk, IsWorld
  <2> HIDE DEF Pg!World
  <2> QED BY <2>1, WorldFields
<1>3. \A t \in Pg!Tunnels : tunnel[t].opened /\ tunnel[t].attached =>
        embedded # 0 /\ tunnel[t].of = embedded /\ server[embedded].at = t
  BY <1>1, WorldFields DEF WorldOk, OneHeard, OpenAt
<1>4. PICK k \in Nat : {t \in Pg!Tunnels : tunnel[t].of # 0} = 1..k
  BY <1>1, WorldFields DEF WorldOk, InOrder
<1>5. \A t \in Pg!Tunnels :
        /\ tunnel[t].of = 0 => far[t] = "new"
        /\ (tunnel[t].opened /\ tunnel[t].attached /\ far[t] # "new") =>
             server[embedded].initialized
        /\ (tunnel[t].opened /\ tunnel[t].attached /\ far[t] = "listed") =>
             embedded \in notice \/ listed[t] = server[embedded].tools
  BY <1>1, WorldFields DEF FarTold, OpenAt
<1>6. ASSUME UNCHANGED <<embedded, generation, tunnel>>, notice' \in SUBSET Pg!Servers,
             server' \in [Pg!Servers -> ServerStates],
             \A s \in Pg!Servers : server'[s].at = server[s].at
      PROVE  WorldOk(Pg!World)'
  <2>1. PICK v : v = (Pg!World)'
    OBVIOUS
  <2>2. v = [embedded |-> embedded, generation |-> generation, server |-> server',
             notice |-> notice', tunnel |-> tunnel]
    BY <1>6, <2>1 DEF Pg!World
  <2>3. IsWorld(v)
    BY <1>2, <1>6, <2>2 DEF IsWorld
  <2>4. OneHeard(v)
    BY <1>2, <1>3, <1>6, <2>2 DEF OneHeard, OpenAt
  <2>5. InOrder(v)
    BY <1>4, <2>2 DEF InOrder
  <2> QED BY <2>1, <2>3, <2>4, <2>5 DEF WorldOk, IsWorld, InOrder, OneHeard, OpenAt
<1>7. ASSUME UNCHANGED <<embedded, tunnel>>,
             \A t \in Pg!Tunnels :
               /\ tunnel[t].of = 0 => far'[t] = "new"
               /\ (tunnel[t].opened /\ tunnel[t].attached /\ far'[t] # "new") =>
                    server'[embedded].initialized
               /\ (tunnel[t].opened /\ tunnel[t].attached /\ far'[t] = "listed") =>
                    embedded \in notice' \/ listed'[t] = server'[embedded].tools
      PROVE  FarTold(Pg!World)'
  <2>1. /\ Pg!World'.embedded = embedded /\ Pg!World'.server = server'
        /\ Pg!World'.notice = notice' /\ Pg!World'.tunnel = tunnel
    BY <1>7 DEF Pg!World
  <2> QED BY <1>7, <2>1 DEF FarTold, OpenAt
<1>8. ASSUME NEW s \in Pg!Servers, Pg!SendToolListChanged(s) PROVE PageInv'
  <2>1. /\ notice' = notice \ {s}
        /\ far' = [t \in Pg!Tunnels |->
                     IF server[s].at = t /\ server[s].initialized /\ far[t] = "listed"
                     THEN "told" ELSE far[t]]
        /\ UNCHANGED <<context, changeQueued, activated, toolset, embedded, generation,
                       server, tunnel, mirror, closing, listed>>
    BY <1>8 DEF Pg!SendToolListChanged
  <2>2. far' \in [Pg!Tunnels -> {"new", "told", "listed"}]
    BY <1>1, <2>1
  <2>3. PageTypes'
    BY <1>1, <2>1, <2>2 DEF PageTypes
  <2>4. WorldOk(Pg!World)'
    BY <1>2, <1>6, <2>1
  <2>5. FarTold(Pg!World)'
    <3>1. ASSUME NEW t \in Pg!Tunnels
          PROVE  /\ tunnel[t].of = 0 => far'[t] = "new"
                 /\ (tunnel[t].opened /\ tunnel[t].attached /\ far'[t] # "new") =>
                      server'[embedded].initialized
                 /\ (tunnel[t].opened /\ tunnel[t].attached /\ far'[t] = "listed") =>
                      embedded \in notice' \/ listed'[t] = server'[embedded].tools
      <4>1. far'[t] = IF server[s].at = t /\ server[s].initialized /\ far[t] = "listed"
                      THEN "told" ELSE far[t]
        BY <2>1
      <4>2. (tunnel[t].opened /\ tunnel[t].attached /\ far'[t] = "listed") => embedded # s
        BY <1>3, <1>5, <4>1
      <4> QED BY <1>5, <2>1, <4>1, <4>2
    <3> QED BY <1>7, <2>1, <3>1
  <2> QED BY <2>1, <2>3, <2>4, <2>5, Hearing
<1>9. ASSUME NEW t \in Pg!Tunnels, Pg!Initialize(t) PROVE PageInv'
  <2>1. /\ tunnel[t].opened /\ tunnel[t].attached /\ far[t] = "new"
        /\ server' = [server EXCEPT ![tunnel[t].of].initialized = TRUE]
        /\ far' = [far EXCEPT ![t] = "told"]
        /\ UNCHANGED <<context, changeQueued, activated, toolset, embedded, generation,
                       notice, tunnel, mirror, closing, listed>>
    BY <1>9 DEF Pg!Initialize, Pg!Heard
  <2>2. embedded # 0 /\ tunnel[t].of = embedded /\ embedded \in Pg!Servers
    BY <1>2, <1>3, <2>1
  <2>3. PICK st : st = [server[embedded] EXCEPT !.initialized = TRUE]
    OBVIOUS
  <2>4. /\ st \in ServerStates /\ st.initialized /\ st.at = server[embedded].at
        /\ st.tools = server[embedded].tools
    BY <1>2, <2>2, <2>3 DEF ServerStates
  <2>5. server' = [server EXCEPT ![embedded] = st]
    BY <2>1, <2>2, <2>3
  <2>6. /\ server' \in [Pg!Servers -> ServerStates]
        /\ server'[embedded] = st
        /\ \A s \in Pg!Servers : server'[s].at = server[s].at
                                 /\ server'[s].tools = server[s].tools
    BY <1>2, <2>2, <2>4, <2>5
  <2>7. far' \in [Pg!Tunnels -> {"new", "told", "listed"}]
    BY <1>1, <2>1
  <2>8. PageTypes'
    BY <1>1, <2>1, <2>7 DEF PageTypes
  <2>9. WorldOk(Pg!World)'
    BY <1>2, <1>6, <2>1, <2>6
  <2>10. FarTold(Pg!World)'
    <3>1. \A u \in Pg!Tunnels : far'[u] = IF u = t THEN "told" ELSE far[u]
      BY <1>1, <2>1
    <3>2. UNCHANGED <<embedded, tunnel, notice, listed>>
      BY <2>1
    <3> QED BY <1>5, <1>7, <2>2, <2>4, <2>6, <3>1, <3>2
  <2> QED BY <2>1, <2>6, <2>8, <2>9, <2>10, Hearing
<1>10. ASSUME NEW t \in Pg!Tunnels, Pg!ListTools(t) PROVE PageInv'
  <2>1. /\ tunnel[t].opened /\ tunnel[t].attached /\ far[t] = "told"
        /\ listed' = [listed EXCEPT ![t] = server[tunnel[t].of].tools]
        /\ far' = [far EXCEPT ![t] = "listed"]
        /\ UNCHANGED <<context, changeQueued, activated, toolset, embedded, generation,
                       server, notice, tunnel, mirror, closing>>
    BY <1>10 DEF Pg!ListTools, Pg!Heard
  <2>2. embedded # 0 /\ tunnel[t].of = embedded /\ embedded \in Pg!Servers
    BY <1>2, <1>3, <2>1
  <2>3. server[embedded].tools \in Pg!Tools
    BY <1>2, <2>2 DEF ServerStates
  <2>4. /\ far' \in [Pg!Tunnels -> {"new", "told", "listed"}]
        /\ listed' \in [Pg!Tunnels -> Pg!Tools]
    BY <1>1, <2>1, <2>2, <2>3
  <2>5. PageTypes'
    BY <1>1, <2>1, <2>4 DEF PageTypes
  <2>6. WorldOk(Pg!World)'
    BY <1>2, <1>6, <2>1
  <2>7. FarTold(Pg!World)'
    <3>1. \A u \in Pg!Tunnels :
            /\ far'[u] = IF u = t THEN "listed" ELSE far[u]
            /\ listed'[u] = IF u = t THEN server[embedded].tools ELSE listed[u]
      BY <1>1, <2>1, <2>2
    <3>2. UNCHANGED <<embedded, tunnel, notice, server>>
      BY <2>1
    <3> QED BY <1>5, <1>7, <2>1, <2>2, <3>1, <3>2
  <2> QED BY <2>1, <2>5, <2>6, <2>7, Hearing
<1> QED BY <1>8, <1>9, <1>10

\* A control message that activates: the mirror reads, or is going to.
LEMMA ActivatedArrives ==
  ASSUME PageInv, NEW ts \in BOOLEAN, Pg!Activate(ts)
  PROVE  PageInv'
<1> USE DEF Pg!peerVars
<1>1. /\ PageTypes /\ WorldOk(Pg!World) /\ mirror \in MirrorStates /\ context \in Pg!Tools
      /\ closing \subseteq Closings /\ changeQueued \in BOOLEAN
  BY DEF PageInv, PageTypes
<1>2. /\ UNCHANGED <<context, changeQueued, listed, far>>
      /\ activated' = TRUE /\ toolset' = ts
      /\ Pg!FreshServer(Pg!World) \in Pg!Servers /\ Pg!FreshTunnel(Pg!World) \in Pg!Tunnels
  BY DEF Pg!Activate, Pg!Room
<1>3. CASE activated /\ ts # toolset /\ embedded = 0
  <2>1. /\ mirror' = [mirror EXCEPT !.queued = TRUE]
        /\ Pg!Becomes(Pg!RetireEmbedded(Pg!World)) /\ closing' = closing
    BY <1>3 DEF Pg!Activate, Pg!Rebuild
  <2>2. mirror' \in MirrorStates /\ mirror'.queued /\ mirror'.registered = mirror.registered
    BY <1>1, <2>1 DEF MirrorStates
  <2>3. PageTypes' /\ ReadSound' /\ RestSound'
    BY <1>1, <1>2, <2>1, <2>2 DEF PageTypes, ReadSound, RestSound, Following
  <2>4. /\ WorldOk(Pg!RetireEmbedded(Pg!World))
        /\ Keeps(Pg!World, Pg!RetireEmbedded(Pg!World))
    BY <1>1, <1>3, Retired, WorldFields
  <2> QED BY <1>2, <2>1, <2>2, <2>3, <2>4, Moving
<1>4. CASE activated /\ ts # toolset /\ embedded # 0
  <2>1. PICK v : v = Pg!Disconnect(Pg!RetireEmbedded(Pg!World), embedded)
    OBVIOUS
  <2>2. PICK c : c = [what |-> "rebuild", of |-> embedded, gen |-> generation]
    OBVIOUS
  <2>3. Pg!Becomes(v) /\ closing' = closing \cup {c} /\ mirror' = mirror
    BY <1>4, <2>1, <2>2 DEF Pg!Activate, Pg!Rebuild
  <2>4. c \in Closings /\ c.what = "rebuild"
    BY <1>1, <1>4, <2>2, WorldFields DEF Closings, WorldOk, IsWorld
  <2>5. PageTypes'
    BY <1>1, <1>2, <2>3, <2>4 DEF PageTypes
  <2>6. ReadSound'
    BY <1>2, <2>3 DEF PageInv, ReadSound, Following
  <2>7. RestSound'
    BY <2>3, <2>4 DEF RestSound, Rebuilding
  <2>8. WorldOk(v) /\ Keeps(Pg!World, v)
    BY <1>1, <1>4, <2>1, Retired, WorldFields
  <2> QED BY <1>2, <2>3, <2>5, <2>6, <2>7, <2>8, Moving
<1>5. CASE ~(activated /\ ts # toolset)
  <2>1. PICK v : v = Pg!EmbeddedServer(Pg!World)
    OBVIOUS
  <2>2. Pg!Becomes(v) /\ mirror' = Pg!Sync(mirror) /\ closing' = closing
    BY <1>5, <2>1 DEF Pg!Activate, Pg!ActivateAll
  <2>3. /\ mirror' \in MirrorStates /\ mirror'.registered = mirror.registered
        /\ mirror'.pc = "reading" /\ (mirror'.dirty \/ mirror'.read = context)
    BY <1>1, <2>2, Synced
  <2>4. PageTypes' /\ ReadSound' /\ RestSound'
    BY <1>1, <1>2, <2>2, <2>3 DEF PageTypes, ReadSound, RestSound
  <2>5. WorldOk(v) /\ Keeps(Pg!World, v)
    BY <1>1, <1>2, <2>1, Embedded
  <2> QED BY <1>2, <2>2, <2>3, <2>4, <2>5, Moving
<1> QED BY <1>3, <1>4, <1>5

\* A control message that deactivates: nobody is heard.
LEMMA DeactivatedArrives ==
  ASSUME PageInv, Pg!Deactivate
  PROVE  PageInv'
<1> USE DEF Pg!peerVars
<1>1. PageTypes /\ WorldOk(Pg!World) /\ IsWorld(Pg!World) /\ InOrder(Pg!World)
  BY DEF PageInv, WorldOk
<1>2. PICK w : w = Pg!World
  OBVIOUS
<1>3. PICK servers : servers =
        [s \in Pg!Servers |->
           IF w.server[s].at # 0
           THEN [w.server[s] EXCEPT !.at = 0, !.initialized = FALSE] ELSE w.server[s]]
  OBVIOUS
<1>4. PICK tunnels : tunnels =
        [t \in Pg!Tunnels |-> [w.tunnel[t] EXCEPT !.opened = FALSE, !.attached = FALSE]]
  OBVIOUS
<1>5. PICK v : v = [w EXCEPT !.server = servers, !.tunnel = tunnels]
  OBVIOUS
<1>6. /\ Pg!Becomes(v) /\ activated' = FALSE
      /\ UNCHANGED <<context, changeQueued, toolset, mirror, closing, listed, far>>
  BY <1>1, <1>2, <1>3, <1>4, <1>5 DEF Pg!Deactivate, IsWorld
<1>7. /\ servers \in [Pg!Servers -> ServerStates]
      /\ \A s \in Pg!Servers : servers[s].tools = w.server[s].tools
  BY <1>1, <1>2, <1>3 DEF IsWorld, ServerStates
<1>8. /\ tunnels \in [Pg!Tunnels -> TunnelStates]
      /\ \A t \in Pg!Tunnels : tunnels[t].of = w.tunnel[t].of /\ ~tunnels[t].opened
  BY <1>1, <1>2, <1>4 DEF IsWorld, TunnelStates
<1>9. /\ v.embedded = w.embedded /\ v.generation = w.generation /\ v.notice = w.notice
      /\ v.server = servers /\ v.tunnel = tunnels
  BY <1>1, <1>2, <1>5 DEF IsWorld
<1>10. IsWorld(v)
  BY <1>1, <1>2, <1>5, <1>7, <1>8 DEF IsWorld
<1>11. InOrder(v) /\ OneHeard(v) /\ Keeps(w, v)
  BY <1>1, <1>2, <1>7, <1>8, <1>9 DEF InOrder, OneHeard, OpenAt, Keeps, IsWorld
<1>12. PageTypes' /\ ReadSound' /\ RestSound'
  BY <1>1, <1>6 DEF PageInv, PageTypes, ReadSound, RestSound, Following
<1> QED BY <1>2, <1>6, <1>10, <1>11, <1>12, Moving DEF WorldOk

\* A change of the label closes the tunnel of the server, which connects anew.
LEMMA RelabelledArrives ==
  ASSUME PageInv, Pg!SetLabel
  PROVE  PageInv'
<1> USE DEF Pg!peerVars
<1>1. PageTypes /\ WorldOk(Pg!World) /\ closing \subseteq Closings
  BY DEF PageInv, PageTypes
<1>2. PICK v : v = Pg!Disconnect(Pg!World, embedded)
  OBVIOUS
<1>3. PICK c : c = [what |-> "reconnect", of |-> embedded, gen |-> generation]
  OBVIOUS
<1>4. /\ Pg!Becomes(v) /\ closing' = closing \cup {c} /\ embedded # 0
      /\ UNCHANGED <<context, changeQueued, activated, toolset, mirror, listed, far>>
  BY <1>2, <1>3 DEF Pg!SetLabel
<1>5. embedded \in Pg!Servers /\ generation \in Nat
  BY <1>1, <1>4, WorldFields DEF WorldOk, IsWorld
<1>6. c \in Closings /\ c.what = "reconnect"
  BY <1>3, <1>5 DEF Closings
<1>7. WorldOk(v) /\ Keeps(Pg!World, v) /\ v.generation = generation
  BY <1>1, <1>2, <1>5, Disconnected, WorldFields
<1>8. generation' = generation
  BY <1>4, <1>7 DEF Pg!Becomes
<1>9. PageTypes' /\ ReadSound'
  BY <1>1, <1>4, <1>6 DEF PageInv, PageTypes, ReadSound, Following
<1>10. RestSound'
  BY <1>4, <1>8 DEF PageInv, RestSound, Following, Rebuilding
<1> QED BY <1>4, <1>7, <1>9, <1>10, Moving

\* What waited for a close goes on.
LEMMA ClosedArrives ==
  ASSUME PageInv, NEW c \in closing, Pg!Closed(c)
  PROVE  PageInv'
<1> USE DEF Pg!peerVars, Pg!serverVars
<1>1. /\ PageTypes /\ WorldOk(Pg!World) /\ mirror \in MirrorStates /\ context \in Pg!Tools
      /\ closing \subseteq Closings /\ activated \in BOOLEAN
  BY DEF PageInv, PageTypes
<1>2. /\ UNCHANGED <<context, changeQueued, activated, toolset, listed, far>>
      /\ closing' = closing \ {c}
  BY DEF Pg!Closed
<1>3. CASE c.what = "rebuild"
  <2>1. /\ mirror' = IF activated THEN Pg!Sync(mirror) ELSE mirror
        /\ UNCHANGED <<embedded, generation, server, notice, tunnel>>
    BY <1>3 DEF Pg!Closed
  <2>2. CASE activated
    <3>1. /\ mirror' \in MirrorStates /\ mirror'.registered = mirror.registered
          /\ mirror'.pc = "reading" /\ (mirror'.dirty \/ mirror'.read = context)
      BY <1>1, <2>1, <2>2, Synced
    <3>2. PageTypes' /\ ReadSound' /\ RestSound'
      BY <1>1, <1>2, <3>1 DEF PageTypes, ReadSound, RestSound
    <3> QED BY <1>2, <2>1, <3>1, <3>2, StayingPut
  <2>3. CASE ~activated
    <3>1. PageTypes' /\ ReadSound' /\ RestSound'
      BY <1>1, <1>2, <2>1, <2>3 DEF PageInv, PageTypes, ReadSound, RestSound, Following
    <3> QED BY <1>2, <2>1, <2>3, <3>1, StayingPut
  <2> QED BY <2>2, <2>3
<1>4. CASE c.what # "rebuild"
  <2>1. mirror' = mirror
    BY <1>4 DEF Pg!Closed
  <2>2. PageTypes' /\ ReadSound'
    BY <1>1, <1>2, <2>1 DEF PageInv, PageTypes, ReadSound, Following
  <2>3. Rebuilding => \E d \in closing' : d.what = "rebuild"
    BY <1>2, <1>4 DEF Rebuilding
  <2>4. generation' = generation => RestSound'
    BY <1>2, <2>1, <2>3 DEF PageInv, RestSound, Following, Rebuilding
  <2>5. CASE activated /\ generation = c.gen /\ embedded = c.of
    <3>1. PICK v : v = Pg!Connect(Pg!World, embedded)
      OBVIOUS
    <3>2. Pg!Becomes(v) /\ Pg!FreshTunnel(Pg!World) \in Pg!Tunnels
      BY <1>4, <2>5, <3>1 DEF Pg!Closed, Pg!Room
    <3>3. embedded # 0
      BY <1>1, <2>5 DEF Closings, Pg!Servers
    <3>4. WorldOk(v) /\ Keeps(Pg!World, v) /\ v.generation = generation
      BY <1>1, <1>2, <3>1, <3>2, <3>3, Connected, WorldFields
    <3>5. generation' = generation
      BY <3>2, <3>4 DEF Pg!Becomes
    <3> QED BY <1>2, <2>1, <2>2, <2>4, <3>2, <3>4, <3>5, Moving
  <2>6. CASE ~(activated /\ generation = c.gen /\ embedded = c.of)
    <3>1. UNCHANGED <<embedded, generation, server, notice, tunnel>>
      BY <1>4, <2>6 DEF Pg!Closed
    <3> QED BY <1>2, <2>1, <2>2, <2>4, <3>1, StayingPut
  <2> QED BY <2>5, <2>6
<1> QED BY <1>3, <1>4

\* A session that is over: its tunnel is not heard any more.
LEMMA RemoteClosedArrives ==
  ASSUME PageInv, NEW t \in Pg!Tunnels, Pg!RemoteClosed(t)
  PROVE  PageInv'
<1> USE DEF Pg!peerVars
<1>1. PageTypes /\ WorldOk(Pg!World) /\ IsWorld(Pg!World)
  BY DEF PageInv, WorldOk
<1>2. PICK w : w = Pg!World
  OBVIOUS
<1>3. PICK s : s = w.tunnel[t].of
  OBVIOUS
<1>4. PICK tn : tn = [w.tunnel[t] EXCEPT !.opened = FALSE]
  OBVIOUS
<1>5. PICK v : v = IF w.tunnel[t].attached /\ w.server[s].at = t THEN Pg!Disconnect(w, s)
                   ELSE [w EXCEPT !.tunnel = [w.tunnel EXCEPT ![t] = tn]]
  OBVIOUS
<1>6. /\ Pg!Becomes(v) /\ w.tunnel[t].opened
      /\ UNCHANGED <<context, changeQueued, activated, toolset, mirror, closing, listed, far>>
  <2>1. [w EXCEPT !.tunnel[t].opened = FALSE] =
          [w EXCEPT !.tunnel = [w.tunnel EXCEPT ![t] = tn]]
    BY <1>1, <1>2, <1>4 DEF IsWorld
  <2> QED BY <1>2, <1>3, <1>5, <2>1, WorldFields DEF Pg!RemoteClosed
<1>7. WorldOk(v) /\ Keeps(w, v) /\ v.generation = w.generation
  <2>1. CASE w.tunnel[t].attached /\ w.server[s].at = t
    <3>1. s \in Pg!Servers
      BY <1>1, <1>2, <1>3, <1>6, <2>1 DEF WorldOk, OneHeard, OpenAt, IsWorld
    <3>2. v = Pg!Disconnect(w, s)
      BY <1>5, <2>1
    <3> QED BY <1>1, <1>2, <3>1, <3>2, Disconnected
  <2>2. CASE ~(w.tunnel[t].attached /\ w.server[s].at = t)
    <3>1. tn \in TunnelStates /\ tn.of = w.tunnel[t].of /\ ~tn.opened
      BY <1>1, <1>2, <1>4 DEF IsWorld, TunnelStates
    <3>2. /\ v = [w EXCEPT !.tunnel = v.tunnel] /\ v.tunnel = [w.tunnel EXCEPT ![t] = tn]
          /\ v.embedded = w.embedded /\ v.generation = w.generation
          /\ v.server = w.server /\ v.notice = w.notice
      BY <1>1, <1>2, <1>5, <2>2 DEF IsWorld
    <3>3. /\ v.tunnel \in [Pg!Tunnels -> TunnelStates]
          /\ \A u \in Pg!Tunnels : v.tunnel[u] = IF u = t THEN tn ELSE w.tunnel[u]
      BY <1>1, <1>2, <3>1, <3>2 DEF IsWorld
    <3>4. IsWorld(v)
      BY <1>1, <1>2, <3>2, <3>3 DEF IsWorld
    <3>5. \A u \in Pg!Tunnels : /\ v.tunnel[u].of = w.tunnel[u].of
                                /\ OpenAt(v, u) => OpenAt(w, u)
      BY <3>1, <3>3 DEF OpenAt
    <3>6. InOrder(v) /\ OneHeard(v)
      BY <1>1, <1>2, <3>2, <3>5 DEF WorldOk, InOrder, OneHeard
    <3>7. Keeps(w, v)
      BY <1>1, <1>2, <3>2, <3>5 DEF WorldOk, OneHeard, Keeps, IsWorld
    <3> QED BY <3>2, <3>4, <3>6, <3>7 DEF WorldOk
  <2> QED BY <2>1, <2>2
<1>8. generation' = generation
  BY <1>2, <1>6, <1>7, WorldFields DEF Pg!Becomes
<1>9. PageTypes' /\ ReadSound'
  BY <1>1, <1>6 DEF PageInv, PageTypes, ReadSound, Following
<1>10. RestSound'
  BY <1>6, <1>8 DEF PageInv, RestSound, Following, Rebuilding
<1> QED BY <1>2, <1>6, <1>7, <1>9, <1>10, Moving

\* Whoever is connected to the page, once things have settled, has listed every tool the
\* page has registered, as it is now: tool-mirror.ts's "the tab looks enabled, the page
\* looks registered, and the agent sees nothing" does not come about, whatever reads,
\* rebuilds of the server, changes of the label and sessions overlap.
THEOREM ToolsArrive == Spec => []RegisteredToolsArrive
<1>1. Init => PageInv
  <2> SUFFICES ASSUME Pg!Init PROVE PageInv
    BY DEF Init
  <2>1. Pg!Empty \in Pg!Tools /\ Pg!Forgotten \in MirrorEntries
    BY DEF Pg!Empty, Pg!Tools, Pg!Forgotten, MirrorEntries
  <2>2. PageTypes /\ mirror.pc = "rest" /\ mirror.registered = Pg!Forgotten /\ ~activated
    BY <2>1 DEF Pg!Init, PageTypes, MirrorStates
  <2>3. PICK w : w = Pg!World
    OBVIOUS
  <2>4. /\ w.embedded = 0 /\ w.generation = 0 /\ w.notice = {}
        /\ w.server = [s \in Pg!Servers |-> Pg!NoServer]
        /\ w.tunnel = [t \in Pg!Tunnels |-> Pg!NoTunnel]
        /\ w = [embedded |-> w.embedded, generation |-> w.generation, server |-> w.server,
                notice |-> w.notice, tunnel |-> w.tunnel]
    BY <2>3 DEF Pg!Init, Pg!World
  <2>5. Pg!NoServer \in ServerStates /\ Pg!NoTunnel \in TunnelStates
    BY <2>1 DEF Pg!NoServer, ServerStates, Pg!NoTunnel, TunnelStates
  <2>6. IsWorld(w)
    BY <2>4, <2>5 DEF IsWorld
  <2>7. \A t \in Pg!Tunnels : w.tunnel[t].of = 0 /\ ~w.tunnel[t].opened
    BY <2>4 DEF Pg!NoTunnel
  <2>8. {t \in Pg!Tunnels : w.tunnel[t].of # 0} = 1..0
    BY <2>7
  <2>9. InOrder(w)
    BY <2>8 DEF InOrder
  <2>10. OneHeard(w) /\ FarTold(w)
    BY <2>7 DEF OneHeard, OpenAt, FarTold, Pg!Init
  <2>11. Believed(w, mirror.registered)
    BY <2>2, <2>4 DEF Believed, Pg!Forgotten, Pg!Current
  <2>12. ReadSound /\ RestSound
    BY <2>2 DEF ReadSound, RestSound
  <2> QED BY <2>2, <2>3, <2>6, <2>9, <2>10, <2>11, <2>12 DEF PageInv, WorldOk
<1>2. ASSUME PageInv, [Next]_extensionVars PROVE PageInv'
  <2>1. CASE UNCHANGED pgPart
    <3>1. /\ UNCHANGED <<context, changeQueued, activated, toolset, mirror, closing, listed,
                         far, embedded, generation, server, notice, tunnel>>
      BY <2>1 DEF pgPart
    <3>2. PageTypes' /\ ReadSound' /\ RestSound'
      BY <1>2, <3>1 DEF PageInv, PageTypes, ReadSound, RestSound, Following, Rebuilding
    <3> QED BY <1>2, <3>1, <3>2, StayingPut
  <2>2. CASE Pg!Next
    <3>1. PageInv
      BY <1>2
    <3> QED BY <2>2, <3>1, RegisteringIsFollowed, SyncDoneArrives, HearingIsSound,
               ActivatedArrives, DeactivatedArrives, RelabelledArrives, ClosedArrives,
               RemoteClosedArrives
            DEF Pg!Next
  <2> QED BY <1>2, <2>1, <2>2 DEF Next, extensionVars
<1>3. PageInv => RegisteredToolsArrive
  <2> SUFFICES ASSUME PageInv, Pg!Settled, activated, NEW t \in Pg!Tunnels, NEW n \in Names,
                      Pg!Heard(t), context[n] # Nothing
               PROVE  listed[t][n] = context[n]
    BY DEF RegisteredToolsArrive, Pg!RegisteredToolsArrive
  <2>1. /\ mirror.pc = "rest" /\ ~Following /\ ~Rebuilding /\ notice = {}
        /\ far[t] = "listed"
    BY DEF Pg!Settled, Following, Rebuilding
  <2>2. mirror.registered[n].def = context[n] /\ mirror.registered[n].gen = generation
    BY <2>1 DEF PageInv, RestSound
  <2>3. Pg!Current(mirror.registered[n], generation)
    BY <2>2 DEF Pg!Current
  <2>4. server[embedded].tools[n] = context[n]
    BY <2>2, <2>3, WorldFields DEF PageInv, Believed
  <2>5. listed[t] = server[embedded].tools
    BY <2>1, WorldFields DEF PageInv, FarTold, OpenAt, Pg!Heard
  <2> QED BY <2>4, <2>5
<1> QED BY <1>1, <1>2, <1>3, PTL DEF Spec

(***************************************************************************)
(* The debugger.  A session is made for one tab and stays the tab's; a     *)
(* call that is about to attach has the session it made or found, in the   *)
(* map or not.  Used sessions are the first ones.                          *)
(***************************************************************************)
IsJob(r) == DOMAIN r = {"pc", "kind", "tab", "at", "was", "back", "todo"}
IsSession(r) == DOMAIN r = {"tab", "attached"}

DebuggerTyped ==
  /\ DOMAIN cdpSessions = CdpTabs /\ DOMAIN session = Dbg!Sessions
  /\ \A s \in Dbg!Sessions : IsSession(session[s])
  /\ DOMAIN job = Jobs
  /\ \A j \in Jobs : IsJob(job[j]) /\ (job[j].pc # "idle" => job[j].tab \in CdpTabs)

\* Sessions are made one after the other; one that is not made is not attached.
SessionsInOrder ==
  \E n \in Nat : \A s \in Dbg!Sessions : /\ session[s].tab # UserTab <=> s <= n
                                         /\ n <= MaxSessions
                                         /\ s > n => ~session[s].attached

\* The map and the calls about to attach have sessions of their tabs.
SessionsOfTabs ==
  /\ \A t \in CdpTabs : cdpSessions[t] # 0 => /\ cdpSessions[t] \in Dbg!Sessions
                                              /\ session[cdpSessions[t]].tab = t
  /\ \A j \in Jobs : job[j].pc = "attach" => /\ job[j].at \in Dbg!Sessions
                                             /\ session[job[j].at].tab = job[j].tab

DebuggerInv == DebuggerTyped /\ SessionsInOrder /\ SessionsOfTabs /\ SessionsAreReal

\* What the proofs use of the constants: a bound, and that the user's tab is not the worker's.
LEMMA DebuggerConstants == MaxSessions \in Nat /\ UserTab \notin CdpTabs
BY Bounds DEF Dbg!SessionBound

\* The session cdpSession finds is the tab's; the one it makes is not used.
LEMMA SessionFound ==
  ASSUME DebuggerInv, NEW t \in CdpTabs, Dbg!SessionOf(t) \in Dbg!Sessions
  PROVE \/ cdpSessions[t] = Dbg!SessionOf(t) /\ session[Dbg!SessionOf(t)].tab = t
        \/ /\ cdpSessions[t] = 0 /\ session[Dbg!SessionOf(t)].tab = UserTab
           /\ ~session[Dbg!SessionOf(t)].attached
           /\ \E n \in Nat : /\ Dbg!SessionOf(t) = n + 1
                             /\ \A s \in Dbg!Sessions : /\ session[s].tab # UserTab <=> s <= n
                                                        /\ s > n => ~session[s].attached
<1>1. CASE cdpSessions[t] # 0
  BY <1>1 DEF Dbg!SessionOf, DebuggerInv, SessionsOfTabs
<1>2. CASE cdpSessions[t] = 0
  <2>1. PICK n \in Nat : \A s \in Dbg!Sessions : /\ session[s].tab # UserTab <=> s <= n
                                                 /\ n <= MaxSessions
                                                 /\ s > n => ~session[s].attached
    BY DEF DebuggerInv, SessionsInOrder
  <2> DEFINE used == {s \in Dbg!Sessions : session[s].tab # UserTab}
  <2>2. CASE Dbg!Sessions = {}
    BY <2>2
  <2>3. CASE Dbg!Sessions # {}
    <3>1. used = 1..n BY <2>1, <2>3, DebuggerConstants DEF Dbg!Sessions
    <3>2. Cardinality(1..n) = n BY FS_Interval
    <3>3. Dbg!SessionOf(t) = n + 1
      BY <1>2, <3>1, <3>2 DEF Dbg!SessionOf, Dbg!FreshSession, Dbg!Cardinality, Cardinality
    <3>4. n + 1 > n /\ ~(n + 1 <= n) OBVIOUS
    <3> QED BY <1>2, <2>1, <3>3, <3>4
  <2> QED BY <2>2, <2>3
<1> QED BY <1>1, <1>2

\* What detachCdp does: a tab that was attached waits for the end, the others are
\* forgotten, and no session changes.
LEMMA DetachKeeps ==
  ASSUME DebuggerInv, NEW tabs \in SUBSET CdpTabs, NEW who, Dbg!DetachCdp(tabs, who),
         session' = session, ended' = ended
  PROVE /\ DOMAIN cdpSessions' = CdpTabs
        /\ \A t \in CdpTabs : cdpSessions'[t] # 0 => cdpSessions'[t] = cdpSessions[t]
        /\ SessionsAreReal'
<1>0. PICK real : real = {t \in tabs : Dbg!Attached(t)} OBVIOUS
<1>1. /\ bar' = bar \ real /\ sweep' = sweep \cup {[tab |-> t, job |-> who] : t \in real}
      /\ cdpSessions' = [t \in CdpTabs |-> IF t \in tabs \ real THEN 0 ELSE cdpSessions[t]]
  BY <1>0 DEF Dbg!DetachCdp
<1>2. \A t \in CdpTabs : cdpSessions'[t] # 0 => cdpSessions'[t] = cdpSessions[t] BY <1>1
<1>3. ASSUME NEW t \in CdpTabs, Dbg!Attached(t)'
      PROVE t \in bar' \cup ended' \/ \E d \in sweep' : d.tab = t
  <2>1. Dbg!Attached(t) BY <1>2, <1>3 DEF Dbg!Attached
  <2>2. CASE t \in real
    <3>1. [tab |-> t, job |-> who] \in sweep' BY <1>1, <2>2
    <3> QED BY <3>1
  <2>3. CASE t \notin real
    <3>1. t \in bar \cup ended \/ \E d \in sweep : d.tab = t
      BY <2>1 DEF DebuggerInv, SessionsAreReal, Dbg!SessionsAreReal
    <3> QED BY <3>1, <2>3, <1>1
  <2> QED BY <2>2, <2>3
<1>4. SessionsAreReal' BY <1>3 DEF SessionsAreReal, Dbg!SessionsAreReal
<1> QED BY <1>1, <1>2, <1>4

\* What changes neither sessions nor calls but for ends of calls keeps the rest.
LEMMA EndsKeep ==
  ASSUME DebuggerInv, session' = session, DOMAIN cdpSessions' = CdpTabs,
         \A t \in CdpTabs : cdpSessions'[t] # 0 => cdpSessions'[t] = cdpSessions[t],
         DOMAIN job' = Jobs,
         \A j \in Jobs : /\ IsJob(job'[j])
                         /\ job'[j].pc # "idle" => job'[j].tab \in CdpTabs
                         /\ job'[j].pc = "attach" => job'[j] = job[j]
  PROVE DebuggerTyped' /\ SessionsInOrder' /\ SessionsOfTabs'
<1>1. DebuggerTyped' BY DEF DebuggerInv, DebuggerTyped
<1>2. SessionsInOrder' BY DEF DebuggerInv, SessionsInOrder
<1>3. SessionsOfTabs' BY DEF DebuggerInv, SessionsOfTabs
<1> QED BY <1>1, <1>2, <1>3

\* A call without a session to speak of.
LEMMA FreeJob == IsJob(Dbg!Free) /\ Dbg!Free.pc = "idle"
BY DEF Dbg!Free, IsJob

\* The call j goes on as r.
LEMMA JobPut ==
  ASSUME DebuggerTyped, NEW j \in Jobs, NEW r, Dbg!Put(j, r), IsJob(r),
         r.pc # "idle" => r.tab \in CdpTabs
  PROVE /\ DOMAIN job' = Jobs /\ job'[j] = r /\ \A k \in Jobs : k # j => job'[k] = job[k]
        /\ \A k \in Jobs : IsJob(job'[k]) /\ (job'[k].pc # "idle" => job'[k].tab \in CdpTabs)
<1>1. job' = [job EXCEPT ![j] = r] /\ DOMAIN job = Jobs BY DEF Dbg!Put, DebuggerTyped
<1>2. DOMAIN job' = Jobs /\ job'[j] = r /\ \A k \in Jobs : k # j => job'[k] = job[k] BY <1>1
<1> QED BY <1>2 DEF DebuggerTyped

\* The calls' steps that touch no session.
LEMMA CallsKeepSessions ==
  ASSUME DebuggerInv, NEW j \in Jobs
  PROVE /\ Dbg!WasAttached(j) => DebuggerInv'
        /\ Dbg!FocusTab(j) => DebuggerInv'
        /\ Dbg!SendCommand(j) => DebuggerInv'
        /\ Dbg!RestoreFocus(j) => DebuggerInv'
        /\ Dbg!Finally(j) => DebuggerInv'
        /\ \A kind : \A t \in CdpTabs : Dbg!RunExt(j, kind, t) => DebuggerInv'
<1>0. IsJob(job[j]) /\ DebuggerTyped /\ (job[j].pc # "idle" => job[j].tab \in CdpTabs)
      /\ DOMAIN cdpSessions = CdpTabs
  BY DEF DebuggerInv, DebuggerTyped
<1>1. ASSUME NEW r, Dbg!Put(j, r), IsJob(r), r.pc # "idle" => r.tab \in CdpTabs,
             r.pc # "attach", session' = session, cdpSessions' = cdpSessions,
             SessionsAreReal'
      PROVE DebuggerInv'
  <2>1. /\ DOMAIN job' = Jobs /\ job'[j] = r /\ \A k \in Jobs : k # j => job'[k] = job[k]
        /\ \A k \in Jobs : IsJob(job'[k]) /\ (job'[k].pc # "idle" => job'[k].tab \in CdpTabs)
    BY <1>0, <1>1, JobPut
  <2>2. \A k \in Jobs : job'[k].pc = "attach" => job'[k] = job[k] BY <2>1, <1>1
  <2>3. DebuggerTyped' /\ SessionsInOrder' /\ SessionsOfTabs'
    BY <1>0, <1>1, <2>1, <2>2, EndsKeep
  <2> QED BY <2>3, <1>1 DEF DebuggerInv
<1>2. ASSUME UNCHANGED <<cdpSessions, session, bar, ended, sweep>> PROVE SessionsAreReal'
  BY <1>2 DEF DebuggerInv, SessionsAreReal, Dbg!SessionsAreReal, Dbg!Attached
<1>3. ASSUME Dbg!WasAttached(j) PROVE DebuggerInv'
  <2>1. PICK r : r = [job[j] EXCEPT !.was = Dbg!Attached(job[j].tab), !.pc = "ensure"] OBVIOUS
  <2>2. IsJob(r) /\ r.pc = "ensure" /\ r.tab = job[j].tab BY <2>1, <1>0 DEF IsJob
  <2>3. Dbg!Put(j, r) /\ UNCHANGED <<cdpSessions, session, bar, ended, sweep>>
        /\ job[j].pc = "permission"
    BY <2>1, <1>3 DEF Dbg!WasAttached
  <2> QED BY <2>2, <2>3, <1>0, <1>1, <1>2
<1>4. ASSUME Dbg!FocusTab(j) PROVE DebuggerInv'
  <2>1. PICK r : r = [job[j] EXCEPT !.back = active, !.pc = "run"] OBVIOUS
  <2>2. IsJob(r) /\ r.pc = "run" /\ r.tab = job[j].tab BY <2>1, <1>0 DEF IsJob
  <2>3. Dbg!Put(j, r) /\ UNCHANGED <<cdpSessions, session, bar, ended, sweep>>
        /\ job[j].pc = "focus"
    BY <2>1, <1>4 DEF Dbg!FocusTab
  <2> QED BY <2>2, <2>3, <1>0, <1>1, <1>2
<1>5. ASSUME Dbg!RestoreFocus(j) PROVE DebuggerInv'
  <2>1. PICK r : r = [job[j] EXCEPT !.pc = "finally"] OBVIOUS
  <2>2. IsJob(r) /\ r.pc = "finally" /\ r.tab = job[j].tab BY <2>1, <1>0 DEF IsJob
  <2>3. Dbg!Put(j, r) /\ UNCHANGED <<cdpSessions, session, bar, ended, sweep>>
        /\ job[j].pc = "restore"
    BY <2>1, <1>5 DEF Dbg!RestoreFocus
  <2> QED BY <2>2, <2>3, <1>0, <1>1, <1>2
<1>6. ASSUME Dbg!SendCommand(j) PROVE DebuggerInv'
  <2>0. job[j].pc = "run" /\ UNCHANGED <<cdpSessions, session, bar, ended, sweep>>
    BY <1>6 DEF Dbg!SendCommand
  <2>1. PICK todo, onward : /\ onward \in {"restore", "finally", "run"}
                            /\ \/ Dbg!Put(j, Dbg!Free)
                               \/ Dbg!Put(j, [job[j] EXCEPT !.todo = todo])
                               \/ Dbg!Put(j, [job[j] EXCEPT !.todo = todo, !.pc = onward])
    BY <1>6 DEF Dbg!SendCommand
  <2>2. PICK r : /\ Dbg!Put(j, r)
                 /\ r \in {Dbg!Free, [job[j] EXCEPT !.todo = todo],
                           [job[j] EXCEPT !.todo = todo, !.pc = onward]}
    BY <2>1
  <2>3. IsJob(r) /\ r.pc # "attach" /\ (r.pc # "idle" => r.tab = job[j].tab)
    BY <2>0, <2>1, <2>2, <1>0, FreeJob DEF IsJob
  <2> QED BY <2>0, <2>2, <2>3, <1>0, <1>1, <1>2
<1>7. ASSUME NEW t \in CdpTabs, Dbg!DetachCdp({t}, j), NEW r, Dbg!Put(j, r), IsJob(r),
             r.pc # "idle" => r.tab \in CdpTabs, r.pc # "attach",
             session' = session, ended' = ended
      PROVE DebuggerInv'
  <2>1. /\ DOMAIN cdpSessions' = CdpTabs /\ SessionsAreReal'
        /\ \A u \in CdpTabs : cdpSessions'[u] # 0 => cdpSessions'[u] = cdpSessions[u]
    BY <1>7, DetachKeeps
  <2>2. /\ DOMAIN job' = Jobs /\ job'[j] = r /\ \A k \in Jobs : k # j => job'[k] = job[k]
        /\ \A k \in Jobs : IsJob(job'[k]) /\ (job'[k].pc # "idle" => job'[k].tab \in CdpTabs)
    BY <1>0, <1>7, JobPut
  <2>3. \A k \in Jobs : job'[k].pc = "attach" => job'[k] = job[k] BY <2>2, <1>7
  <2>4. DebuggerTyped' /\ SessionsInOrder' /\ SessionsOfTabs'
    BY <1>7, <2>1, <2>2, <2>3, EndsKeep
  <2> QED BY <2>1, <2>4 DEF DebuggerInv
<1>8. ASSUME Dbg!Finally(j) PROVE DebuggerInv'
  <2>0. PICK t : t = job[j].tab OBVIOUS
  <2>1. t \in CdpTabs /\ session' = session /\ ended' = ended BY <2>0, <1>0, <1>8 DEF Dbg!Finally
  <2>2. PICK r : /\ Dbg!Put(j, r) /\ r \in {Dbg!Free, [job[j] EXCEPT !.pc = "detaching"]}
    BY <1>8 DEF Dbg!Finally
  <2>3. IsJob(r) /\ r.pc # "attach" /\ (r.pc # "idle" => r.tab \in CdpTabs)
    BY <2>0, <2>1, <2>2, <1>0, FreeJob DEF IsJob
  <2>4. \/ Dbg!DetachCdp({t}, j)
        \/ UNCHANGED <<bar, sweep, cdpSessions>>
    BY <2>0, <1>8 DEF Dbg!Finally
  <2> QED BY <2>1, <2>2, <2>3, <2>4, <1>1, <1>2, <1>7
<1>9. ASSUME NEW kind, NEW t \in CdpTabs, Dbg!RunExt(j, kind, t) PROVE DebuggerInv'
  <2>1. PICK r : /\ Dbg!Put(j, r) /\ IsJob(r) /\ r.pc # "attach"
                 /\ r.pc # "idle" => r.tab = t
    <3>1. CASE kind = "detach"
      <4>1. PICK r : /\ Dbg!Put(j, r)
                     /\ r \in {Dbg!Free,
                               [Dbg!Free EXCEPT !.pc = "detaching", !.kind = kind, !.tab = t]}
        BY <1>9, <3>1 DEF Dbg!RunExt
      <4> QED BY <4>1, FreeJob DEF IsJob
    <3>2. CASE kind # "detach"
      <4>1. PICK onward : onward = IF kind \in Dbg!Inputs \cup {"capture"} THEN "permission"
                                   ELSE "ensure"
        OBVIOUS
      <4>2. PICK todo : todo = Dbg!CommandsOf(kind) OBVIOUS
      <4>3. PICK r : r = [Dbg!Free EXCEPT !.pc = onward, !.kind = kind, !.tab = t, !.todo = todo]
        OBVIOUS
      <4>4. Dbg!Put(j, r) BY <1>9, <3>2, <4>1, <4>2, <4>3 DEF Dbg!RunExt
      <4>5. IsJob(r) /\ r.pc = onward /\ r.tab = t BY <4>3, FreeJob DEF IsJob
      <4> QED BY <4>1, <4>4, <4>5
    <3> QED BY <3>1, <3>2
  <2>2. session' = session /\ ended' = ended
        /\ (Dbg!DetachCdp({t}, j) \/ UNCHANGED <<bar, sweep, cdpSessions>>)
    BY <1>9 DEF Dbg!RunExt
  <2> QED BY <2>1, <2>2, <1>1, <1>2, <1>7
<1> QED BY <1>3, <1>4, <1>5, <1>6, <1>8, <1>9

\* ensureCdpAttached and the attach it may need.
LEMMA AttachKeepsSessions ==
  ASSUME DebuggerInv, NEW j \in Jobs
  PROVE /\ Dbg!EnsureCdpAttached(j) => DebuggerInv'
        /\ Dbg!Attach(j) => DebuggerInv'
<1>0. /\ IsJob(job[j]) /\ DebuggerTyped /\ (job[j].pc # "idle" => job[j].tab \in CdpTabs)
      /\ DOMAIN cdpSessions = CdpTabs /\ DOMAIN session = Dbg!Sessions
      /\ \A s \in Dbg!Sessions : IsSession(session[s])
  BY DEF DebuggerInv, DebuggerTyped
<1>1. ASSUME Dbg!EnsureCdpAttached(j) PROVE DebuggerInv'
  <2>1. PICK t : t = job[j].tab OBVIOUS
  <2>2. PICK s : s = Dbg!SessionOf(t) OBVIOUS
  <2>3. PICK r : r = [job[j] EXCEPT !.at = s,
                        !.pc = IF session[s].attached THEN Dbg!Ready(j) ELSE "attach"]
    OBVIOUS
  <2>4. PICK o : o = Dbg!NewSession(s, t) OBVIOUS
  <2>5. /\ t \in CdpTabs /\ s \in Dbg!Sessions
        /\ session' = [session EXCEPT ![s] = o]
        /\ cdpSessions' = [cdpSessions EXCEPT ![t] = s]
        /\ Dbg!Put(j, r) /\ UNCHANGED <<bar, ended, sweep>>
    BY <1>0, <1>1, <2>1, <2>2, <2>3, <2>4 DEF Dbg!EnsureCdpAttached
  <2>6. IsJob(r) /\ r.tab = t /\ r.at = s BY <2>1, <2>3, <1>0 DEF IsJob
  <2>7. /\ DOMAIN job' = Jobs /\ job'[j] = r /\ \A k \in Jobs : k # j => job'[k] = job[k]
        /\ \A k \in Jobs : IsJob(job'[k]) /\ (job'[k].pc # "idle" => job'[k].tab \in CdpTabs)
    BY <2>5, <2>6, <1>0, JobPut
  <2>8. \/ /\ cdpSessions[t] = s /\ session[s].tab = t /\ o = session[s]
        \/ /\ cdpSessions[t] = 0 /\ session[s].tab = UserTab /\ ~session[s].attached
           /\ IsSession(o) /\ o.tab = t /\ ~o.attached
           /\ \E n \in Nat : /\ s = n + 1
                             /\ \A i \in Dbg!Sessions : /\ session[i].tab # UserTab <=> i <= n
                                                        /\ i > n => ~session[i].attached
    BY <2>2, <2>4, <2>5, SessionFound, DebuggerConstants DEF Dbg!NewSession, IsSession
  <2>9. /\ IsSession(o) /\ o.tab = t /\ (o.attached => session[s].attached)
        /\ session[s].tab \in {t, UserTab}
    BY <2>5, <2>8, <1>0
  <2>10. DebuggerTyped'
    BY <2>5, <2>7, <2>9, <1>0 DEF DebuggerTyped
  <2>11. SessionsInOrder'
    <3>1. CASE o = session[s]
      <4>1. \A i \in Dbg!Sessions : session'[i] = session[i] BY <3>1, <2>5, <1>0
      <4> QED BY <4>1 DEF DebuggerInv, SessionsInOrder
    <3>2. CASE o # session[s]
      <4>1. PICK n \in Nat : /\ s = n + 1
                             /\ \A i \in Dbg!Sessions : /\ session[i].tab # UserTab <=> i <= n
                                                        /\ i > n => ~session[i].attached
        BY <3>2, <2>8
      <4>2. /\ session'[s] = o /\ o.tab # UserTab /\ ~o.attached
            /\ \A i \in Dbg!Sessions : i # s => session'[i] = session[i]
        BY <3>2, <2>5, <2>8, <1>0, DebuggerConstants
      <4>3. n + 1 \in Nat /\ n + 1 <= MaxSessions BY <4>1, <2>5, DebuggerConstants DEF Dbg!Sessions
      <4>4. ASSUME NEW i \in Dbg!Sessions
            PROVE /\ session'[i].tab # UserTab <=> i <= n + 1
                  /\ i > n + 1 => ~session'[i].attached
        <5>1. i \in Nat BY DebuggerConstants DEF Dbg!Sessions
        <5> QED BY <5>1, <4>1, <4>2
      <4> QED BY <4>3, <4>4 DEF SessionsInOrder
    <3> QED BY <3>1, <3>2
  <2>12. SessionsOfTabs'
    <3>1. ASSUME NEW u \in CdpTabs, cdpSessions'[u] # 0
          PROVE cdpSessions'[u] \in Dbg!Sessions /\ session'[cdpSessions'[u]].tab = u
      <4>1. CASE u = t BY <4>1, <2>5, <2>9, <1>0
      <4>2. CASE u # t
        <5>1. cdpSessions'[u] = cdpSessions[u] BY <4>2, <2>5, <1>0
        <5>2. cdpSessions[u] \in Dbg!Sessions /\ session[cdpSessions[u]].tab = u
          BY <5>1, <3>1 DEF DebuggerInv, SessionsOfTabs
        <5>3. cdpSessions[u] # s BY <5>2, <4>2, <2>9, DebuggerConstants
        <5> QED BY <5>1, <5>2, <5>3, <2>5, <1>0
      <4> QED BY <4>1, <4>2
    <3>2. ASSUME NEW k \in Jobs, job'[k].pc = "attach"
          PROVE job'[k].at \in Dbg!Sessions /\ session'[job'[k].at].tab = job'[k].tab
      <4>1. CASE k = j BY <4>1, <2>5, <2>6, <2>7, <2>9, <1>0
      <4>2. CASE k # j
        <5>1. job[k].at \in Dbg!Sessions /\ session[job[k].at].tab = job[k].tab
              /\ job[k].tab \in CdpTabs /\ job'[k] = job[k]
          BY <4>2, <3>2, <2>7 DEF DebuggerInv, SessionsOfTabs, DebuggerTyped
        <5>2. CASE job[k].at = s BY <5>1, <5>2, <2>5, <2>9, <1>0, DebuggerConstants
        <5>3. CASE job[k].at # s BY <5>1, <5>3, <2>5, <1>0
        <5> QED BY <5>2, <5>3
      <4> QED BY <4>1, <4>2
    <3> QED BY <3>1, <3>2 DEF SessionsOfTabs
  <2>13. SessionsAreReal'
    <3>1. ASSUME NEW u \in CdpTabs, cdpSessions'[u] # 0, session'[cdpSessions'[u]].attached
          PROVE cdpSessions[u] # 0 /\ session[cdpSessions[u]].attached
      <4>1. CASE u = t
        <5>1. o.attached BY <4>1, <3>1, <2>5, <1>0
        <5> QED BY <4>1, <5>1, <2>8, <3>1, <2>5, <1>0
      <4>2. CASE u # t
        <5>1. cdpSessions'[u] = cdpSessions[u] BY <4>2, <2>5, <1>0
        <5>2. cdpSessions[u] \in Dbg!Sessions /\ session[cdpSessions[u]].tab = u
          BY <5>1, <3>1 DEF DebuggerInv, SessionsOfTabs
        <5>3. cdpSessions[u] # s BY <5>2, <4>2, <2>9, DebuggerConstants
        <5> QED BY <5>1, <5>2, <5>3, <3>1, <2>5, <1>0
      <4> QED BY <4>1, <4>2
    <3> QED BY <3>1, <2>5 DEF DebuggerInv, SessionsAreReal, Dbg!SessionsAreReal, Dbg!Attached
  <2> QED BY <2>10, <2>11, <2>12, <2>13 DEF DebuggerInv
<1>2. ASSUME Dbg!Attach(j) PROVE DebuggerInv'
  <2>0. PICK t : t = job[j].tab OBVIOUS
  <2>1. PICK a : a = job[j].at OBVIOUS
  <2>2. /\ job[j].pc = "attach" /\ UNCHANGED <<cdpSessions, ended, sweep>> /\ t \in CdpTabs
        /\ a \in Dbg!Sessions /\ session[a].tab = t
    BY <1>0, <1>2, <2>0, <2>1 DEF Dbg!Attach, DebuggerInv, SessionsOfTabs
  <2>3. CASE t \in bar
    <3>1. Dbg!Put(j, Dbg!Free) /\ UNCHANGED <<session, bar>>
      BY <1>2, <2>0, <2>3 DEF Dbg!Attach
    <3>2. /\ DOMAIN job' = Jobs /\ job'[j] = Dbg!Free /\ \A k \in Jobs : k # j => job'[k] = job[k]
          /\ \A k \in Jobs : IsJob(job'[k]) /\ (job'[k].pc # "idle" => job'[k].tab \in CdpTabs)
      BY <3>1, <1>0, JobPut, FreeJob
    <3>3. \A k \in Jobs : job'[k].pc = "attach" => job'[k] = job[k] BY <3>2, FreeJob
    <3>4. DebuggerTyped' /\ SessionsInOrder' /\ SessionsOfTabs'
      BY <3>1, <3>2, <3>3, <2>2, <1>0, EndsKeep
    <3>5. SessionsAreReal'
      BY <3>1, <2>2 DEF DebuggerInv, SessionsAreReal, Dbg!SessionsAreReal, Dbg!Attached
    <3> QED BY <3>4, <3>5 DEF DebuggerInv
  <2>4. CASE t \notin bar
    <3>1. PICK r : r = [job[j] EXCEPT !.pc = Dbg!Ready(j)] OBVIOUS
    <3>2. /\ bar' = bar \cup {t} /\ session' = [session EXCEPT ![a].attached = TRUE]
          /\ Dbg!Put(j, r)
      BY <1>2, <2>0, <2>1, <2>4, <3>1 DEF Dbg!Attach
    <3>3. IsJob(r) /\ r.tab = t /\ r.pc \in {"focus", "run"}
      BY <3>1, <2>0, <1>0 DEF IsJob, Dbg!Ready
    <3>4. /\ DOMAIN job' = Jobs /\ job'[j] = r /\ \A k \in Jobs : k # j => job'[k] = job[k]
          /\ \A k \in Jobs : IsJob(job'[k]) /\ (job'[k].pc # "idle" => job'[k].tab \in CdpTabs)
      BY <3>2, <3>3, <2>2, <1>0, JobPut
    <3>5. /\ DOMAIN session' = Dbg!Sessions
          /\ \A s \in Dbg!Sessions : /\ IsSession(session'[s]) /\ session'[s].tab = session[s].tab
                                     /\ s # a => session'[s] = session[s]
      BY <3>2, <2>2, <1>0 DEF IsSession
    <3>6. DebuggerTyped' BY <3>4, <3>5, <2>2, <1>0 DEF DebuggerTyped
    <3>7. SessionsInOrder'
      <4>1. PICK n \in Nat : \A s \in Dbg!Sessions : /\ session[s].tab # UserTab <=> s <= n
                                                     /\ n <= MaxSessions
                                                     /\ s > n => ~session[s].attached
        BY DEF DebuggerInv, SessionsInOrder
      <4>2. a <= n BY <4>1, <2>2, DebuggerConstants
      <4>3. ~(a > n) BY <4>2, <2>2, DebuggerConstants DEF Dbg!Sessions
      <4> QED BY <4>1, <4>3, <3>5 DEF SessionsInOrder
    <3>8. SessionsOfTabs'
      BY <3>3, <3>4, <3>5, <2>2 DEF DebuggerInv, SessionsOfTabs
    <3>9. SessionsAreReal'
      <4>1. ASSUME NEW u \in CdpTabs, cdpSessions[u] # 0, session'[cdpSessions[u]].attached
            PROVE u \in bar' \/ (cdpSessions[u] # 0 /\ session[cdpSessions[u]].attached)
        <5>1. cdpSessions[u] \in Dbg!Sessions /\ session[cdpSessions[u]].tab = u
          BY <4>1 DEF DebuggerInv, SessionsOfTabs
        <5>2. CASE cdpSessions[u] = a BY <5>1, <5>2, <2>2, <3>2
        <5>3. CASE cdpSessions[u] # a BY <5>1, <5>3, <3>5, <4>1
        <5> QED BY <5>2, <5>3
      <4> QED
        BY <4>1, <2>2, <3>2 DEF DebuggerInv, SessionsAreReal, Dbg!SessionsAreReal, Dbg!Attached
    <3> QED BY <3>6, <3>7, <3>8, <3>9 DEF DebuggerInv
  <2> QED BY <2>3, <2>4
<1> QED BY <1>1, <1>2

\* Ends of sessions, the settings, disabled tabs and the user.
LEMMA OthersKeepSessions ==
  ASSUME DebuggerInv
  PROVE /\ \A d \in sweep : Dbg!Detached(d) => DebuggerInv'
        /\ \A t \in CdpTabs : Dbg!UserDetaches(t) \/ Dbg!OnDetach(t) \/ Dbg!DisableTab(t)
                              => DebuggerInv'
        /\ \A t : Dbg!UserFocuses(t) => DebuggerInv'
        /\ \A new : Dbg!SetSettings(new) => DebuggerInv'
<1>0. /\ DebuggerTyped /\ DOMAIN cdpSessions = CdpTabs /\ DOMAIN job = Jobs
      /\ \A j \in Jobs : IsJob(job[j]) /\ (job[j].pc # "idle" => job[j].tab \in CdpTabs)
  BY DEF DebuggerInv, DebuggerTyped
<1>1. ASSUME session' = session, DOMAIN cdpSessions' = CdpTabs, SessionsAreReal',
             \A t \in CdpTabs : cdpSessions'[t] # 0 => cdpSessions'[t] = cdpSessions[t],
             job' = job
      PROVE DebuggerInv'
  <2>1. DebuggerTyped' /\ SessionsInOrder' /\ SessionsOfTabs' BY <1>0, <1>1, EndsKeep
  <2> QED BY <2>1, <1>1 DEF DebuggerInv
<1>2. ASSUME UNCHANGED <<cdpSessions, session>>, bar \cup ended \subseteq bar' \cup ended',
             sweep' = sweep
      PROVE SessionsAreReal'
  BY <1>2 DEF DebuggerInv, SessionsAreReal, Dbg!SessionsAreReal, Dbg!Attached
<1>3. ASSUME NEW d \in sweep, Dbg!Detached(d) PROVE DebuggerInv'
  <2>1. /\ cdpSessions' = [cdpSessions EXCEPT ![d.tab] = 0] /\ sweep' = sweep \ {d}
        /\ UNCHANGED <<session, bar, ended>>
        /\ job' = [j \in Jobs |-> IF d.job = j /\ job[j].pc = "detaching" THEN Dbg!Free
                                  ELSE job[j]]
    BY <1>3 DEF Dbg!Detached
  <2>2. /\ DOMAIN cdpSessions' = CdpTabs
        /\ \A t \in CdpTabs : cdpSessions'[t] = IF t = d.tab THEN 0 ELSE cdpSessions[t]
    BY <2>1, <1>0
  <2>3. /\ DOMAIN job' = Jobs /\ \A j \in Jobs : job'[j] \in {Dbg!Free, job[j]} BY <2>1
  <2>4. \A j \in Jobs : /\ IsJob(job'[j])
                        /\ job'[j].pc # "idle" => job'[j].tab \in CdpTabs
                        /\ job'[j].pc = "attach" => job'[j] = job[j]
    BY <2>3, <1>0, FreeJob
  <2>5. DebuggerTyped' /\ SessionsInOrder' /\ SessionsOfTabs'
    BY <2>1, <2>2, <2>3, <2>4, EndsKeep
  <2>6. ASSUME NEW t \in CdpTabs, Dbg!Attached(t)'
        PROVE t \in bar' \cup ended' \/ \E e \in sweep' : e.tab = t
    <3>1. t # d.tab /\ Dbg!Attached(t) BY <2>6, <2>1, <2>2 DEF Dbg!Attached
    <3> QED BY <3>1, <2>1 DEF DebuggerInv, SessionsAreReal, Dbg!SessionsAreReal
  <2>7. SessionsAreReal' BY <2>6 DEF SessionsAreReal, Dbg!SessionsAreReal
  <2> QED BY <2>5, <2>7 DEF DebuggerInv
<1>4. ASSUME NEW t \in CdpTabs, Dbg!UserDetaches(t) PROVE DebuggerInv'
  <2>1. /\ bar' = bar \ {t} /\ ended' = ended \cup {t}
        /\ UNCHANGED <<cdpSessions, session, sweep, job>>
    BY <1>4 DEF Dbg!UserDetaches, Dbg!jobVars
  <2>2. SessionsAreReal' BY <2>1, <1>2
  <2> QED BY <2>1, <2>2, <1>0, <1>1
<1>5. ASSUME NEW t \in CdpTabs, Dbg!OnDetach(t) PROVE DebuggerInv'
  <2>1. /\ cdpSessions' = [cdpSessions EXCEPT ![t] = 0] /\ ended' = ended \ {t}
        /\ UNCHANGED <<session, bar, sweep, job>>
    BY <1>5 DEF Dbg!OnDetach, Dbg!jobVars
  <2>2. /\ DOMAIN cdpSessions' = CdpTabs
        /\ \A u \in CdpTabs : cdpSessions'[u] = IF u = t THEN 0 ELSE cdpSessions[u]
    BY <2>1, <1>0
  <2>3. ASSUME NEW u \in CdpTabs, Dbg!Attached(u)'
        PROVE u \in bar' \cup ended' \/ \E e \in sweep' : e.tab = u
    <3>1. u # t /\ Dbg!Attached(u) BY <2>3, <2>1, <2>2 DEF Dbg!Attached
    <3> QED BY <3>1, <2>1 DEF DebuggerInv, SessionsAreReal, Dbg!SessionsAreReal
  <2>4. SessionsAreReal' BY <2>3 DEF SessionsAreReal, Dbg!SessionsAreReal
  <2> QED BY <2>1, <2>2, <2>4, <1>1
<1>6. ASSUME NEW tabs \in SUBSET CdpTabs, Dbg!DetachCdp(tabs, UserTab),
             UNCHANGED <<session, ended, job>>
      PROVE DebuggerInv'
  <2>1. /\ DOMAIN cdpSessions' = CdpTabs /\ SessionsAreReal'
        /\ \A u \in CdpTabs : cdpSessions'[u] # 0 => cdpSessions'[u] = cdpSessions[u]
    BY <1>6, DetachKeeps
  <2> QED BY <2>1, <1>1, <1>6
<1>7. ASSUME NEW t \in CdpTabs, Dbg!DisableTab(t) PROVE DebuggerInv'
  <2>1. {t} \in SUBSET CdpTabs OBVIOUS
  <2> QED BY <2>1, <1>6, <1>7 DEF Dbg!DisableTab, Dbg!jobVars
<1>8. ASSUME NEW t, Dbg!UserFocuses(t) PROVE DebuggerInv'
  <2>1. UNCHANGED <<cdpSessions, session, bar, ended, sweep, job>> BY <1>8 DEF Dbg!UserFocuses
  <2>2. SessionsAreReal' BY <2>1, <1>2
  <2> QED BY <2>1, <2>2, <1>0, <1>1
<1>9. ASSUME NEW new, Dbg!SetSettings(new) PROVE DebuggerInv'
  <2>1. UNCHANGED <<session, ended, job>> BY <1>9 DEF Dbg!SetSettings, Dbg!jobVars
  <2>2. PICK tabs \in SUBSET CdpTabs : \/ Dbg!DetachCdp(tabs, UserTab)
                                       \/ UNCHANGED <<bar, sweep, cdpSessions>>
    BY <1>9 DEF Dbg!SetSettings
  <2>3. CASE UNCHANGED <<bar, sweep, cdpSessions>>
    <3>1. SessionsAreReal' BY <2>1, <2>3, <1>2
    <3> QED BY <3>1, <2>1, <2>3, <1>0, <1>1
  <2> QED BY <2>1, <2>2, <2>3, <1>6
<1> QED BY <1>3, <1>4, <1>5, <1>7, <1>8, <1>9

\* However calls, the user, the settings and late detach events overlap, a session the
\* worker counts on is attached, or its end is on the way.
THEOREM SessionsStayReal == Spec => []SessionsAreReal
<1>1. Init => DebuggerInv
  <2> SUFFICES ASSUME Init PROVE DebuggerInv OBVIOUS
  <2>1. /\ cdpSessions = [t \in CdpTabs |-> 0]
        /\ session = [s \in Dbg!Sessions |-> [tab |-> UserTab, attached |-> FALSE]]
        /\ job = [j \in Jobs |-> Dbg!Free]
    BY DEF Init, Dbg!Init
  <2>2. DebuggerTyped BY <2>1, FreeJob DEF DebuggerTyped, IsSession
  <2>3. SessionsInOrder
    <3>1. \A s \in Dbg!Sessions : /\ session[s].tab # UserTab <=> s <= 0
                                  /\ 0 <= MaxSessions
                                  /\ s > 0 => ~session[s].attached
      BY <2>1, DebuggerConstants DEF Dbg!Sessions
    <3> QED BY <3>1 DEF SessionsInOrder
  <2>4. SessionsOfTabs BY <2>1, FreeJob DEF SessionsOfTabs
  <2>5. SessionsAreReal BY <2>1 DEF SessionsAreReal, Dbg!SessionsAreReal, Dbg!Attached
  <2> QED BY <2>2, <2>3, <2>4, <2>5 DEF DebuggerInv
<1>2. ASSUME DebuggerInv, [Next]_extensionVars PROVE DebuggerInv'
  <2>1. CASE UNCHANGED dbgPart
    BY <2>1, <1>2 DEF dbgPart, DebuggerInv, DebuggerTyped, SessionsInOrder, SessionsOfTabs,
                      SessionsAreReal, Dbg!SessionsAreReal, Dbg!Attached
  <2>2. CASE Dbg!Next
    <3>0. DebuggerInv BY <1>2
    <3>1. ASSUME NEW j \in Jobs, Dbg!Step(j) PROVE DebuggerInv'
      BY <3>0, <3>1, CallsKeepSessions, AttachKeepsSessions DEF Dbg!Step
    <3>2. ASSUME NEW j \in Jobs, NEW kind, NEW t \in CdpTabs, Dbg!RunExt(j, kind, t)
          PROVE DebuggerInv'
      BY <3>0, <3>2, CallsKeepSessions
    <3> QED BY <3>0, <3>1, <3>2, <2>2, OthersKeepSessions DEF Dbg!Next
  <2> QED BY <2>1, <2>2, <1>2 DEF Next, extensionVars
<1>3. DebuggerInv => SessionsAreReal BY DEF DebuggerInv
<1> QED BY <1>1, <1>2, <1>3, PTL DEF Spec
=============================================================================
