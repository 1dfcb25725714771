------------------------------- MODULE Design -------------------------------
(***************************************************************************)
(* The design tools of one tab (packages/extension/src/builtins.ts, the    *)
(* element picker of inject.ts, the popup's requests in background.ts):    *)
(* elements the user picked, their markers, and temporary CSS patches.     *)
(*                                                                         *)
(* An element has the selector snapshotElement finds for it; the page may  *)
(* replace an element by another that the same selector finds.  Geometry,  *)
(* texts and styles are left out.  A request of the popup is a script run  *)
(* in the page, tried again after an injection, and last a message to it.  *)
(***************************************************************************)
EXTENDS Naturals, Sequences, SequencesExt, FiniteSets

CONSTANTS
  Elems,
  SelectorOf,   \* per element
  MaxPicks, MaxPatches,
  Budgets

DesignBounds == MaxPicks \in Nat /\ MaxPatches \in Nat

PickIds == 1..MaxPicks
PatchIds == 1..MaxPatches
NoPick == [el |-> {}, sel |-> {}]

VARIABLES
  alive,      \* elements in the document
  canvas,     \* entries, primary (selectedElement, selectedSnapshot), visible, markers,
              \* patches, styles (their nodes in the document), picks and patched (counters)
  picker,     \* the element picker: off, or what a click will do
  injected,   \* the page has the functions the popup's scripts call
  baseline,   \* latestBaseline: a design baseline is kept
  request,    \* of the popup
  left

designVars == <<alive, canvas, picker, injected, baseline, request, left>>

Spend(what) == left[what] > 0 /\ left' = [left EXCEPT ![what] = @ - 1]

Blank == [entries |-> <<>>, primary |-> NoPick, visible |-> TRUE, markers |-> {},
          patches |-> {}, styles |-> {}, picks |-> 0, patched |-> 0]

-----------------------------------------------------------------------------
(***************************************************************************)
(* Selection.  p is the canvas, or what an operation has made of it.       *)
(***************************************************************************)
Found(sel) == {e \in alive : SelectorOf[e] = sel}
Ids(p) == {e.id : e \in ToSet(p.entries)}

\* syncSelectedEntry: an element that is gone is looked up by its selector.
SyncSelectedEntry(e) ==
  IF e.el \in alive \/ Found(e.sel) = {} THEN e
  ELSE [e EXCEPT !.el = CHOOSE x \in Found(e.sel) : TRUE]

SyncAll(p) == [p EXCEPT !.entries = [i \in DOMAIN @ |-> SyncSelectedEntry(@[i])]]

\* The last one picked is the primary one.
SyncPrimarySelection(p) ==
  IF p.entries = <<>> THEN [p EXCEPT !.primary = NoPick]
  ELSE LET e == SyncSelectedEntry(Last(p.entries)) IN
       [p EXCEPT !.entries[Len(p.entries)] = e, !.primary = [el |-> {e.el}, sel |-> {e.sel}]]

\* showMarkerForEntry: no marker for an element that cannot be found.
ShowMarkers(p, ids) ==
  LET q == [p EXCEPT !.entries = [i \in DOMAIN @ |-> IF @[i].id \in ids THEN SyncSelectedEntry(@[i])
                                                     ELSE @[i]]]
  IN  [q EXCEPT !.markers = @ \cup {e.id : e \in {x \in ToSet(q.entries) :
                                                    x.id \in ids /\ x.el \in alive}}]

ShowSelectedElementMarker(p) ==
  SyncPrimarySelection(ShowMarkers([p EXCEPT !.visible = TRUE], Ids(p)))

HideSelectedElementMarker(p) == [p EXCEPT !.visible = FALSE, !.markers = {}]

SetSelectedMarkersVisible(p, visible) ==
  IF visible THEN ShowSelectedElementMarker(p) ELSE HideSelectedElementMarker(p)

ClearSelectedElements(p) == [p EXCEPT !.markers = {}, !.entries = <<>>, !.primary = NoPick]

\* Ids are given out once.
IndexOf(p, id) == CHOOSE i \in DOMAIN p.entries : p.entries[i].id = id

\* mutant: what else is kept about the entry is not looked after
ForgetSelectedElement(p, id) ==
  IF id \notin Ids(p) THEN p
  ELSE [p EXCEPT !.markers = @ \ {id}, !.entries = RemoveAt(@, IndexOf(p, id))]

RemoveSelectedElement(p, id) ==
  IF id \notin Ids(p) THEN p
  ELSE SyncPrimarySelection(
         [p EXCEPT !.markers = @ \ {id}, !.entries = RemoveAt(@, IndexOf(p, id))])

SetSelectedElementMeta(p, id, name) ==
  IF id \notin Ids(p) THEN p
  ELSE SyncPrimarySelection(
         [p EXCEPT !.entries = [i \in DOMAIN @ |-> IF @[i].id = id THEN [@[i] EXCEPT !.name = name]
                                                   ELSE @[i]]])

SetSelectedElement(p, element, append) ==
  LET kept == IF append THEN p ELSE ClearSelectedElements(p)
      id == p.picks + 1
      next == [kept EXCEPT !.picks = id,
                 !.entries = Append(@, [id |-> id, el |-> element, sel |-> SelectorOf[element],
                                        name |-> "none"])]
  IN  SyncPrimarySelection(IF p.visible THEN ShowMarkers(next, {id}) ELSE next)

\* targetElement without a selector: the element remembered, or its selector's.
Target(p) ==
  IF p.primary.el \cap alive # {} THEN p.primary.el
  ELSE UNION {Found(sel) : sel \in p.primary.sel}

-----------------------------------------------------------------------------
(***************************************************************************)
(* CSS patches: for a selector, or {} for rules of the whole page.         *)
(***************************************************************************)
\* cssPatchScope, renderCss: declarations need a selector, rules none; the node
\* goes to the document, or to the shadow root of an element that is there.
CanPatch(sel, rules, shadow) ==
  /\ rules <=> sel = {}
  /\ shadow => \E s \in sel : Found(s) # {}

AddCssPatch(p, sel) ==
  LET id == p.patched + 1
  IN  [p EXCEPT !.patched = id, !.patches = @ \cup {id}, !.styles = @ \cup {id}]

RemoveCssPatch(p, id) == [p EXCEPT !.patches = @ \ {id}, !.styles = @ \ {id}]

ClearCssPatches(p) == [p EXCEPT !.patches = {}, !.styles = @ \ p.patches]

-----------------------------------------------------------------------------
(***************************************************************************)
(* The agent's tools.                                                      *)
(***************************************************************************)
Tool(next) ==
  /\ injected /\ Spend("toolCalls")
  /\ canvas' = next
  /\ UNCHANGED <<alive, picker, injected, baseline, request>>

\* get_selected_element and get_selected_elements; the exports and summaries
\* read the selection too.
GetSelectedElement == Tool(SyncPrimarySelection(canvas))
GetSelectedElements == Tool(SyncAll(canvas))

ShowSelectedMarker(target) ==
  Tool(ShowSelectedElementMarker(IF target = {} THEN canvas
         ELSE SetSelectedElement(canvas, CHOOSE e \in target : TRUE, FALSE)))
HideSelectedMarker == Tool(HideSelectedElementMarker(canvas))
ClearSelected == Tool(ClearSelectedElements(SyncAll(canvas)))
RemoveSelected(id) == Tool(RemoveSelectedElement(canvas, id))

UpdateSelected(id, name) ==
  /\ canvas.entries # <<>>
  /\ Tool(SyncAll(SetSelectedElementMeta(canvas, IF id = 0 THEN Last(canvas.entries).id ELSE id,
                                         name)))

\* apply_css: without a selector, for the primary one.
ApplyCss(given, rules, shadow) ==
  LET synced == IF given = {} THEN SyncPrimarySelection(canvas) ELSE canvas
      sel == IF given = {} THEN synced.primary.sel ELSE given
  IN  /\ canvas.patched < MaxPatches
      /\ Tool(IF CanPatch(sel, rules, shadow) THEN AddCssPatch(synced, sel) ELSE synced)

RemovePatch(id) == Tool(RemoveCssPatch(canvas, id))
ClearPatches == Tool(ClearCssPatches(canvas))

\* capture_design_baseline and clear_design_baseline.
Baseline(kept) ==
  /\ injected /\ Spend("toolCalls")
  /\ baseline' = kept
  /\ UNCHANGED <<alive, canvas, picker, injected, request>>

-----------------------------------------------------------------------------
(***************************************************************************)
(* The page: elements come and go, markers follow them by a timer, the     *)
(* user picks, or cancels; a new document starts over.                     *)
(***************************************************************************)
Distinct(es) == \A x, y \in es : SelectorOf[x] = SelectorOf[y] => x = y

Rerender ==
  /\ Spend("renders")
  /\ alive' \in {es \in SUBSET Elems \ {alive} : Distinct(es)}
  /\ UNCHANGED <<canvas, picker, injected, baseline, request>>

\* The page's framework drops a style node it does not know.
StyleDropped(id) ==
  /\ id \in canvas.styles /\ Spend("renders")
  /\ canvas' = [canvas EXCEPT !.styles = @ \ {id}]
  /\ UNCHANGED <<alive, picker, injected, baseline, request>>

MarkerTick(id) ==
  /\ id \in canvas.markers
  /\ \E e \in ToSet(canvas.entries) : e.id = id /\ e.el \notin alive
  /\ canvas' = [canvas EXCEPT !.markers = @ \ {id}]
  /\ UNCHANGED <<alive, picker, injected, baseline, request, left>>

Pick(e) ==
  /\ picker # "off" /\ e \in alive /\ canvas.picks < MaxPicks
  /\ canvas' = SetSelectedElement(canvas, e, picker = "add")
  /\ picker' = "off"
  /\ UNCHANGED <<alive, injected, baseline, request, left>>

\* Escape, or deactivate, which the picker does not outlive.
Escape ==
  /\ picker # "off"
  /\ picker' = "off"
  /\ UNCHANGED <<alive, canvas, injected, baseline, request, left>>

\* The document is replaced: what its scripts kept is gone; the content script
\* injects them again, or not yet.
NewDocument ==
  /\ Spend("documents")
  /\ canvas' = Blank /\ picker' = "off" /\ baseline' = FALSE
  /\ injected' \in BOOLEAN
  /\ UNCHANGED <<alive, request>>

-----------------------------------------------------------------------------
(***************************************************************************)
(* The popup.                                                              *)
(***************************************************************************)
EntryNames == {"none", "named"}

Ask(r) ==
  /\ request.at = "idle" /\ Spend("popups")
  /\ request' = [at |-> "first"] @@ r
  /\ UNCHANGED <<alive, canvas, picker, injected, baseline>>

PopupAsks ==
  \/ \E append \in BOOLEAN : Ask([what |-> "start", append |-> append])
  \/ \E what \in {"cancel", "clear", "get", "clearCssPatches"} : Ask([what |-> what])
  \/ \E id \in PickIds : \/ Ask([what |-> "remove", id |-> id])
                         \/ \E name \in EntryNames :
                              Ask([what |-> "setMeta", id |-> id, name |-> name])
  \/ \E visible \in BOOLEAN : Ask([what |-> "setVisible", visible |-> visible])
  \/ \E id \in PatchIds : Ask([what |-> "removeCssPatch", id |-> id])

\* What a request does to a page that is injected.
Performed(r) ==
  CASE r.what = "clear" -> ClearSelectedElements(canvas)
    [] r.what = "get" -> SyncAll(canvas)
    [] r.what = "remove" -> RemoveSelectedElement(canvas, r.id)
    [] r.what = "setMeta" -> SetSelectedElementMeta(canvas, r.id, r.name)
    [] r.what = "setVisible" -> SetSelectedMarkersVisible(canvas, r.visible)
    [] r.what = "removeCssPatch" -> RemoveCssPatch(canvas, r.id)
    [] r.what = "clearCssPatches" -> ClearCssPatches(canvas)
    [] OTHER -> canvas

PickerAfter(r) ==
  CASE r.what = "start" -> IF r.append THEN "add" ELSE "pick"
    [] r.what = "cancel" -> "off"
    [] OTHER -> picker

Perform(r) ==
  IF injected THEN canvas' = Performed(r) /\ picker' = PickerAfter(r)
  ELSE UNCHANGED <<canvas, picker>>

\* Whether the script reports that it was done.
Reported(r) ==
  CASE r.what \in {"start", "cancel", "clear"} -> injected
    [] r.what \in {"remove", "setMeta"} -> injected /\ r.id \in Ids(canvas)
    [] r.what = "removeCssPatch" -> injected /\ r.id \in canvas.patches
    [] OTHER -> TRUE

\* What follows a script that did not report so: another try after an injection,
\* and then a message to the page.
Next2(r) ==
  CASE r.at = "first" /\ r.what # "cancel" -> [r EXCEPT !.at = "inject"]
    [] r.what \in {"get", "removeCssPatch", "clearCssPatches"} -> [at |-> "idle"]
    [] OTHER -> [r EXCEPT !.at = "message"]

RunElementPickerScript(runs) ==
  /\ request.at \in {"first", "second"}
  /\ IF runs THEN /\ Perform(request)
                  /\ request' = IF Reported(request) THEN [at |-> "idle"] ELSE Next2(request)
             ELSE UNCHANGED <<canvas, picker>> /\ request' = Next2(request)
  /\ UNCHANGED <<alive, injected, baseline, left>>

Inject(done) ==
  /\ request.at = "inject"
  /\ injected' = (injected \/ done)
  /\ request' = [request EXCEPT !.at = "second"]
  /\ UNCHANGED <<alive, canvas, picker, baseline, left>>

\* The message gets there, if the tab has a port.
Message(port) ==
  /\ request.at = "message"
  /\ IF port THEN Perform(request) ELSE UNCHANGED <<canvas, picker>>
  /\ request' = [at |-> "idle"]
  /\ UNCHANGED <<alive, injected, baseline, left>>

-----------------------------------------------------------------------------
Init ==
  /\ alive \in {es \in SUBSET Elems : Distinct(es)}
  /\ canvas = Blank /\ picker = "off" /\ injected = TRUE /\ baseline = FALSE
  /\ request = [at |-> "idle"]
  /\ left \in Budgets

Next ==
  \/ GetSelectedElement \/ GetSelectedElements \/ HideSelectedMarker \/ ClearSelected
  \/ ClearPatches \/ PopupAsks \/ Rerender \/ Escape \/ NewDocument
  \/ \E e \in alive : Pick(e) \/ (canvas.picks < MaxPicks /\ ShowSelectedMarker({e}))
  \/ ShowSelectedMarker({})
  \/ \E id \in PickIds : RemoveSelected(id) \/ MarkerTick(id)
  \/ \E id \in 0..MaxPicks, name \in EntryNames : UpdateSelected(id, name)
  \/ \E given \in {{}} \cup {{SelectorOf[e]} : e \in Elems}, rules \in BOOLEAN, shadow \in BOOLEAN :
       ApplyCss(given, rules, shadow)
  \/ \E id \in PatchIds : RemovePatch(id) \/ StyleDropped(id)
  \/ \E b \in BOOLEAN :
       Baseline(b) \/ RunElementPickerScript(b) \/ Inject(b) \/ Message(b)

Spec == Init /\ [][Next]_designVars

-----------------------------------------------------------------------------
\* Types: what is picked and patched has a selector and an id that was given out.
TypeOK ==
  /\ alive \subseteq Elems /\ injected \in BOOLEAN /\ baseline \in BOOLEAN
  /\ canvas.entries \in Seq([id : PickIds, el : Elems, sel : {SelectorOf[e] : e \in Elems},
                             name : EntryNames])
  /\ canvas.visible \in BOOLEAN /\ canvas.markers \subseteq PickIds
  /\ canvas.patches \subseteq PatchIds /\ canvas.styles \subseteq PatchIds
  /\ picker \in {"off", "pick", "add"}
  /\ request.at \in {"idle", "first", "inject", "second", "message"}

\* Whatever the agent's tools, the popup and the page do in turn: the element
\* the tools act on by default is of the last pick; a marker is of an element
\* that is picked, and there is none while they are hidden; a style node on the
\* page is of a patch that can be listed and removed.
PicksAndPatchesAgree ==
  /\ Target(canvas) # {} =>
       /\ canvas.entries # <<>>
       /\ \A e \in Target(canvas) : SelectorOf[e] = Last(canvas.entries).sel
  /\ canvas.markers \subseteq Ids(canvas)
  /\ canvas.markers # {} => canvas.visible
  /\ canvas.styles \subseteq canvas.patches

=============================================================================
