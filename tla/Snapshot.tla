------------------------------ MODULE Snapshot ------------------------------
(***************************************************************************)
(* The uids by which an agent names elements: the registry every frame     *)
(* keeps (packages/extension/src/dom-core.ts), the snapshot that stitches  *)
(* the frames of a tab together and the routing of actions to a frame      *)
(* (background.ts, frame-agent.ts), and the tools that give uids out and   *)
(* take them (input-tools.ts, observe.ts, builtins.ts).                    *)
(*                                                                         *)
(* One agent calls one tool at a time; the page changes, and its frames    *)
(* load, go and come, whenever they like. A document is the sequence of    *)
(* its elements that a snapshot would list. A uid is a frame's index and a *)
(* number; the top frame is 0. The top frame always answers.               *)
(***************************************************************************)
EXTENDS Naturals, Sequences, SequencesExt, FiniteSets

CONSTANTS
  LastFrame,      \* frames are 0..LastFrame, 0 is the top one
  Elements,
  MaxSeq,         \* uids a registry may give out
  Budgets

Frames == 0..LastFrame

FrameBound == LastFrame \in Nat /\ MaxSeq \in Nat /\ IsFiniteSet(Elements)

VARIABLES
  dom,        \* per frame, its elements in order
  present,    \* frames that are there
  agents,     \* frames the frame agent is in
  registry,   \* per frame: prefix, seq and refs
  frameIds,   \* frameIdsByTab of the tab: per index the frame
  call,       \* the tool that runs
  shown,      \* uids the agent has been given, each with the frame and the element it was
              \* given for, and whether a listing gave it or a label painted on the page
  left

vars == <<dom, present, agents, registry, frameIds, call, shown, left>>

Blank == [prefix |-> 0, seq |-> 0, refs |-> <<>>]
Rest == [pc |-> "idle", frames |-> {}, sections |-> <<>>, lines |-> {}, uid |-> <<0, 0>>]

Spend(what) == left[what] > 0 /\ left' = [left EXCEPT ![what] = @ - 1]
Goes(r) == call' = r

-----------------------------------------------------------------------------
(***************************************************************************)
(* The registry: refs maps a number to an element, and is never shared.    *)
(***************************************************************************)
\* renderSnapshotLines: n is where maxNodes cuts the list off.
RenderSnapshotLines(f, prefix, n) ==
  LET m == IF n < Len(dom[f]) THEN n ELSE Len(dom[f]) IN
  [prefix |-> prefix, seq |-> m, refs |-> [i \in 1..m |-> dom[f][i]]]

\* What an agent is given of the registry r of frame f.
Given(f, r, by) ==
  {[uid |-> <<r.prefix, i>>, frame |-> f, element |-> r.refs[i], by |-> by] : i \in DOMAIN r.refs}
Lines(f, r) == Given(f, r, "listing")

\* mutant: numbers start over when there are no refs to look through
RegisterAgain(r, e) ==
  IF \E i \in DOMAIN r.refs : r.refs[i] = e THEN r
  ELSE [r EXCEPT !.seq = Cardinality(DOMAIN r.refs) + 1,
                 !.refs = [i \in DOMAIN r.refs \cup {Cardinality(DOMAIN r.refs) + 1} |->
                             IF i = Cardinality(DOMAIN r.refs) + 1 THEN e ELSE r.refs[i]]]

\* registerUid: an element that has a uid keeps it.
RegisterUid(r, e) ==
  IF \E i \in DOMAIN r.refs : r.refs[i] = e THEN r
  ELSE [r EXCEPT !.seq = @ + 1,
                 !.refs = [i \in DOMAIN r.refs \cup {r.seq + 1} |->
                             IF i = r.seq + 1 THEN e ELSE r.refs[i]]]

\* The element a uid means in a frame; resolveUid fails for a uid it does not know and
\* for an element that is gone.
ResolveUid(f, uid) ==
  IF /\ f \in present /\ uid[1] = registry[f].prefix
     /\ uid[2] \in DOMAIN registry[f].refs
     /\ registry[f].refs[uid[2]] \in ToSet(dom[f])
  THEN {<<f, registry[f].refs[uid[2]]>>} ELSE {}

-----------------------------------------------------------------------------
(***************************************************************************)
(* take_snapshot over all frames: runFrameSnapshot.                        *)
(***************************************************************************)
Idle == call.pc = "idle"

\* injectFrameAgent reaches every frame that is there, or may not inject at all.
TakeSnapshot ==
  /\ Idle /\ Spend("snapshots")
  /\ \/ agents' = present /\ Goes([Rest EXCEPT !.pc = "list"])
     \/ UNCHANGED agents /\ Goes([Rest EXCEPT !.pc = "fallback"])
  /\ UNCHANGED <<dom, present, registry, frameIds, shown>>

\* listAgentFrames: those the agent is still in; they are gone through in order.
ListAgentFrames ==
  /\ call.pc = "list"
  /\ Goes([call EXCEPT !.pc = "frames",
                       !.frames = agents \cap present])
  /\ UNCHANGED <<dom, present, agents, registry, frameIds, shown, left>>

\* snapshotFrame. A frame that is gone fails the whole of it; one without an agent,
\* or a sub-frame with nothing to show, is passed over.
SnapshotFrame(f, n) ==
  LET r == RenderSnapshotLines(f, Len(call.sections), n)
      rest == call.frames \ {f} IN
  /\ call.pc = "frames" /\ f \in call.frames /\ \A g \in call.frames : f <= g
  /\ \/ /\ f \notin present
        /\ Goes([call EXCEPT !.pc = "fallback"]) /\ UNCHANGED registry
     \/ /\ f \in present \ agents /\ f # 0
        /\ Goes([call EXCEPT !.frames = rest]) /\ UNCHANGED registry
     \/ /\ f \in present \cap agents
        /\ registry' = [registry EXCEPT ![f] = r]
        /\ Goes(IF r.seq = 0 /\ call.sections # <<>>
                THEN [call EXCEPT !.frames = rest]
                ELSE [call EXCEPT !.frames = rest, !.sections = Append(@, f),
                                  !.lines = @ \cup Lines(f, r)])
  /\ UNCHANGED <<dom, present, agents, frameIds, shown, left>>

\* The map of indices is the one of the latest snapshot.
Stitch ==
  /\ call.pc = "frames" /\ call.frames = {}
  /\ frameIds' = [k \in 0..(Len(call.sections) - 1) |-> call.sections[k + 1]]
  /\ shown' = call.lines
  /\ Goes(Rest)
  /\ UNCHANGED <<dom, present, agents, registry, left>>

\* No frames, so the top document alone.
SnapshotAlone(n) ==
  LET r == RenderSnapshotLines(0, 0, n) IN
  /\ call.pc = "fallback"
  /\ registry' = [registry EXCEPT ![0] = r]
  /\ shown' = Lines(0, r)
  /\ Goes(Rest)
  /\ UNCHANGED <<dom, present, agents, frameIds, left>>

-----------------------------------------------------------------------------
(***************************************************************************)
(* The other tools.                                                        *)
(***************************************************************************)
FrameLines == {l \in shown : l.uid[1] # 0}

\* find: what it finds is added to what has a uid.
Find(e) ==
  /\ Idle /\ Spend("finds") /\ e \in ToSet(dom[0])
  /\ registry[0].seq < MaxSeq
  /\ registry' = [registry EXCEPT ![0] = RegisterUid(@, e)]
  /\ shown' = shown \cup {l \in Lines(0, registry'[0]) : l.element = e}
  /\ UNCHANGED <<dom, present, agents, frameIds, call>>

\* click and its like: the uid is looked up until its element can be acted on ...
Act(uid) ==
  /\ Idle /\ Spend("acts")
  /\ Goes([Rest EXCEPT !.pc = "acting", !.uid = uid])
  /\ UNCHANGED <<dom, present, agents, registry, frameIds, shown>>

\* isFrameUid: an action goes to the frame its index stands for.
FrameFor(uid) ==
  IF uid[1] = 0 THEN {0} ELSE IF uid[1] \in DOMAIN frameIds THEN {frameIds[uid[1]]} ELSE {}
Target(uid) == UNION {ResolveUid(f, uid) : f \in FrameFor(uid)}

ActFails ==
  /\ call.pc = "acting"
  /\ \/ Target(call.uid) = {}
     \/ call.uid[1] # 0 /\ FrameFor(call.uid) \cap agents = {}
  /\ Goes(Rest)
  /\ UNCHANGED <<dom, present, agents, registry, frameIds, shown, left>>

\* ... and the result comes with a new snapshot of the top document, if that is
\* still there to be taken.
ActAndObserve(n) ==
  LET r == RenderSnapshotLines(0, 0, n) IN
  /\ call.pc = "acting" /\ Target(call.uid) # {}
  /\ registry' = [registry EXCEPT ![0] = r]
  /\ shown' = FrameLines \cup Lines(0, r)
  /\ Goes(Rest)
  /\ UNCHANGED <<dom, present, agents, frameIds, left>>

\* screenshot with refs paints the uids of every frame over their elements.
FrameOverlay ==
  /\ Idle /\ Spend("overlays")
  /\ agents' = present
  /\ shown' = {l \in shown : l.by = "listing"}
       \cup UNION {{l \in Given(f, registry[f], "label") : l.element \in ToSet(dom[f])} :
                     f \in present}
  /\ UNCHANGED <<dom, present, registry, frameIds, call>>

\* clearSnapshotRefs, when the tools are taken down; the counter goes on.
ClearSnapshotRefs ==
  /\ Spend("clears")
  /\ registry' = [registry EXCEPT ![0].refs = <<>>]
  /\ UNCHANGED <<dom, present, agents, frameIds, call, shown>>

-----------------------------------------------------------------------------
(***************************************************************************)
(* The page: external.                                                     *)
(***************************************************************************)
Documents == {<<>>} \cup {<<e>> : e \in Elements} \cup
             {<<p[1], p[2]>> : p \in {q \in Elements \X Elements : q[1] # q[2]}}

ChangeDom(f, d) ==
  /\ f \in present /\ d # dom[f] /\ Spend("changes")
  /\ dom' = [dom EXCEPT ![f] = d]
  /\ UNCHANGED <<present, agents, registry, frameIds, call, shown>>

\* A sub-frame loads another document, goes, or comes.
LoadFrame(f) ==
  /\ f # 0 /\ Spend("loads")
  /\ present' = present \cup {f}
  /\ agents' = agents \ {f}
  /\ registry' = [registry EXCEPT ![f] = Blank]
  /\ UNCHANGED <<dom, frameIds, call, shown>>

RemoveFrame(f) ==
  /\ f # 0 /\ f \in present /\ Spend("loads")
  /\ present' = present \ {f} /\ agents' = agents \ {f}
  /\ registry' = [registry EXCEPT ![f] = Blank]
  /\ UNCHANGED <<dom, frameIds, call, shown>>

-----------------------------------------------------------------------------
Init ==
  /\ dom \in [Frames -> {<<CHOOSE e \in Elements : TRUE>>, SetToSeq(Elements)}]
  /\ present = Frames /\ agents = {}
  /\ registry = [f \in Frames |-> Blank]
  /\ frameIds = <<>>
  /\ call = Rest /\ shown = {}
  /\ left \in Budgets

Next ==
  \/ TakeSnapshot \/ ListAgentFrames \/ Stitch
  \/ \E n \in 1..2 : \/ SnapshotAlone(n) \/ ActAndObserve(n)
                     \/ \E f \in call.frames : SnapshotFrame(f, n)
  \/ \E e \in Elements : Find(e)
  \/ \E l \in shown : Act(l.uid)
  \/ ActFails \/ FrameOverlay \/ ClearSnapshotRefs
  \/ \E f \in Frames, d \in Documents : ChangeDom(f, d)
  \/ \E f \in Frames : LoadFrame(f) \/ RemoveFrame(f)

Spec == Init /\ [][Next]_vars

-----------------------------------------------------------------------------
\* Types: uids are numbers that were given out, prefixes belong to frames.
TypeOK ==
  /\ present \subseteq Frames /\ agents \subseteq present
  /\ \A f \in Frames : /\ DOMAIN registry[f].refs \subseteq 1..MaxSeq
                       /\ registry[f].prefix \in Frames
  /\ \A k \in DOMAIN frameIds : frameIds[k] \in Frames

\* A uid the agent was given by a listing means the element it was given for, or
\* nothing, also while an action looks for it: however frames come, go, reload or stay
\* empty, snapshots fail half way and documents change under it, no action lands on
\* another element.
UidsMeanWhatWasShown ==
  call.pc \in {"idle", "acting"} =>
    \A l \in shown : l.by = "listing" => Target(l.uid) \subseteq {<<l.frame, l.element>>}

\* DETAILS.md says it of the labels that screenshot paints with refs: the image and the
\* uid tree line up, so an action on a label is one on what it was painted over.
LabelsMeanWhatTheyMark ==
  Idle => \A l \in shown : l.by = "label" => Target(l.uid) \subseteq {<<l.frame, l.element>>}
=============================================================================
