------------------------------ MODULE Debugger ------------------------------
(***************************************************************************)
(* Calls that need Chrome's debugger (packages/extension/src/background.ts):*)
(* the sessions of tabs, the CDP toolset, trusted input with its hop of the *)
(* focus, full page captures, and the settings that allow them.            *)
(*                                                                         *)
(* A session is an object: a call keeps the one it found although the map  *)
(* has dropped it or holds another by now. One action is the code between  *)
(* two awaits. The active tab stands for the window too. A toolset call is *)
(* one command, an input a sequence of them.                               *)
(***************************************************************************)
EXTENDS Naturals, Sequences, SequencesExt, FiniteSets

CONSTANTS
  CdpTabs, UserTab,   \* tabs that calls are for, and another one
  Jobs,               \* calls under way at a time
  MaxSessions,
  Budgets

Windows == CdpTabs \cup {UserTab}
Sessions == 1..MaxSessions
Kinds == {"attach", "command", "detach", "click", "keys", "drag", "wheel", "capture"}
Inputs == {"click", "keys", "drag", "wheel"}
Settings == [cdpTools : BOOLEAN, trustedInput : BOOLEAN]

SessionBound == MaxSessions \in Nat /\ UserTab \notin CdpTabs

VARIABLES
  settings,     \* cdpTools and trustedInput
  cdpSessions,  \* the map: per tab a session, 0 if none
  session,      \* per session: its tab, 0 if unused, and whether it is attached
  bar,          \* tabs Chrome has this extension's debugger attached to
  ended,        \* tabs for which onDetach is still to be delivered
  active,       \* the tab that has the focus
  job,          \* per call
  sweep,        \* tabs whose detach is under way, with the one who waits for it
  left

vars == <<settings, cdpSessions, session, bar, ended, active, job, sweep, left>>
jobVars == <<active, job>>

Free == [pc |-> "idle", kind |-> "attach", tab |-> UserTab, at |-> 0, was |-> FALSE,
         back |-> UserTab, todo |-> <<>>]
Spend(what) == left[what] > 0 /\ left' = [left EXCEPT ![what] = @ - 1]
Put(j, r) == job' = [job EXCEPT ![j] = r]

-----------------------------------------------------------------------------
(***************************************************************************)
(* What an input sends.                                                    *)
(***************************************************************************)
Repeat(s, n) == FlattenSeq([i \in 1..n |-> s])

ClickCommands(clicks) == <<"move">> \o Repeat(<<"press", "release">>, clicks)
KeysCommands(keys, beats) ==
  Repeat(<<"press">> \o Repeat(<<"again">>, beats) \o <<"release">>, keys)
DragCommands(steps) == <<"move", "press">> \o Repeat(<<"move">>, steps) \o <<"release">>

\* runTrustedInput: the counts are small ones of those it clamps to.
CommandsOf(kind) ==
  CASE kind = "click" -> ClickCommands(1)
    [] kind = "keys" -> KeysCommands(1, 1)
    [] kind = "drag" -> DragCommands(1)
    [] kind = "wheel" -> <<"wheel">>
    [] kind = "capture" -> <<"Page.enable", "Page.captureScreenshot">>
    [] kind = "command" -> <<"command">>
    [] OTHER -> <<>>

-----------------------------------------------------------------------------
(***************************************************************************)
(* Sessions.                                                               *)
(***************************************************************************)
Attached(t) == cdpSessions[t] # 0 /\ session[cdpSessions[t]].attached

\* cdpSession: finds the session of a tab, or makes one.
FreshSession == Cardinality({s \in Sessions : session[s].tab # UserTab}) + 1
SessionOf(t) == IF cdpSessions[t] # 0 THEN cdpSessions[t] ELSE FreshSession

\* detachCdp, up to its await: one that is not attached is just forgotten. Chrome
\* detaches when asked, and tells whoever waits later.
DetachCdp(tabs, who) ==
  LET real == {t \in tabs : Attached(t)} IN
  /\ bar' = bar \ real
  /\ sweep' = sweep \cup {[tab |-> t, job |-> who] : t \in real}
  /\ cdpSessions' = [t \in CdpTabs |-> IF t \in tabs \ real THEN 0 ELSE cdpSessions[t]]

\* ... and the rest of it.
Detached(d) ==
  /\ sweep' = sweep \ {d}
  /\ cdpSessions' = [cdpSessions EXCEPT ![d.tab] = 0]
  /\ job' = [j \in Jobs |-> IF d.job = j /\ job[j].pc = "detaching" THEN Free ELSE job[j]]
  /\ UNCHANGED <<settings, session, bar, ended, active, left>>

\* The user cancels in the bar, or DevTools take over; the event comes later.
UserDetaches(t) ==
  /\ t \in bar /\ Spend("cancels")
  /\ bar' = bar \ {t} /\ ended' = ended \cup {t}
  /\ UNCHANGED <<settings, cdpSessions, session, jobVars, sweep>>

OnDetach(t) ==
  /\ t \in ended
  /\ ended' = ended \ {t}
  /\ cdpSessions' = [cdpSessions EXCEPT ![t] = 0]
  /\ UNCHANGED <<settings, session, bar, jobVars, sweep, left>>

\* mutant: the session counts as attached before Chrome has answered
EagerSession(s, t) == IF session[s].tab = UserTab THEN [tab |-> t, attached |-> TRUE]
                      ELSE [session[s] EXCEPT !.attached = TRUE]

NewSession(s, t) == IF session[s].tab = UserTab THEN [tab |-> t, attached |-> FALSE]
                    ELSE session[s]

-----------------------------------------------------------------------------
(***************************************************************************)
(* Calls: runExt, runCdp, withTrustedInputSession, captureFullPage.        *)
(***************************************************************************)
\* runExt asks the settings, once.
Allowed(kind) ==
  CASE kind \in Inputs -> settings.trustedInput
    [] kind = "capture" -> settings.cdpTools \/ settings.trustedInput
    [] OTHER -> settings.cdpTools

RunExt(j, kind, t) ==
  /\ job[j].pc = "idle" /\ Spend("calls") /\ Allowed(kind)
  /\ \/ /\ kind = "detach"
        /\ DetachCdp({t}, j)
        /\ Put(j, IF Attached(t) THEN [Free EXCEPT !.pc = "detaching", !.kind = kind, !.tab = t]
                  ELSE Free)
     \/ /\ kind # "detach"
        /\ Put(j, [Free EXCEPT !.pc = IF kind \in Inputs \cup {"capture"} THEN "permission"
                                      ELSE "ensure",
                               !.kind = kind, !.tab = t, !.todo = CommandsOf(kind)])
        /\ UNCHANGED <<bar, sweep, cdpSessions>>
  /\ UNCHANGED <<settings, session, ended, active>>

\* The permission is there; whether somebody had attached before is noted.
WasAttached(j) ==
  /\ job[j].pc = "permission"
  /\ Put(j, [job[j] EXCEPT !.was = Attached(job[j].tab), !.pc = "ensure"])
  /\ UNCHANGED <<settings, cdpSessions, session, bar, ended, active, sweep, left>>

Ready(j) == IF job[j].kind \in Inputs THEN "focus" ELSE "run"

\* ensureCdpAttached finds or makes the session, and attaches if need be.
EnsureCdpAttached(j) ==
  LET t == job[j].tab
      s == SessionOf(t) IN
  /\ job[j].pc = "ensure" /\ s \in Sessions
  /\ session' = [session EXCEPT ![s] = NewSession(s, t)]
  /\ cdpSessions' = [cdpSessions EXCEPT ![t] = s]
  /\ Put(j, [job[j] EXCEPT !.at = s,
                           !.pc = IF session[s].attached THEN Ready(j) ELSE "attach"])
  /\ UNCHANGED <<settings, bar, ended, active, sweep, left>>

\* Chrome attaches a debugger once; the one who comes second fails.
Attach(j) ==
  LET t == job[j].tab IN
  /\ job[j].pc = "attach"
  /\ IF t \in bar
     THEN Put(j, Free) /\ UNCHANGED <<session, bar>>
     ELSE /\ bar' = bar \cup {t}
          /\ session' = [session EXCEPT ![job[j].at].attached = TRUE]
          /\ Put(j, [job[j] EXCEPT !.pc = Ready(j)])
  /\ t \notin ended
  /\ UNCHANGED <<settings, cdpSessions, ended, active, sweep, left>>

\* focusTabForInput, and restoreFocusAfterInput.
FocusTab(j) ==
  /\ job[j].pc = "focus"
  /\ active' = job[j].tab
  /\ Put(j, [job[j] EXCEPT !.back = active, !.pc = "run"])
  /\ UNCHANGED <<settings, cdpSessions, session, bar, ended, sweep, left>>

RestoreFocus(j) ==
  /\ job[j].pc = "restore"
  /\ active' = IF job[j].back = job[j].tab THEN active ELSE job[j].back
  /\ Put(j, [job[j] EXCEPT !.pc = "finally"])
  /\ UNCHANGED <<settings, cdpSessions, session, bar, ended, sweep, left>>

\* sendCdpCommand: a command fails when the debugger is gone, and so does the rest.
\* enableCdpDomain of a capture comes before its try.
SendCommand(j) ==
  LET r == job[j]
      ok == r.tab \in bar
      over == ~ok \/ Len(r.todo) <= 1
      next == CASE r.kind \in Inputs -> "restore"
                [] r.kind = "capture" /\ (ok \/ r.todo # CommandsOf("capture")) -> "finally"
                [] OTHER -> "idle" IN
  /\ r.pc = "run"
  /\ Put(j, IF ~over THEN [r EXCEPT !.todo = Tail(@)]
            ELSE IF next = "idle" THEN Free ELSE [r EXCEPT !.todo = <<>>, !.pc = next])
  /\ UNCHANGED <<settings, cdpSessions, session, bar, ended, active, sweep, left>>

\* The end of an input or a capture: what it set up it takes down.
Finally(j) ==
  LET t == job[j].tab
      tear == ~job[j].was /\ ~settings.cdpTools IN
  /\ job[j].pc = "finally"
  /\ IF tear THEN DetachCdp({t}, j) ELSE UNCHANGED <<bar, sweep, cdpSessions>>
  /\ Put(j, IF tear /\ Attached(t) THEN [job[j] EXCEPT !.pc = "detaching"] ELSE Free)
  /\ UNCHANGED <<settings, session, ended, active, left>>

-----------------------------------------------------------------------------
(***************************************************************************)
(* Settings, disabled and closed tabs.                                     *)
(***************************************************************************)
\* setSettings: the sessions go when the last of the two is turned off.
SetSettings(new) ==
  /\ new # settings /\ Spend("toggles")
  /\ settings' = new
  /\ IF \/ settings.cdpTools /\ ~new.cdpTools /\ ~new.trustedInput
        \/ settings.trustedInput /\ ~new.trustedInput /\ ~new.cdpTools
     THEN DetachCdp({t \in CdpTabs : cdpSessions[t] # 0}, UserTab)
     ELSE UNCHANGED <<bar, sweep, cdpSessions>>
  /\ UNCHANGED <<session, ended, jobVars>>

\* setEnabled(false) of a tab, and onRemoved.
DisableTab(t) ==
  /\ Spend("disables")
  /\ DetachCdp({t}, UserTab)
  /\ UNCHANGED <<settings, session, ended, jobVars>>

\* The user goes to another tab.
UserFocuses(t) ==
  /\ t # active /\ Spend("looks")
  /\ active' = t
  /\ UNCHANGED <<settings, cdpSessions, session, bar, ended, job, sweep>>

-----------------------------------------------------------------------------
Init ==
  /\ settings \in Settings
  /\ cdpSessions = [t \in CdpTabs |-> 0]
  /\ session = [s \in Sessions |-> [tab |-> UserTab, attached |-> FALSE]]
  /\ bar = {} /\ ended = {} /\ active = UserTab
  /\ job = [j \in Jobs |-> Free]
  /\ sweep = {}
  /\ left \in Budgets

Step(j) ==
  \/ WasAttached(j) \/ EnsureCdpAttached(j) \/ Attach(j) \/ FocusTab(j)
  \/ SendCommand(j) \/ RestoreFocus(j) \/ Finally(j)

Next ==
  \/ \E j \in Jobs : Step(j)
  \/ \E j \in Jobs, kind \in Kinds, t \in CdpTabs : RunExt(j, kind, t)
  \/ \E d \in sweep : Detached(d)
  \/ \E t \in CdpTabs : UserDetaches(t) \/ OnDetach(t) \/ DisableTab(t)
  \/ \E t \in Windows : UserFocuses(t)
  \/ \E new \in Settings : SetSettings(new)

Spec == Init /\ [][Next]_vars

-----------------------------------------------------------------------------
\* Types: the map names sessions of its tabs, the bar is over tabs that exist.
TypeOK ==
  /\ settings \in Settings
  /\ cdpSessions \in [CdpTabs -> {0} \cup Sessions]
  /\ session \in [Sessions -> [tab : Windows, attached : BOOLEAN]]
  /\ bar \subseteq CdpTabs /\ ended \subseteq CdpTabs /\ active \in Windows
  /\ sweep \subseteq [tab : CdpTabs, job : Jobs \cup {UserTab}]

\* A session the map calls attached is attached to Chrome, unless its end is on the
\* way: a call that finds one need not attach, whatever other calls, the user and
\* the settings did in between.
SessionsAreReal ==
  \A t \in CdpTabs :
    Attached(t) => t \in bar \cup ended \/ \E d \in sweep : d.tab = t
=============================================================================
