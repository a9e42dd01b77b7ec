--------------------------- MODULE ConnectOverlay ---------------------------
(***************************************************************************)
(* The in-page connect prompt as the page's content script draws it         *)
(* (entrypoints/content.ts, lib/connect-overlay-view.ts): one host element  *)
(* with the prompt's frame, taken down by its answer, by Escape, by a page  *)
(* that touches it or by a frame that does not load, and the toast that an  *)
(* approval leaves behind.  Approvals models the worker that asks for it    *)
(* and turns to the popup when it is told that nothing was shown.           *)
(***************************************************************************)
EXTENDS Naturals

CONSTANT MaxAsked   \* bound: prompts the worker asks this page for

ASSUME AskedAssumption == MaxAsked \in Nat

VARIABLES
  show,        \* each SHOW_CONNECT_OVERLAY: what has come of it
  active,      \* the prompt the controller holds, or 0
  drawn,       \* prompts whose frame is in the page
  toasts,      \* approved prompts whose toast is in the page
  toastTimer,  \* toastTimer: the prompt whose toast it is for, or 0
  toastTimers  \* toasts that a timer will take away

shadow == <<active, drawn, toasts, toastTimer, toastTimers>>
overlayVars == <<show, shadow>>

Shows == 1 .. MaxAsked

OverlayInit ==
  /\ show = [p \in Shows |-> "unasked"]
  /\ active = 0
  /\ drawn = {}
  /\ toasts = {}
  /\ toastTimer = 0
  /\ toastTimers = {}

\* What the worker is told: a prompt is shown, or it is not.
Told == {"shown", "refused"}

\* handleShowConnectOverlay asks the settings for the theme, unless a prompt is
\* up, the browser cannot tell whether a frame is visible or this is no top page.
AskedToShow(p) ==
  /\ show[p] = "unasked"
  /\ \A q \in 1 .. p - 1 : show[q] # "unasked"
  /\ \/ active = 0 /\ show' = [show EXCEPT ![p] = "theme"]
     \/ show' = [show EXCEPT ![p] = "refused"]
  /\ UNCHANGED shadow

\* show: the theme is there; the host goes into the page and its frame loads.
Mounts(p) ==
  /\ show[p] = "theme"
  /\ IF active # 0
     THEN show' = [show EXCEPT ![p] = "refused"] /\ UNCHANGED <<active, drawn>>
     ELSE /\ show' = [show EXCEPT ![p] = "loading"]
          /\ active' = p
          /\ drawn' = drawn \cup {p}
  /\ UNCHANGED <<toasts, toastTimer, toastTimers>>

\* A frame that was removed never loads.
Loads(p) ==
  /\ show[p] = "loading" /\ p \in drawn
  /\ show' = [show EXCEPT ![p] = "shown"]
  /\ UNCHANGED shadow

\* teardown: the host goes, whichever prompt it is, and the timer with it.
Teardown ==
  IF active = 0 THEN UNCHANGED shadow
  ELSE /\ active' = 0
       /\ drawn' = drawn \ {active}
       /\ toastTimers' = toastTimers \ {toastTimer}
       /\ UNCHANGED <<toasts, toastTimer>>

\* The frame is left where it is.
GivesUpOnly(p) ==
  /\ show[p] = "loading"
  /\ show' = [show EXCEPT ![p] = "refused"]
  /\ UNCHANGED shadow

\* FRAME_LOAD_TIMEOUT_MS is over: what is up is taken down, and not shown.
GivesUp(p) ==
  /\ show[p] = "loading"
  /\ show' = [show EXCEPT ![p] = "refused"]
  /\ Teardown

\* finish: the frame of the prompt that is up tells how it ended.
FrameRejected(p) ==
  /\ active = p /\ p \in drawn
  /\ Teardown
  /\ UNCHANGED show

FrameApproved(p) ==
  /\ active = p /\ p \in drawn
  /\ drawn' = drawn \ {p}
  /\ active' = 0
  /\ toasts' = toasts \cup {p}
  /\ toastTimer' = p
  /\ toastTimers' = toastTimers \cup {p}
  /\ UNCHANGED show

\* Escape, or the page moves the host or rewrites its style.
Dismissed ==
  /\ active # 0
  /\ Teardown
  /\ UNCHANGED show

ToastTimesOut(p) ==
  /\ p \in toastTimers
  /\ toastTimers' = toastTimers \ {p}
  /\ toasts' = toasts \ {p}
  /\ UNCHANGED <<show, active, drawn, toastTimer>>

ToastIsClosed(p) ==
  /\ p \in toasts
  /\ toasts' = toasts \ {p}
  /\ UNCHANGED <<show, active, drawn, toastTimer, toastTimers>>

\* The tab goes elsewhere: what was asked of its page is told to nobody.
PageGoes ==
  /\ \E p \in Shows : show[p] # "unasked"
  /\ show' = [p \in Shows |-> IF show[p] \in {"theme", "loading"} THEN "gone" ELSE show[p]]
  /\ active' = 0 /\ drawn' = {} /\ toasts' = {} /\ toastTimer' = 0 /\ toastTimers' = {}

OverlayNext ==
  \/ \E p \in Shows :
       \/ AskedToShow(p) \/ Mounts(p) \/ Loads(p) \/ GivesUp(p)
       \/ FrameRejected(p) \/ FrameApproved(p)
       \/ ToastTimesOut(p) \/ ToastIsClosed(p)
  \/ Dismissed
  \/ PageGoes

OverlaySpec == OverlayInit /\ [][OverlayNext]_overlayVars

-----------------------------------------------------------------------------
(* Properties *)

OverlayTypeOK ==
  /\ show \in [Shows -> Told \cup {"unasked", "theme", "loading", "gone"}]
  /\ active \in Shows \cup {0} /\ toastTimer \in Shows \cup {0}
  /\ drawn \subseteq Shows /\ toasts \subseteq Shows /\ toastTimers \subseteq Shows

\* A request the worker takes to the popup, having been told that nothing was
\* shown, has no frame on the page as well; and one it believes to be shown was
\* mounted (connect-overlay-view.ts: "Never report success we cannot back up").
RefusedIsGone == \A p \in Shows : show[p] \in {"unasked", "theme", "refused", "gone"} => p \notin drawn

=============================================================================
