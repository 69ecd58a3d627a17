----------------------------- MODULE GlobalView -----------------------------
(***************************************************************************)
(* globalview.mm, GVProtocol.cpp and the application's side in Tweak.mm:   *)
(* SpringBoard hosts the view and the floating button of the application,  *)
(* and shares two structures of its own memory with it.                    *)
(*                                                                         *)
(* Both processes run this code on their main threads, without a lock: an  *)
(* action is one access, or accesses to fields that the other process does *)
(* not write meanwhile.  `app' and `host' say where each main thread is.   *)
(* The application may exit anywhere and come back; what it wrote stays,   *)
(* until SpringBoard notices and resets the structures.  SpringBoard is    *)
(* not restarted, for that ends the application too.  An application may   *)
(* fail to connect, and then shares nothing as long as it lives.           *)
(*                                                                         *)
(* An image is copied in two halves, so that a torn one can be told.  The  *)
(* geometry of the views and the loading alert are left out, and whether   *)
(* the application has a window and has turned is a choice of each tick.   *)
(* As elsewhere, a name ending in Bug is a plausible defect of the         *)
(* definition after it.                                                    *)
(***************************************************************************)
EXTENDS Naturals

CONSTANTS
  Images,      \* the button images
  MaxLaunches  \* bound: how often the application is launched

ASSUME LaunchesAreCounted == MaxLaunches \in Nat

Blank == "blank"

VARIABLES
  slot,      \* GVSharedImage: [state, sized, payload]
  data,      \* GVSharedData, the fields used here
  app,       \* the application: "down", "start", "alone" if it cannot map, ...
  image,     \* the image it is publishing
  handled,   \* appWindowHandled
  calling,   \* the tick is inside evalJS:, whose run loop serves the page
  launches,
  host,      \* SpringBoard's main thread
  view,      \* hostView: "none", "detached" or "attached"
  hidden,    \* hostView.isHidden, FALSE when there is no view
  icon,      \* iconBytes, as far as this poll has filled them
  asked,     \* history: this application has called setButtonAction
  connects,  \* history: applications that have connected since the last reset
  unhandled, \* history: a click since which h5gg_onButtonClick was not called
  raced      \* history: a reset ran over an application that had connected again

sharedVars == <<slot, data>>
appVars == <<app, image, handled, launches, asked, calling>>
hostVars == <<host, view, hidden, icon>>
vars == <<sharedVars, appVars, hostVars, connects, unhandled, raced>>

Fields == {"enable", "viewHosted", "appLoaded", "customButtonAction", "floatBtnClick",
           "setWindowVisible", "windowVisibleState"}

GVDataDefault == [f \in Fields |-> FALSE]
GVImageTransferDefault == [state |-> "Idle", sized |-> FALSE, payload |-> <<Blank, Blank>>]

Publishing == {"copy1", "copy2", "ready"}
Connected == app \notin {"down", "start", "alone"}

GVTypeOK ==
  /\ slot \in [state : {"Idle", "Writing", "Ready"}, sized : BOOLEAN,
               payload : (Images \union {Blank}) \X (Images \union {Blank})]
  /\ data \in [Fields -> BOOLEAN]
  /\ app \in {"down", "start", "alone", "idle", "claim", "clear", "act", "window",
              "windowless", "upright", "turned", "show", "hide"} \union Publishing
  /\ image \in Images \union {Blank}
  /\ launches \in 0..MaxLaunches
  /\ host \in {"idle", "check", "reset", "resetImage", "visible", "visibleDone",
               "take1", "take2", "free"}
  /\ view \in {"none", "detached", "attached"}
  /\ icon \in (Images \union {Blank}) \X (Images \union {Blank})
  /\ connects \in 0..MaxLaunches
  /\ {handled, hidden, asked, calling, unhandled, raced} \subseteq BOOLEAN

Init ==
  /\ slot = GVImageTransferDefault
  /\ data = GVDataDefault
  /\ app = "down"
  /\ image = Blank
  /\ handled = FALSE
  /\ launches = 0
  /\ host = "idle"
  /\ view = "none"
  /\ hidden = FALSE
  /\ icon = <<Blank, Blank>>
  /\ asked = FALSE
  /\ calling = FALSE
  /\ connects = 0
  /\ unhandled = FALSE
  /\ raced = FALSE

App(from, to) == app = from /\ app' = to
Host(from, to) == host = from /\ host' = to
Put(f, b) == data' = [data EXCEPT ![f] = b]

-----------------------------------------------------------------------------
(* The application: launch, connection, exit.                              *)

Launch ==
  /\ App("down", "start")
  /\ launches < MaxLaunches
  /\ launches' = launches + 1
  /\ UNCHANGED <<sharedVars, image, handled, asked, calling, hostVars, connects, unhandled, raced>>

\* H5GGSetGlobalView: the structures are mapped, and the icon is published
\* unless there is none or it is too large.  SpringBoard, its task, the dylib or
\* a mapping may be missing, or the header be of another version.
Connect ==
  /\ \/ /\ App("start", "alone")
        /\ UNCHANGED <<data, connects, image>>
     \/ /\ \/ App("start", "claim") /\ image' \in Images
           \/ App("start", "idle") /\ UNCHANGED image
        /\ Put("enable", TRUE)
        /\ connects' = connects + 1
  /\ UNCHANGED <<slot, handled, launches, asked, calling, hostVars, unhandled, raced>>

\* A crash, a kill, or the screen is locked while the view is hosted.
Exit ==
  /\ app # "down"
  /\ app' = "down"
  /\ image' = Blank
  /\ handled' = FALSE
  /\ asked' = FALSE
  /\ calling' = FALSE
  /\ unhandled' = FALSE
  /\ UNCHANGED <<sharedVars, launches, hostVars, connects, raced>>

-----------------------------------------------------------------------------
(* The application: image transfer.                                        *)

\* setButtonImage has loaded an image.
ImageLoaded ==
  /\ App("idle", "claim")
  /\ data["enable"]
  /\ image' \in Images
  /\ UNCHANGED <<sharedVars, handled, launches, asked, calling, hostVars, connects, unhandled, raced>>

\* GVImageTransferPublish: the slot is claimed, or the image is refused.
ClaimBug ==
  /\ App("claim", "copy1")
  /\ slot' = [slot EXCEPT !.state = "Writing"]
  /\ UNCHANGED <<data, image, handled, launches, asked, calling, hostVars, connects, unhandled, raced>>
Claim ==
  /\ \/ /\ slot.state = "Idle"
        /\ App("claim", "copy1")
        /\ slot' = [slot EXCEPT !.state = "Writing"]
        /\ UNCHANGED image
     \/ /\ slot.state # "Idle"
        /\ App("claim", "idle")
        /\ image' = Blank
        /\ UNCHANGED slot
  /\ UNCHANGED <<data, handled, launches, asked, calling, hostVars, connects, unhandled, raced>>

\* The payload, its size, and only then the state.
Fill ==
  /\ \/ /\ App("copy1", "copy2")
        /\ slot' = [slot EXCEPT !.payload[1] = image]
        /\ UNCHANGED image
     \/ /\ App("copy2", "ready")
        /\ slot' = [slot EXCEPT !.payload[2] = image, !.sized = TRUE]
        /\ image' = Blank
     \/ /\ App("ready", "idle")
        /\ slot' = [slot EXCEPT !.state = "Ready"]
        /\ UNCHANGED image
  /\ UNCHANGED <<data, handled, launches, asked, calling, hostVars, connects, unhandled, raced>>

-----------------------------------------------------------------------------
(* The application: the monitor's tick every 100 ms, and the page's calls. *)

\* The rest of a tick, which finds an application window or finds none.
WindowOrNone == {"window", "windowless"}

\* The timer is not served while its last tick has not returned.
TickBegins ==
  /\ ~calling
  /\ IF data["enable"] /\ data["customButtonAction"] /\ data["floatBtnClick"]
     THEN App("idle", "clear")
     ELSE \E w \in WindowOrNone : App("idle", w)
  /\ UNCHANGED <<sharedVars, image, handled, launches, asked, calling, hostVars, connects, unhandled, raced>>

\* The click is taken off, and then evalJS: calls the page's h5gg_onButtonClick.
TickClickBug ==
  /\ \/ /\ App("clear", "act")
        /\ unhandled' = FALSE
        /\ UNCHANGED <<data, calling>>
     \/ /\ App("act", "idle")
        /\ Put("floatBtnClick", FALSE)
        /\ calling' = TRUE
        /\ UNCHANGED unhandled
  /\ UNCHANGED <<slot, image, handled, launches, asked, hostVars, connects, raced>>
TickClick ==
  /\ \/ /\ App("clear", "act")
        /\ Put("floatBtnClick", FALSE)
        /\ UNCHANGED <<unhandled, calling>>
     \/ /\ App("act", "idle")
        /\ unhandled' = FALSE
        /\ calling' = TRUE
        /\ UNCHANGED data
  /\ UNCHANGED <<slot, image, handled, launches, asked, hostVars, connects, raced>>

\* evalJS: returns between two calls of the page, if at all.
EvalReturns ==
  /\ calling
  /\ \E w \in WindowOrNone : App("idle", w)
  /\ calling' = FALSE
  /\ UNCHANGED <<sharedVars, image, handled, launches, asked, hostVars, connects, unhandled, raced>>

\* The application's window, if there is one, is given away once it is hosted.
TickWindow ==
  /\ app \in WindowOrNone
  /\ app' \in {"upright", "turned"}
  /\ handled' = (handled \/ (data["viewHosted"] /\ app = "window"))
  /\ UNCHANGED <<sharedVars, image, launches, asked, calling, hostVars, connects, unhandled, raced>>

\* When its orientation has followed, the application says that it is loaded.
TickLoaded ==
  /\ app \in {"upright", "turned"}
  /\ app' = "idle"
  /\ IF handled /\ app = "upright" THEN Put("appLoaded", TRUE) ELSE UNCHANGED data
  /\ UNCHANGED <<slot, image, handled, launches, asked, calling, hostVars, connects, unhandled, raced>>

SetButtonAction ==
  /\ App("idle", "idle")
  /\ Put("customButtonAction", TRUE)
  /\ asked' = TRUE
  /\ UNCHANGED <<slot, image, handled, launches, calling, hostVars, connects, unhandled, raced>>

\* setWindowVisible of a hosted view: the flag, and then what it announces.
SetWindowVisible ==
  /\ data["enable"] /\ data["viewHosted"]
  /\ \E to \in {"show", "hide"} : App("idle", to)
  /\ Put("setWindowVisible", TRUE)
  /\ UNCHANGED <<slot, image, handled, launches, asked, calling, hostVars, connects, unhandled, raced>>

SetWindowVisibleState ==
  /\ app \in {"show", "hide"}
  /\ app' = "idle"
  /\ Put("windowVisibleState", app = "show")
  /\ UNCHANGED <<slot, image, handled, launches, asked, calling, hostVars, connects, unhandled, raced>>

-----------------------------------------------------------------------------
(* SpringBoard: the button, and a change of the application in front.      *)

\* toggleGlobalView: host the view, or flip a hosted one that is attached.
ToggleGlobalView ==
  IF view = "none"
  THEN /\ view' = IF data["enable"] THEN "attached" ELSE "detached"
       /\ hidden' = FALSE
  ELSE /\ hidden' = IF view = "attached" THEN ~hidden ELSE hidden
       /\ UNCHANGED view

ButtonTapped ==
  /\ host = "idle"
  /\ IF data["enable"] /\ data["customButtonAction"] /\ view # "none"
     THEN /\ UNCHANGED view
          /\ IF hidden
             THEN hidden' = FALSE /\ UNCHANGED <<data, unhandled>>
             ELSE /\ Put("floatBtnClick", TRUE)
                  /\ unhandled' = Connected
                  /\ UNCHANGED hidden
     ELSE ToggleGlobalView /\ UNCHANGED <<data, unhandled>>
  /\ UNCHANGED <<slot, host, icon, appVars, connects, raced>>

FrontAppChanges ==
  /\ host = "idle"
  /\ view # "none" /\ ~hidden
  /\ ToggleGlobalView
  /\ UNCHANGED <<sharedVars, host, icon, appVars, connects, unhandled, raced>>

-----------------------------------------------------------------------------
(* SpringBoard: the timer of a hosted view.                                *)

HostBeginsBug ==
  /\ Host("idle", "check")
  /\ view # "none"
  /\ UNCHANGED <<sharedVars, view, hidden, icon, appVars, connects, unhandled, raced>>
HostBegins ==
  /\ Host("idle", "check")
  /\ view # "none"
  /\ Put("viewHosted", TRUE)
  /\ UNCHANGED <<slot, view, hidden, icon, appVars, connects, unhandled, raced>>

\* The process is gone, or else a view may be attached when it has loaded.
HostChecks ==
  /\ \/ /\ app = "down"
        /\ Host("check", "reset")
        /\ UNCHANGED view
     \/ /\ app # "down"
        /\ Host("check", "visible")
        /\ view' = IF view = "detached" /\ data["enable"] /\ data["appLoaded"]
                   THEN "attached" ELSE view
  /\ UNCHANGED <<sharedVars, hidden, icon, appVars, connects, unhandled, raced>>

\* Both structures are made anew, one after the other, and the view is let go.
HostResetsBug ==
  /\ Host("reset", "visible")
  /\ data' = GVDataDefault
  /\ view' = "none"
  /\ hidden' = FALSE
  /\ connects' = 0
  /\ raced' = (raced \/ Connected)
  /\ UNCHANGED <<slot, icon, appVars, unhandled>>
HostResets ==
  /\ \/ /\ Host("reset", "resetImage")
        /\ data' = GVDataDefault
        /\ connects' = 0
        /\ raced' = (raced \/ Connected)
        /\ UNCHANGED <<slot, view, hidden>>
     \/ /\ Host("resetImage", "visible")
        /\ slot' = GVImageTransferDefault
        /\ view' = "none"
        /\ hidden' = FALSE
        /\ raced' = (raced \/ connects # 0)
        /\ UNCHANGED <<data, connects>>
  /\ UNCHANGED <<icon, appVars, unhandled>>

\* A view that has just been let go is not shown or hidden any more.
HostShowsViewBug ==
  /\ \/ /\ data["setWindowVisible"]
        /\ Host("visible", "visibleDone")
        /\ Put("setWindowVisible", FALSE)
        /\ UNCHANGED hidden
     \/ /\ ~data["setWindowVisible"]
        /\ Host("visible", "idle")
        /\ UNCHANGED <<data, hidden>>
     \/ /\ Host("visibleDone", "idle")
        /\ hidden' = IF view # "none" /\ data["setWindowVisible"]
                     THEN ~data["windowVisibleState"] ELSE hidden
        /\ UNCHANGED data
  /\ UNCHANGED <<slot, view, icon, appVars, connects, unhandled, raced>>
HostShowsView ==
  /\ \/ /\ data["setWindowVisible"]
        /\ Host("visible", "visibleDone")
        /\ hidden' = IF view = "none" THEN hidden ELSE ~data["windowVisibleState"]
        /\ UNCHANGED data
     \/ /\ ~data["setWindowVisible"]
        /\ Host("visible", "idle")
        /\ UNCHANGED <<data, hidden>>
     \/ /\ Host("visibleDone", "idle")
        /\ Put("setWindowVisible", FALSE)
        /\ UNCHANGED hidden
  /\ UNCHANGED <<slot, view, icon, appVars, connects, unhandled, raced>>

-----------------------------------------------------------------------------
(* SpringBoard: the other timer takes an image that is ready.              *)

\* GVImageTransferConsume.
HostBeginsTaking ==
  /\ slot.state = "Ready"
  /\ Host("idle", IF slot.sized THEN "take1" ELSE "free")
  /\ UNCHANGED <<sharedVars, view, hidden, icon, appVars, connects, unhandled, raced>>

HostTakes ==
  /\ \/ /\ Host("take1", "take2")
        /\ icon' = <<slot.payload[1], Blank>>
     \/ /\ Host("take2", "free")
        /\ icon' = <<icon[1], slot.payload[2]>>
  /\ UNCHANGED <<sharedVars, view, hidden, appVars, connects, unhandled, raced>>

HostFrees ==
  /\ Host("free", "idle")
  /\ slot' = [slot EXCEPT !.sized = FALSE, !.state = "Idle"]
  /\ icon' = <<Blank, Blank>>
  /\ UNCHANGED <<data, view, hidden, appVars, connects, unhandled, raced>>

-----------------------------------------------------------------------------

AppProceeds ==
  \/ Connect
  \/ Claim
  \/ Fill
  \/ TickClick
  \/ TickWindow
  \/ TickLoaded
  \/ SetWindowVisibleState

HostProceeds ==
  \/ HostChecks
  \/ HostResets
  \/ HostShowsView
  \/ HostTakes
  \/ HostFrees

Next ==
  \/ Launch
  \/ Exit
  \/ ImageLoaded
  \/ TickBegins
  \/ SetButtonAction
  \/ SetWindowVisible
  \/ EvalReturns
  \/ AppProceeds
  \/ ButtonTapped
  \/ FrontAppChanges
  \/ HostBegins
  \/ HostBeginsTaking
  \/ HostProceeds

Spec == Init /\ [][Next]_vars

\* Both main threads run, and a timer that is due is served however often
\* something else comes first.  Nothing makes evalJS: return.
FairSpec ==
  /\ Spec
  /\ WF_vars(AppProceeds) /\ SF_vars(TickBegins)
  /\ WF_vars(HostProceeds) /\ SF_vars(HostBegins)

-----------------------------------------------------------------------------
(* Properties.                                                             *)

\* The button never gets the halves of two images, though the application
\* may publish at any time and be replaced in the middle of it; except that a
\* reset may run over an application that SpringBoard has not noticed yet.
WholeImages == host # "take2" => icon[1] = icon[2] \/ raced

\* An application that connects after a reset finds nothing of the one before:
\* no claim on the image slot, no custom button action, no loaded view; and
\* while it runs the sharing stays enabled.
FreshStart ==
  Connected /\ connects = 1 /\ host # "resetImage" /\ ~raced =>
    /\ data["enable"]
    /\ data["customButtonAction"] => asked
    /\ data["appLoaded"] => handled
    /\ slot.state = "Writing" => app \in Publishing

\* evalJS: returns, which BridgeCalls shows of all but its deadlocks.
EvalsReturn == []<>~calling

\* Every click on the button of a page that asked for clicks is followed by a
\* call of h5gg_onButtonClick, even one that comes while another is handled,
\* as long as these calls return; else the clicks after the first are lost.
ClicksAreHandled == EvalsReturn => (unhandled ~> ~unhandled \/ raced)

\* What a view that is to appear needs of an application that stays: it has
\* connected, hangs in no evalJS:, and not all its ticks find it without a window
\* or turned the wrong way.
AppFollows ==
  /\ []<>(app \in {"window", "down"})
  /\ []<>(app \in {"upright", "down"})

\* A view that waits for its application to load is attached or given up, if
\* the application follows.
HostedViewsAppear == AppFollows => (view = "detached" ~> view # "detached" \/ raced)

\* A request of setWindowVisible is followed by the view, or by another one,
\* or the view is given up; unless a poll of SpringBoard came between its two
\* stores or cleared the flag after them, for then it is lost.
RequestsAreFollowed ==
  view # "none" /\ data["setWindowVisible"] /\ hidden = data["windowVisibleState"]
      /\ app \notin {"show", "hide"} /\ host # "visibleDone"
    ~> view = "none" \/ hidden # data["windowVisibleState"] \/ app \in {"show", "hide"}
=============================================================================
