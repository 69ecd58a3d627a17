----------------------------- MODULE ModalShow ------------------------------
(***************************************************************************)
(* ModalShow.mm: synchronous dialogs over the modal request queue.         *)
(*                                                                         *)
(* present:InWindow: blocks its caller until the dialog it asked for has   *)
(* been answered.  A background thread sleeps in the queue's condition     *)
(* variable and posts its submit block to the main queue.  A main-thread   *)
(* caller polls a nested run loop instead, so while it waits the main      *)
(* thread still runs callouts: button taps, dismissal completions, posted  *)
(* blocks, and other calls of present:, whose frames pile up on `stack'.   *)
(* Only the topmost frame can go on; the ones below it sit inside its      *)
(* caller's run loop until it returns.                                     *)
(*                                                                         *)
(* A request that is active as soon as it is enqueued is submitted without *)
(* a turn of the run loop, so no callout comes in between (`InRunLoop').   *)
(*                                                                         *)
(* One action is one callout of the main thread or one step of a           *)
(* background thread.  UIKit is external: it shows the controller it is    *)
(* given, refuses it by raising, or has no window to show it in.  As in    *)
(* ModalQueue, a name ending in Bug is a defect of the definition after it.*)
(***************************************************************************)
EXTENDS ModalQueue

CONSTANTS
  MainCalls,   \* the requests made on the main thread
  BackCalls    \* the requests made on background threads

ASSUME CallsAreRequests == Requests = MainCalls \union BackCalls
ASSUME CallsAreDisjoint == MainCalls \intersect BackCalls = {}

VARIABLES
  pc,      \* where each call is in present:
  stack,   \* the main thread's frames of present:, innermost last
  posted,  \* submit blocks on the main dispatch queue
  alert    \* each request's alert controller on screen

showVars == <<pc, stack, posted, alert>>
vars == <<queueVars, showVars>>

ShowTypeOK ==
  /\ pc \in [Requests -> {"idle", "turn", "submitting", "submitted", "returned"}]
  /\ stack \in Seq(MainCalls)
  /\ posted \in Seq(BackCalls)
  /\ alert \in [Requests -> {"none", "shown", "dismissing", "gone"}]

Init ==
  /\ QueueInit
  /\ pc = [r \in Requests |-> "idle"]
  /\ stack = <<>>
  /\ posted = <<>>
  /\ alert = [r \in Requests |-> "none"]

Top(r) == stack # <<>> /\ Last(stack) = r

\* The main thread is in a run loop, its outer one or one that present: spins,
\* and not on its way from enqueue() to submit().
InRunLoop == \A r \in MainCalls : pc[r] # "submitting"

Goto(r, from, to) ==
  /\ pc[r] \in from
  /\ pc' = [pc EXCEPT ![r] = to]

-----------------------------------------------------------------------------
(* The submit block: build the controller and present it.                  *)

Shown(r) ==
  /\ alert' = [alert EXCEPT ![r] = "shown"]
  /\ UNCHANGED queueVars

\* No presenter, no controller, or presentViewController: raised.
NotShownBug(r) == UNCHANGED <<alert, queueVars>>
NotShown(r) ==
  /\ Complete(r)
  /\ UNCHANGED alert

Submit(r) == Shown(r) \/ NotShown(r)

-----------------------------------------------------------------------------
(* Main-thread callers.                                                    *)

MainCall(r) ==
  /\ r \in MainCalls
  /\ InRunLoop
  /\ Goto(r, {"idle"}, IF queue = <<>> THEN "submitting" ELSE "turn")
  /\ Enqueue(r)
  /\ stack' = Append(stack, r)
  /\ UNCHANGED <<posted, alert>>

\* The request is active, at once or when the first polling loop looks again:
\* it is submitted.  If that has completed it, the second loop does not turn.
MainSubmitBug(r) ==
  /\ r \in MainCalls
  /\ Top(r)
  /\ status[r] \in {"Waiting", "Active"}
  /\ Goto(r, {"turn", "submitting"}, "submitted")
  /\ Shown(r)
  /\ UNCHANGED <<stack, posted>>
MainSubmit(r) ==
  /\ r \in MainCalls
  /\ Top(r)
  /\ status[r] = "Active"
  /\ Submit(r)
  /\ IF status'[r] = "Completed"
     THEN /\ Goto(r, {"turn", "submitting"}, "returned")
          /\ stack' = Front(stack)
     ELSE /\ Goto(r, {"turn", "submitting"}, "submitted")
          /\ UNCHANGED stack
  /\ UNCHANGED posted

\* Building the controller raises inside submit(): the exception unwinds this
\* frame, whose handle was the last one, and the bridge dispatch catches it.
MainThrow(r) ==
  /\ r \in MainCalls
  /\ Top(r)
  /\ status[r] = "Active"
  /\ Goto(r, {"turn", "submitting"}, "returned")
  /\ Cancel(r)
  /\ stack' = Front(stack)
  /\ UNCHANGED <<posted, alert>>

\* The second polling loop sees its request completed, and present: returns.
MainReturn(r) ==
  /\ r \in MainCalls
  /\ Top(r)
  /\ status[r] = "Completed"
  /\ Goto(r, {"submitted"}, "returned")
  /\ stack' = Front(stack)
  /\ UNCHANGED <<queueVars, posted, alert>>

-----------------------------------------------------------------------------
(* Background callers.                                                     *)

BackCall(r) ==
  /\ r \in BackCalls
  /\ Goto(r, {"idle"}, "turn")
  /\ Enqueue(r)
  /\ UNCHANGED <<stack, posted, alert>>

BackSleep(r) ==
  /\ r \in BackCalls
  /\ \/ pc[r] = "turn" /\ SleepForTurn(r)
     \/ pc[r] = "submitted" /\ SleepForEnd(r)
  /\ UNCHANGED showVars

BackWakeup(r) ==
  /\ r \in BackCalls
  /\ SpuriousWakeup(r)
  /\ UNCHANGED showVars

\* waitUntilActive() has returned: post the submit block.
BackPost(r) ==
  /\ r \in BackCalls
  /\ blocked[r] = "no"
  /\ status[r] = "Active"
  /\ Goto(r, {"turn"}, "submitted")
  /\ posted' = Append(posted, r)
  /\ UNCHANGED <<queueVars, stack, alert>>

BackReturn(r) ==
  /\ r \in BackCalls
  /\ blocked[r] = "no"
  /\ status[r] = "Completed"
  /\ Goto(r, {"submitted"}, "returned")
  /\ UNCHANGED <<queueVars, stack, posted, alert>>

\* The main thread, in whichever run loop it is, drains its dispatch queue.
RunPosted ==
  /\ InRunLoop
  /\ posted # <<>>
  /\ Submit(Head(posted))
  /\ posted' = Tail(posted)
  /\ UNCHANGED <<pc, stack>>

-----------------------------------------------------------------------------
(* The user and UIKit.                                                     *)

\* A button is tapped.  Its handler dismisses the alert, or finds that UIKit
\* has already taken it down and finishes the request at once.
TapBug(r) ==
  /\ InRunLoop
  /\ alert[r] = "shown"
  /\ alert' = [alert EXCEPT ![r] = "dismissing"]
  /\ Complete(r)
  /\ UNCHANGED <<pc, stack, posted>>
Tap(r) ==
  /\ InRunLoop
  /\ alert[r] = "shown"
  /\ \/ /\ alert' = [alert EXCEPT ![r] = "dismissing"]
        /\ UNCHANGED queueVars
     \/ /\ alert' = [alert EXCEPT ![r] = "gone"]
        /\ Complete(r)
  /\ UNCHANGED <<pc, stack, posted>>

\* The dismissal's completion block is finish.
Dismissed(r) ==
  /\ InRunLoop
  /\ alert[r] = "dismissing"
  /\ alert' = [alert EXCEPT ![r] = "gone"]
  /\ Complete(r)
  /\ UNCHANGED <<pc, stack, posted>>

Progress(r) ==
  \/ MainSubmit(r)
  \/ MainReturn(r)
  \/ BackPost(r)
  \/ BackReturn(r)
  \/ Tap(r)
  \/ Dismissed(r)

Next ==
  \/ \E r \in Requests :
       \/ MainCall(r)
       \/ MainSubmit(r)
       \/ MainThrow(r)
       \/ MainReturn(r)
       \/ BackCall(r)
       \/ BackSleep(r)
       \/ BackWakeup(r)
       \/ BackPost(r)
       \/ BackReturn(r)
       \/ Tap(r)
       \/ Dismissed(r)
  \/ RunPosted

Spec == Init /\ [][Next]_vars

\* Both run loops keep turning, background threads are scheduled, UIKit
\* finishes its dismissals, and the user answers what is on the screen.
FairSpec ==
  /\ Spec
  /\ \A r \in Requests : WF_vars(Progress(r))
  /\ WF_vars(RunPosted)

-----------------------------------------------------------------------------
(* Properties.                                                             *)

OnScreen == {r \in Requests : alert[r] \in {"shown", "dismissing"}}

\* Dialogs never overlap, not even with the end of a dismissal, and the one
\* on screen belongs to the active request: presentViewController: over a
\* controller that is still up would be dropped by UIKit without a sign.
OneDialogAtATime ==
  \A r \in OnScreen : OnScreen = {r} /\ status[r] = "Active"

\* A call returns the answer of its own dialog: it is still in present: for
\* as long as its dialog is on screen or its submit block is still to run.
AnswerBeforeReturn ==
  \A r \in Requests :
    pc[r] = "returned" => r \notin OnScreen /\ r \notin Range(posted)

\* The active request is out of reach: its frame waits for its turn under
\* another frame, which in turn waits for it.
Buried(r) == r \in MainCalls /\ status[r] = "Active" /\ pc[r] = "turn" /\ ~Top(r)

\* Every call of present: returns, unless a buried request holds the turn.
ReturnsUnlessBuried ==
  \A r \in Requests :
    pc[r] # "idle" ~> pc[r] = "returned" \/ \E s \in Requests : Buried(s)

\* Every call of present: returns.
EveryCallReturns ==
  \A r \in Requests : pc[r] # "idle" ~> pc[r] = "returned"
=============================================================================
