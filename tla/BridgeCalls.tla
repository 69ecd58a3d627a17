---------------------------- MODULE BridgeCalls -----------------------------
(***************************************************************************)
(* FloatMenu.mm: promises of the page, dispatched to native methods.       *)
(*                                                                         *)
(* The bridge script gives each call the next number of its document, puts *)
(* the promise into _cb and posts a message.  The main thread dispatches   *)
(* one message at a time, but a method may open a dialog, and the dialog's *)
(* nested run loop dispatches further messages on top of it: `stack' holds *)
(* the frames of didReceiveScriptMessage.  A method answers by returning,  *)
(* or takes the call over with deferCurrentCall and answers later (file    *)
(* picker, memory dump, button image).  Answers travel back as scripts     *)
(* that WebKit evaluates, in order, in whatever document is loaded then.   *)
(*                                                                         *)
(* Two more things put a frame on the main thread's stack and spin its run *)
(* loop: evalJS:, which waits for the web process to evaluate a script,    *)
(* and a page's own alert() or confirm(), during which the web process     *)
(* waits for the main thread.                                              *)
(*                                                                         *)
(* Dialogs take turns in the order in which they were asked for.  Those of *)
(* the frames are all asked for on the main thread, so the turn belongs to *)
(* the lowest frame whose dialog has not been answered, but a frame can    *)
(* only show its dialog while it is innermost.  A method has one dialog    *)
(* here; one that UIKit does not show is answered at once (ModalShow).     *)
(*                                                                         *)
(* A call is <<page, id>>: the document that made it and its number there. *)
(* The native side only ever sees the number.                              *)
(***************************************************************************)
EXTENDS Naturals, SequencesExt, FiniteSetsExt

CONSTANTS
  MaxPage,   \* bound: documents loaded, one after the other
  MaxId,     \* bound: calls of the first document; each later one makes one less
  MaxEvals,  \* bound: calls of evalJS:
  MaxAlerts  \* bound: calls of alert() by the pages

ASSUME BoundsAreCounts ==
  MaxPage \in Nat \ {0} /\ MaxId \in Nat /\ MaxEvals \in Nat /\ MaxAlerts \in Nat

Ids == 1..MaxId
Calls == (1..MaxPage) \X Ids
None == 0

\* Frames and scripts that belong to no call of a page.
Eval(k) == <<0, k>>
PageAlert == <<0, 0>>
Evals == {Eval(k) : k \in 1..MaxEvals}

VARIABLES
  page,                \* the document loaded
  lastId,              \* its _id
  cb,                  \* the keys of its _cb: promises not settled
  inbox,               \* messages posted and not yet dispatched
  stack,               \* frames that dispatch or spin, innermost last
  pendingCallId,       \* nil is None
  hasPendingCallback,
  deferred,            \* [id, by]: calls taken over and not yet answered
  outbox,              \* [id, by]: scripts calling __h5gg_onResult
  answers,             \* history: answers given for each call
  settledBy,           \* history: the call whose answer settled a promise
  takenOver,           \* history: calls taken over while their document was loaded
  shadowed,            \* history: calls open while another took itself over
  evals,               \* calls of evalJS: made
  evaluated,           \* those whose completion block has run
  alerts,              \* calls of alert() made
  asking               \* the web process waits for its dialog: "no", or it is
                       \* "asked" of the main thread, or "open" there

webVars == <<page, lastId, cb, settledBy>>
slotVars == <<pendingCallId, hasPendingCallback>>
evalVars == <<evals, evaluated>>
alertVars == <<alerts, asking>>
overVars == <<takenOver, shadowed>>
vars == <<webVars, inbox, stack, slotVars, deferred, outbox, answers, overVars, evalVars, alertVars>>

Answer == [id : Ids, by : Calls]
Script == Answer \union [id : {None}, by : Evals]
Dialog == {"turn", "shown", "answered"}
Frame == [call : Calls, at : {"fresh", "ending"} \union Dialog]
  \union [call : Evals, at : {"eval"}]
  \union [call : {PageAlert}, at : Dialog]

BridgeTypeOK ==
  /\ page \in 1..MaxPage
  /\ lastId \in 0..MaxId
  /\ cb \subseteq 1..lastId
  /\ inbox \in Seq(Calls)
  /\ stack \in Seq(Frame)
  /\ pendingCallId \in 0..MaxId
  /\ hasPendingCallback \in BOOLEAN
  /\ deferred \subseteq Answer
  /\ outbox \in Seq(Script)
  /\ answers \in [Calls -> Nat]
  /\ settledBy \in [Calls -> Calls \union {<<>>}]
  /\ takenOver \subseteq Calls
  /\ shadowed \subseteq Calls
  /\ evals \in 0..MaxEvals
  /\ evaluated \subseteq Evals
  /\ alerts \in 0..MaxAlerts
  /\ asking \in {"no", "asked", "open"}

Init ==
  /\ page = 1
  /\ lastId = 0
  /\ cb = {}
  /\ inbox = <<>>
  /\ stack = <<>>
  /\ pendingCallId = None
  /\ hasPendingCallback = FALSE
  /\ deferred = {}
  /\ outbox = <<>>
  /\ answers = [c \in Calls |-> 0]
  /\ settledBy = [c \in Calls |-> <<>>]
  /\ takenOver = {}
  /\ shadowed = {}
  /\ evals = 0
  /\ evaluated = {}
  /\ alerts = 0
  /\ asking = "no"

-----------------------------------------------------------------------------
(* The page.                                                               *)

\* window.__h5gg_native: a promise is made and its message posted.
JSCall ==
  /\ asking = "no"
  /\ lastId + page <= MaxId
  /\ lastId' = lastId + 1
  /\ cb' = cb \union {lastId'}
  /\ inbox' = Append(inbox, <<page, lastId'>>)
  /\ UNCHANGED <<page, settledBy, stack, slotVars, deferred, outbox, answers, overVars, evalVars, alertVars>>

\* window.__h5gg_onResult: the promise settles if it is in _cb, else nothing.
OnResult ==
  /\ asking = "no"
  /\ outbox # <<>>
  /\ Head(outbox).id # None
  /\ outbox' = Tail(outbox)
  /\ LET answer == Head(outbox) IN
       IF answer.id \in cb
       THEN /\ cb' = cb \ {answer.id}
            /\ settledBy' = [settledBy EXCEPT ![<<page, answer.id>>] = answer.by]
       ELSE UNCHANGED <<cb, settledBy>>
  /\ UNCHANGED <<page, lastId, inbox, stack, slotVars, deferred, answers, overVars, evalVars, alertVars>>

\* The script of an evalJS: is evaluated, or fails, and its completion block
\* runs: whichever frame is innermost spins the run loop.
Evaluate ==
  /\ asking = "no"
  /\ outbox # <<>>
  /\ Head(outbox).id = None
  /\ outbox' = Tail(outbox)
  /\ evaluated' = evaluated \union {Head(outbox).by}
  /\ UNCHANGED <<webVars, inbox, stack, slotVars, deferred, answers, overVars, evals, alertVars>>

\* The page calls alert() or confirm(): its process stops until it is answered.
CallAlert ==
  /\ asking = "no"
  /\ alerts < MaxAlerts
  /\ alerts' = alerts + 1
  /\ asking' = "asked"
  /\ UNCHANGED <<webVars, inbox, stack, slotVars, deferred, outbox, answers, overVars, evalVars>>

\* Another document is loaded: the bridge script runs afresh in it.
Navigate ==
  /\ asking = "no"
  /\ page < MaxPage
  /\ page' = page + 1
  /\ lastId' = 0
  /\ cb' = {}
  /\ UNCHANGED <<settledBy, inbox, stack, slotVars, deferred, outbox, answers, overVars, evalVars, alertVars>>

-----------------------------------------------------------------------------
(* The main thread.                                                        *)

Top == Last(stack)

\* The run loop turns: the outer one, or the one that Top spins.
RunLoopTurnsBug == stack # <<>> => Top.at \in Dialog
RunLoopTurns == stack # <<>> => Top.at \in Dialog \union {"eval"}

\* The frames whose dialogs are still to be answered, and the one whose turn
\* it is.
Unfinished(i) == stack[i].at \in {"turn", "shown"}
HasTurn(i) == Unfinished(i) /\ \A j \in 1..(i - 1) : ~Unfinished(j)

\* The caller's dialog is asked for: it is shown at once if no other is open.
Asked == IF \E i \in DOMAIN stack : Unfinished(i) THEN "turn" ELSE "shown"

\* resolveCallId: the answer of call c, addressed to id.
Resolve(id, c) ==
  /\ outbox' = Append(outbox, [id |-> id, by |-> c])
  /\ answers' = [answers EXCEPT ![c] = @ + 1]

\* A message with a callId but a bad method or bad args is refused at once.
Refuse ==
  /\ RunLoopTurns
  /\ inbox # <<>>
  /\ inbox' = Tail(inbox)
  /\ Resolve(Head(inbox)[2], Head(inbox))
  /\ UNCHANGED <<webVars, stack, slotVars, deferred, overVars, evalVars, alertVars>>

DispatchBug ==
  /\ RunLoopTurns
  /\ inbox # <<>>
  /\ inbox' = Tail(inbox)
  /\ stack' = Append(stack, [call |-> Head(inbox), at |-> "fresh"])
  /\ pendingCallId' = IF pendingCallId = None THEN Head(inbox)[2] ELSE pendingCallId
  /\ hasPendingCallback' = FALSE
  /\ UNCHANGED <<webVars, deferred, outbox, answers, overVars, evalVars, alertVars>>
Dispatch ==
  /\ RunLoopTurns
  /\ inbox # <<>>
  /\ inbox' = Tail(inbox)
  /\ stack' = Append(stack, [call |-> Head(inbox), at |-> "fresh"])
  /\ pendingCallId' = Head(inbox)[2]
  /\ hasPendingCallback' = FALSE
  /\ UNCHANGED <<webVars, deferred, outbox, answers, overVars, evalVars, alertVars>>

TopGoes(from, to) ==
  /\ stack # <<>>
  /\ Top.at = from
  /\ stack' = Append(Front(stack), [Top EXCEPT !.at = to])

\* The method opens a dialog; when it is answered the method returns.
OpenDialog ==
  /\ TopGoes("fresh", Asked)
  /\ UNCHANGED <<webVars, inbox, slotVars, deferred, outbox, answers, overVars, evalVars, alertVars>>

\* The innermost frame, a method's or a page dialog's, sees that it is its turn.
ShowDialog ==
  /\ TopGoes("turn", "shown")
  /\ HasTurn(Len(stack))
  /\ UNCHANGED <<webVars, inbox, slotVars, deferred, outbox, answers, overVars, evalVars, alertVars>>

\* The user answers the dialog on screen, whichever frame it belongs to.
AnswerDialog ==
  /\ RunLoopTurns
  /\ \E i \in DOMAIN stack :
       /\ stack[i].at = "shown"
       /\ stack' = [stack EXCEPT ![i].at = "answered"]
  /\ UNCHANGED <<webVars, inbox, slotVars, deferred, outbox, answers, overVars, evalVars, alertVars>>

\* The second polling loop of the method's dialog ends.
CloseDialog ==
  /\ stack # <<>>
  /\ Top.call \in Calls
  /\ TopGoes("answered", "ending")
  /\ UNCHANGED <<webVars, inbox, slotVars, deferred, outbox, answers, overVars, evalVars, alertVars>>

\* deferCurrentCall, and the native work that will answer the call.
DeferCurrentCall ==
  /\ TopGoes("fresh", "ending")
  /\ pendingCallId # None
  /\ hasPendingCallback' = TRUE
  /\ deferred' = deferred \union {[id |-> pendingCallId, by |-> Top.call]}
  /\ takenOver' = takenOver \union {c \in {Top.call} : c[1] = page}
  /\ shadowed' = shadowed \union (Calls \intersect {stack[i].call : i \in 1..(Len(stack) - 1)})
  /\ UNCHANGED <<webVars, inbox, pendingCallId, outbox, answers, evalVars, alertVars>>

\* The end of didReceiveScriptMessage.
ReturnBug ==
  /\ stack # <<>>
  /\ Top.at \in {"fresh", "ending"}
  /\ stack' = Front(stack)
  /\ pendingCallId' = None
  /\ Resolve(Top.call[2], Top.call)
  /\ UNCHANGED <<webVars, inbox, hasPendingCallback, deferred, overVars, evalVars, alertVars>>
Return ==
  /\ stack # <<>>
  /\ Top.at \in {"fresh", "ending"}
  /\ stack' = Front(stack)
  /\ pendingCallId' = None
  /\ IF hasPendingCallback
     THEN UNCHANGED <<outbox, answers>>
     ELSE Resolve(Top.call[2], Top.call)
  /\ UNCHANGED <<webVars, inbox, hasPendingCallback, deferred, overVars, evalVars, alertVars>>

\* The native work of a call that was taken over is done.  setButtonImage
\* with a malformed URL is done before its own dispatch has returned.
FinishBug(d) ==
  /\ RunLoopTurns
  /\ deferred' = deferred \ {d}
  /\ UNCHANGED <<webVars, inbox, stack, slotVars, outbox, answers, overVars, evalVars, alertVars>>
Finish(d) ==
  /\ RunLoopTurns \/ (stack # <<>> /\ Top.call = d.by)
  /\ deferred' = deferred \ {d}
  /\ Resolve(d.id, d.by)
  /\ UNCHANGED <<webVars, inbox, stack, slotVars, overVars, evalVars, alertVars>>

\* evalJS: is called from the run loop: by a timer, the floating button, a
\* rotation, the end of a navigation, or a block posted by setLayoutAction.
EvalJS ==
  /\ RunLoopTurns
  /\ evals < MaxEvals
  /\ evals' = evals + 1
  /\ stack' = Append(stack, [call |-> Eval(evals'), at |-> "eval"])
  /\ outbox' = Append(outbox, [id |-> None, by |-> Eval(evals')])
  /\ UNCHANGED <<webVars, inbox, slotVars, deferred, answers, overVars, evaluated, alertVars>>

EvalReturns ==
  /\ stack # <<>>
  /\ Top.at = "eval"
  /\ Top.call \in evaluated
  /\ stack' = Front(stack)
  /\ UNCHANGED <<webVars, inbox, slotVars, deferred, outbox, answers, overVars, evalVars, alertVars>>

\* runJavaScriptAlertPanel and runJavaScriptConfirmPanel: the page's dialog is
\* shown as the menu's own, and the page goes on when the frame returns.
OpenPageDialog ==
  /\ RunLoopTurns
  /\ asking = "asked"
  /\ asking' = "open"
  /\ stack' = Append(stack, [call |-> PageAlert, at |-> Asked])
  /\ UNCHANGED <<webVars, inbox, slotVars, deferred, outbox, answers, overVars, evalVars, alerts>>

ClosePageDialog ==
  /\ stack # <<>>
  /\ Top.call = PageAlert
  /\ Top.at = "answered"
  /\ stack' = Front(stack)
  /\ asking' = "no"
  /\ UNCHANGED <<webVars, inbox, slotVars, deferred, outbox, answers, overVars, evalVars, alerts>>

MainThread ==
  \/ Refuse \/ Dispatch \/ Return \/ EvalReturns
  \/ ShowDialog \/ CloseDialog \/ OpenPageDialog \/ ClosePageDialog
WebProcess == OnResult \/ Evaluate

Next ==
  \/ JSCall
  \/ OnResult
  \/ Navigate
  \/ Refuse
  \/ Dispatch
  \/ OpenDialog
  \/ ShowDialog
  \/ AnswerDialog
  \/ CloseDialog
  \/ DeferCurrentCall
  \/ Return
  \/ \E d \in deferred : Finish(d)
  \/ EvalJS
  \/ Evaluate
  \/ EvalReturns
  \/ CallAlert
  \/ OpenPageDialog
  \/ ClosePageDialog

Spec == Init /\ [][Next]_vars

\* The main thread runs, the user answers the dialog on screen, native work
\* ends, and the web process evaluates what it is sent.
FairSpec ==
  /\ Spec
  /\ WF_vars(MainThread)
  /\ WF_vars(AnswerDialog)
  /\ WF_vars(WebProcess)
  /\ \A id \in Ids, c \in Calls :
       LET d == [id |-> id, by |-> c] IN WF_vars(d \in deferred /\ Finish(d))

-----------------------------------------------------------------------------
(* Properties.                                                             *)

Waiting(c) == c[1] = page /\ c[2] \in cb

\* Nobody is left who could answer the call.
Lost(c) ==
  /\ Waiting(c)
  /\ c \notin Range(inbox)
  /\ \A i \in DOMAIN stack : stack[i].call # c
  /\ \A d \in deferred : d.by # c
  /\ \A i \in DOMAIN outbox : outbox[i].by # c

\* No call is answered twice: a method that took its call over is not also
\* answered by the return of its dispatch, however dispatches nest.
AnsweredOnce == \A c \in Calls : answers[c] <= 1

\* Between calls of one document answers are never exchanged, though the
\* number of the current call is one slot that nested dispatches overwrite.
AnswersDoNotCross ==
  \A c, d \in Calls : settledBy[c] = d /\ d[1] = c[1] => d = c

\* A promise is lost only if a dispatch nested in its own took its call over.
LostOnlyIfShadowed == \A c \in Calls : Lost(c) => c \in shadowed

\* An evalJS: over a page's dialog: it waits for the web process, which waits
\* for the dialog's frame, which is under it.
EvalOverAlert ==
  \E i, j \in DOMAIN stack : i < j /\ stack[i].call = PageAlert /\ stack[j].at = "eval"

\* The dialog whose turn it is cannot be shown: its frame is under that of a
\* dialog whose turn comes after it.
Buried ==
  \E i, j \in DOMAIN stack :
    i < j /\ HasTurn(i) /\ stack[i].at = "turn" /\ stack[j].at = "turn"

Deadlocked == EvalOverAlert \/ Buried

\* Every other promise settles, or goes away with its document, or the main
\* thread is caught in one of the two deadlocks.
SettlesUnlessShadowed ==
  \A c \in Calls : Waiting(c) ~> ~Waiting(c) \/ c \in shadowed \/ Deadlocked

\* Every evalJS: returns, over dialogs of methods, over dispatches and under
\* page dialogs that come while it waits, unless it was called over one or
\* the dialogs over it are buried.
EvalEndsUnlessDeadlocked ==
  \A e \in Evals :
    (\E i \in DOMAIN stack : stack[i].call = e)
      ~> (\A i \in DOMAIN stack : stack[i].call # e) \/ Deadlocked

\* docs/architecture.md: every promise settles once.
NoPromiseIsLost == \A c \in Calls : ~Lost(c)

\* docs/architecture.md: a later call does not receive the result of one that
\* was taken over, though its document may have gone since.
ResultsReachTheirCall ==
  \A c \in Calls : settledBy[c] \in takenOver => settledBy[c] = c
=============================================================================
