------------------------- MODULE BridgeCallsProofs --------------------------
(***************************************************************************)
(* Proofs about BridgeCalls: every call is answered at most once, answers  *)
(* of one document's calls are not exchanged, and a promise is lost only   *)
(* if a nested dispatch took its own call over.                            *)
(***************************************************************************)
EXTENDS BridgeCalls, SequenceTheorems, TLAPS

Made(c) == c[1] < page \/ (c[1] = page /\ c[2] <= lastId)
Unanswered(c) == answers[c] = 0 /\ \A d \in deferred : d.by # c
OnStack(c) == \E k \in 1..Len(stack) : stack[k].call = c
InInbox(c) == \E i \in 1..Len(inbox) : inbox[i] = c
InOutbox(c) == \E i \in 1..Len(outbox) : outbox[i].by = c
Deferred(c) == \E d \in deferred : d.by = c

\* A message is dispatched once: until then nobody else knows its call.
InboxInv ==
  /\ \A i \in 1..Len(inbox) :
       Made(inbox[i]) /\ Unanswered(inbox[i]) /\ ~OnStack(inbox[i])
  /\ \A i, j \in 1..Len(inbox) : inbox[i] = inbox[j] => i = j

\* A frame owes its call an answer, unless it has just taken the call over,
\* and then its return will see hasPendingCallback.
Owes(k) ==
  \/ Unanswered(stack[k].call)
  \/ k = Len(stack) /\ stack[k].at = "ending" /\ hasPendingCallback

\* A method can only take its own call over: while it is fresh, no run loop
\* has turned since its dispatch.
StackInv ==
  /\ \A k \in 1..Len(stack) :
       stack[k].call \in Calls => Made(stack[k].call) /\ Owes(k)
  /\ \A k, l \in 1..Len(stack) :
       stack[k].call \in Calls /\ stack[k].call = stack[l].call => k = l
  /\ \A k \in 1..Len(stack) :
       stack[k].at = "fresh" => k = Len(stack) /\ pendingCallId = stack[k].call[2]

DeferredInv ==
  \A d \in deferred : d.id = d.by[2] /\ Made(d.by) /\ answers[d.by] = 0

AnswersInv ==
  \A c \in Calls : answers[c] \in {0, 1} /\ (answers[c] = 1 => Made(c))

\* An answer carries the number of the call it answers.
NumbersInv ==
  /\ \A i \in 1..Len(outbox) : outbox[i].id # None => outbox[i].id = outbox[i].by[2]
  /\ \A c \in Calls : settledBy[c] \in Calls => settledBy[c][2] = c[2]

\* A frame whose return will not answer has been shadowed, or its answer is
\* on its way or came too late.
Found(c) == c \in shadowed \/ ~Waiting(c) \/ Deferred(c) \/ InOutbox(c)
LossInv ==
  /\ \A c \in Calls : InInbox(c) \/ OnStack(c) \/ Found(c)
  /\ hasPendingCallback =>
       \A k \in 1..Len(stack) : stack[k].call \in Calls => Found(stack[k].call)

CallsInv == InboxInv /\ StackInv /\ DeferredInv /\ AnswersInv /\ NumbersInv /\ LossInv

-----------------------------------------------------------------------------
(* Sequences and frames.                                                   *)

LEMMA Pushed ==
  ASSUME NEW S, NEW s \in Seq(S), NEW x \in S
  PROVE  /\ Append(s, x) \in Seq(S)
         /\ Len(Append(s, x)) = Len(s) + 1
         /\ \A k \in 1..Len(s) : Append(s, x)[k] = s[k]
         /\ Append(s, x)[Len(s) + 1] = x
  OBVIOUS

LEMMA Popped ==
  ASSUME NEW S, NEW s \in Seq(S), s # <<>>
  PROVE  /\ Front(s) \in Seq(S)
         /\ Len(s) \in Nat \ {0}
         /\ Len(Front(s)) = Len(s) - 1
         /\ \A k \in 1..(Len(s) - 1) : Front(s)[k] = s[k]
         /\ Last(s) = s[Len(s)] /\ Last(s) \in S
<1>1. /\ Len(s) \in Nat \ {0} /\ 1 \in Int /\ Len(s) - 1 \in Int
      /\ s[Len(s)] \in S
      /\ \A k \in 1..(Len(s) - 1) : s[k] \in S
  OBVIOUS
<1> DEFINE front == SubSeq(s, 1, Len(s) - 1)
           n == Len(s) - 1
<1>2. /\ front \in Seq(S)
      /\ Len(front) = IF 1 <= n THEN n - 1 + 1 ELSE 0
      /\ \A k \in 1..(n - 1 + 1) : front[k] = s[1 + k - 1]
  BY <1>1, SubSeqProperties
<1>3. n \in Nat /\ n = Len(s) - 1 /\ \A k \in 1..n : 1 + k - 1 = k
  BY <1>1
<1>4. Front(s) = front /\ Last(s) = s[Len(s)]
  BY DEF Front, Last
<1> HIDE DEF front, n
<1>5. /\ Len(front) = n
      /\ \A k \in 1..n : front[k] = s[k]
  BY <1>2, <1>3
<1> QED
  BY <1>1, <1>2, <1>3, <1>4, <1>5

LEMMA Shifted ==
  ASSUME NEW S, NEW s \in Seq(S), s # <<>>
  PROVE  /\ Tail(s) \in Seq(S)
         /\ Len(s) \in Nat \ {0}
         /\ Len(Tail(s)) = Len(s) - 1
         /\ \A k \in 1..(Len(s) - 1) : Tail(s)[k] = s[k + 1]
         /\ Head(s) = s[1] /\ Head(s) \in S
  OBVIOUS

\* The last element is replaced.
LEMMA Replaced ==
  ASSUME NEW S, NEW s \in Seq(S), s # <<>>, NEW x \in S
  PROVE  /\ Append(Front(s), x) \in Seq(S)
         /\ Len(Append(Front(s), x)) = Len(s)
         /\ \A k \in 1..(Len(s) - 1) : Append(Front(s), x)[k] = s[k]
         /\ Append(Front(s), x)[Len(s)] = x
<1>1. /\ Front(s) \in Seq(S) /\ Len(s) \in Nat \ {0} /\ Len(Front(s)) = Len(s) - 1
      /\ \A k \in 1..(Len(s) - 1) : Front(s)[k] = s[k]
  BY Popped
<1> QED
  BY <1>1, Pushed

LEMMA FrameFacts ==
  /\ \A f \in Frame :
       /\ f.at \in {"fresh", "ending"} => f.call \in Calls
       /\ f.at = "eval" <=> f.call \in Evals
       /\ f.at \in {"fresh", "ending", "eval"} \union Dialog
       /\ f.call \in Calls /\ f.at # "eval" =>
            \A to \in {"ending"} \union Dialog : [f EXCEPT !.at = to] \in Frame
       /\ f.at \in Dialog =>
            \A to \in Dialog : [f EXCEPT !.at = to] \in Frame
       /\ \A to : /\ [f EXCEPT !.at = to].at = to
                  /\ [f EXCEPT !.at = to].call = f.call
  /\ \A c \in Calls : [call |-> c, at |-> "fresh"] \in Frame
  /\ \A e \in Evals : [call |-> e, at |-> "eval"] \in Frame
  /\ \A at \in Dialog : [call |-> PageAlert, at |-> at] \in Frame
  /\ Evals \intersect Calls = {} /\ PageAlert \notin Calls
<1>1. /\ Evals \intersect Calls = {} /\ PageAlert \notin Calls
      /\ PageAlert \notin Evals
  BY BoundsAreCounts DEF Evals, Eval, PageAlert, Calls, Ids
<1>2. "eval" \notin {"fresh", "ending"} \union Dialog
      /\ "fresh" \notin Dialog /\ "ending" \notin Dialog
  BY DEF Dialog
<1> QED
  BY <1>1, <1>2 DEF Frame

LEMMA CallFacts ==
  /\ \A c \in Calls : c = <<c[1], c[2]>> /\ c[1] \in 1..MaxPage /\ c[2] \in 1..MaxId
  /\ \A p \in 1..MaxPage, i \in 1..MaxId : <<p, i>> \in Calls
  /\ None \notin Ids /\ Ids = 1..MaxId
  /\ \A p, i : <<p, i>>[1] = p /\ <<p, i>>[2] = i
  BY BoundsAreCounts DEF Calls, Ids, None

-----------------------------------------------------------------------------
(* Types.                                                                  *)

LEMMA TypeInit == Init => BridgeTypeOK
<1> SUFFICES ASSUME Init PROVE BridgeTypeOK
  OBVIOUS
<1>1. /\ page \in 1..MaxPage /\ lastId \in 0..MaxId /\ cb \subseteq 1..lastId
      /\ pendingCallId \in 0..MaxId /\ hasPendingCallback \in BOOLEAN
      /\ evals \in 0..MaxEvals /\ alerts \in 0..MaxAlerts
      /\ asking \in {"no", "asked", "open"}
  <2>1. /\ page = 1 /\ lastId = 0 /\ cb = {} /\ pendingCallId = 0
        /\ evals = 0 /\ alerts = 0
    BY DEF Init, None
  <2>2. /\ page \in 1..MaxPage /\ lastId \in 0..MaxId /\ cb \subseteq 1..lastId
        /\ pendingCallId \in 0..MaxId /\ evals \in 0..MaxEvals /\ alerts \in 0..MaxAlerts
    BY <2>1, BoundsAreCounts
  <2>3. hasPendingCallback \in BOOLEAN /\ asking \in {"no", "asked", "open"}
    BY DEF Init
  <2> QED
    BY <2>2, <2>3
<1>2. inbox \in Seq(Calls) /\ stack \in Seq(Frame) /\ outbox \in Seq(Script)
  BY EmptySeq DEF Init
<1>3. /\ answers \in [Calls -> Nat] /\ settledBy \in [Calls -> Calls \union {<<>>}]
      /\ deferred \subseteq Answer /\ takenOver \subseteq Calls
      /\ shadowed \subseteq Calls /\ evaluated \subseteq Evals
  BY DEF Init
<1> QED
  BY <1>1, <1>2, <1>3 DEF BridgeTypeOK

\* Top, and the stack when Top goes on, with or without a frame put over it.
LEMMA TopFacts ==
  ASSUME BridgeTypeOK, stack # <<>>
  PROVE  /\ Len(stack) \in Nat \ {0}
         /\ Top = stack[Len(stack)] /\ Top \in Frame
         /\ Front(stack) \in Seq(Frame)
         /\ Len(Front(stack)) = Len(stack) - 1
         /\ \A k \in 1..(Len(stack) - 1) : Front(stack)[k] = stack[k]
  BY Popped DEF BridgeTypeOK, Top

LEMMA TopGoesFacts ==
  ASSUME BridgeTypeOK, NEW from, NEW to, TopGoes(from, to),
         \/ from = "fresh" /\ to \in {"ending"} \union Dialog
         \/ from = "answered" /\ to = "ending" /\ Top.call \in Calls
         \/ from = "turn" /\ to \in Dialog
  PROVE  /\ stack # <<>> /\ Top.at = from
         /\ from = "fresh" => Top.call \in Calls
         /\ stack' \in Seq(Frame)
         /\ Len(stack') = Len(stack)
         /\ \A k \in 1..(Len(stack) - 1) : stack'[k] = stack[k]
         /\ stack'[Len(stack)].call = Top.call /\ stack'[Len(stack)].at = to
<1>1. Top \in Frame /\ stack # <<>> /\ Top.at = from
  BY TopFacts DEF TopGoes
<1> DEFINE f == [Top EXCEPT !.at = to]
<1>2. /\ f \in Frame /\ f.at = to /\ f.call = Top.call
      /\ from = "fresh" => Top.call \in Calls
  BY <1>1, FrameFacts DEF Dialog
<1>3. stack' = Append(Front(stack), f)
  BY DEF TopGoes
<1> HIDE DEF f
<1> QED
  BY <1>1, <1>2, <1>3, Replaced DEF BridgeTypeOK

\* A message is taken out of the inbox.
LEMMA InboxFacts ==
  ASSUME BridgeTypeOK, inbox # <<>>, inbox' = Tail(inbox)
  PROVE  /\ Head(inbox) \in Calls /\ Head(inbox)[2] \in Ids
         /\ Head(inbox) = inbox[1] /\ Len(inbox) \in Nat \ {0}
         /\ inbox' \in Seq(Calls) /\ Len(inbox') = Len(inbox) - 1
         /\ \A k \in 1..(Len(inbox) - 1) : inbox'[k] = inbox[k + 1]
  BY Shifted, CallFacts DEF BridgeTypeOK

\* An answer is sent.
LEMMA ResolveFacts ==
  ASSUME BridgeTypeOK, NEW id \in Ids, NEW c \in Calls, Resolve(id, c)
  PROVE  /\ outbox' \in Seq(Script)
         /\ Len(outbox') = Len(outbox) + 1
         /\ \A k \in 1..Len(outbox) : outbox'[k] = outbox[k]
         /\ outbox'[Len(outbox) + 1] = [id |-> id, by |-> c]
         /\ answers' \in [Calls -> Nat]
         /\ answers'[c] = answers[c] + 1
         /\ \A d \in Calls \ {c} : answers'[d] = answers[d]
<1>1. [id |-> id, by |-> c] \in Script
  BY DEF Script, Answer
<1> QED
  BY <1>1, Pushed DEF BridgeTypeOK, Resolve

LEMMA ScriptFacts ==
  ASSUME BridgeTypeOK, outbox # <<>>, outbox' = Tail(outbox)
  PROVE  /\ Head(outbox) \in Script /\ Head(outbox) = outbox[1]
         /\ Head(outbox).id = None => Head(outbox).by \in Evals
         /\ Head(outbox).id # None => Head(outbox).by \in Calls /\ Head(outbox).id \in Ids
         /\ outbox' \in Seq(Script) /\ Len(outbox') = Len(outbox) - 1
         /\ Len(outbox) \in Nat \ {0}
         /\ \A k \in 1..(Len(outbox) - 1) : outbox'[k] = outbox[k + 1]
<1>1. Head(outbox) \in Script
  BY Shifted DEF BridgeTypeOK
<1>2. /\ Head(outbox).id = None => Head(outbox).by \in Evals
      /\ Head(outbox).id # None => Head(outbox).by \in Calls /\ Head(outbox).id \in Ids
  BY <1>1, CallFacts DEF Script, Answer
<1> QED
  BY <1>1, <1>2, Shifted DEF BridgeTypeOK

LEMMA AskedFact == Asked \in Dialog
  BY DEF Asked, Dialog

\* The steps of a dialog change where a frame is, not whose it is.
LEMMA DialogFacts ==
  ASSUME BridgeTypeOK, OpenDialog \/ ShowDialog \/ CloseDialog \/ AnswerDialog
  PROVE  /\ stack # <<>> /\ stack' \in Seq(Frame) /\ Len(stack') = Len(stack)
         /\ \A k \in 1..Len(stack) :
              /\ stack'[k].call = stack[k].call
              /\ stack'[k].at = "fresh" => stack[k].at = "fresh" /\ k # Len(stack)
         /\ Top.at # "ending"
<1>1. ASSUME NEW from, NEW to, TopGoes(from, to), from # "ending", to # "fresh",
             \/ from = "fresh" /\ to \in {"ending"} \union Dialog
             \/ from = "answered" /\ to = "ending" /\ Top.call \in Calls
             \/ from = "turn" /\ to \in Dialog
      PROVE  /\ stack # <<>> /\ stack' \in Seq(Frame) /\ Len(stack') = Len(stack)
             /\ \A k \in 1..Len(stack) :
                  /\ stack'[k].call = stack[k].call
                  /\ stack'[k].at = "fresh" => stack[k].at = "fresh" /\ k # Len(stack)
             /\ Top.at # "ending"
  <2>1. /\ stack # <<>> /\ Top.at = from
        /\ stack' \in Seq(Frame) /\ Len(stack') = Len(stack)
        /\ \A k \in 1..(Len(stack) - 1) : stack'[k] = stack[k]
        /\ stack'[Len(stack)].call = Top.call /\ stack'[Len(stack)].at = to
    BY <1>1, TopGoesFacts
  <2>2. Len(stack) \in Nat \ {0} /\ Top = stack[Len(stack)]
    BY <2>1, TopFacts
  <2> QED
    BY <1>1, <2>1, <2>2
<1>2. CASE OpenDialog
  <2>1. TopGoes("fresh", Asked) /\ Asked \in Dialog /\ Asked # "fresh"
    BY <1>2, AskedFact DEF OpenDialog, Dialog
  <2> QED
    BY <1>1, <2>1
<1>3. CASE ShowDialog
  BY <1>1, <1>3 DEF ShowDialog, Dialog
<1>4. CASE CloseDialog
  BY <1>1, <1>4 DEF CloseDialog
<1>5. CASE AnswerDialog
  <2> PICK i \in DOMAIN stack :
        /\ stack[i].at = "shown"
        /\ stack' = [stack EXCEPT ![i].at = "answered"]
    BY <1>5 DEF AnswerDialog
  <2> DEFINE f == [stack[i] EXCEPT !.at = "answered"]
  <2>1. /\ stack \in Seq(Frame) /\ i \in 1..Len(stack) /\ stack[i] \in Frame
        /\ Len(stack) \in Nat /\ stack # <<>>
    BY DEF BridgeTypeOK
  <2>2. f \in Frame /\ f.at = "answered" /\ f.call = stack[i].call
    BY <2>1, FrameFacts DEF Dialog
  <2>3. stack' = [stack EXCEPT ![i] = f]
    OBVIOUS
  <2> HIDE DEF f
  <2>4. /\ stack' \in Seq(Frame) /\ Len(stack') = Len(stack)
        /\ stack'[i] = f /\ \A k \in 1..Len(stack) : k # i => stack'[k] = stack[k]
    BY <2>1, <2>2, <2>3
  <2>5. Top.at # "ending" /\ Top.at # "fresh" /\ Top = stack[Len(stack)]
    BY <1>5, <2>1, TopFacts DEF AnswerDialog, RunLoopTurns, Dialog
  <2> QED
    BY <2>1, <2>2, <2>4, <2>5
<1> QED
  BY <1>2, <1>3, <1>4, <1>5

LEMMA PageTypeStep ==
  ASSUME BridgeTypeOK, JSCall \/ OnResult \/ Evaluate \/ CallAlert \/ Navigate
  PROVE  BridgeTypeOK'
<1>0. MaxPage \in Nat \ {0} /\ MaxId \in Nat /\ MaxEvals \in Nat /\ MaxAlerts \in Nat
  BY BoundsAreCounts
<1>1. CASE JSCall
  <2>0. /\ page \in 1..MaxPage /\ lastId \in 0..MaxId /\ cb \subseteq 1..lastId
        /\ lastId + page <= MaxId /\ lastId' = lastId + 1 /\ cb' = cb \union {lastId'}
    BY <1>1 DEF JSCall, BridgeTypeOK
  <2>4. lastId' \in 1..MaxId /\ cb' \subseteq 1..lastId'
    BY <1>0, <2>0
  <2>5. <<page, lastId'>> \in Calls
    BY <2>0, <2>4, CallFacts
  <2>1. lastId' \in 0..MaxId /\ cb' \subseteq 1..lastId' /\ <<page, lastId'>> \in Calls
    BY <2>4, <2>5
  <2>2. inbox' \in Seq(Calls)
    BY <1>1, <2>1, Pushed DEF JSCall, BridgeTypeOK
  <2> QED
    BY <1>1, <2>1, <2>2 DEF JSCall, BridgeTypeOK, slotVars, overVars, evalVars, alertVars
<1>2. CASE OnResult
  <2>1. /\ Head(outbox).by \in Calls /\ Head(outbox).id \in Ids
        /\ outbox' \in Seq(Script)
    BY <1>2, ScriptFacts DEF OnResult
  <2>2. <<page, Head(outbox).id>> \in Calls
    BY <2>1, CallFacts DEF BridgeTypeOK
  <2>3. cb' \subseteq 1..lastId /\ settledBy' \in [Calls -> Calls \union {<<>>}]
    <3>1. CASE Head(outbox).id \in cb
      BY <1>2, <2>1, <2>2, <3>1 DEF OnResult, BridgeTypeOK
    <3>2. CASE Head(outbox).id \notin cb
      BY <1>2, <3>2 DEF OnResult, BridgeTypeOK
    <3> QED
      BY <3>1, <3>2
  <2> QED
    BY <1>2, <2>1, <2>3 DEF OnResult, BridgeTypeOK, slotVars, overVars, evalVars, alertVars
<1>3. CASE Evaluate
  <2>1. Head(outbox).by \in Evals /\ outbox' \in Seq(Script)
    BY <1>3, ScriptFacts DEF Evaluate
  <2> QED
    BY <1>3, <2>1 DEF Evaluate, BridgeTypeOK, webVars, slotVars, overVars, alertVars
<1>4. CASE CallAlert
  BY <1>0, <1>4 DEF CallAlert, BridgeTypeOK, webVars, slotVars, overVars, evalVars
<1>5. CASE Navigate
  BY <1>0, <1>5 DEF Navigate, BridgeTypeOK, slotVars, overVars, evalVars, alertVars
<1> QED
  BY <1>1, <1>2, <1>3, <1>4, <1>5

LEMMA MainTypeStep ==
  ASSUME BridgeTypeOK,
         \/ Refuse \/ Dispatch \/ OpenDialog \/ ShowDialog \/ AnswerDialog \/ CloseDialog
         \/ DeferCurrentCall \/ Return \/ \E d \in deferred : Finish(d)
  PROVE  BridgeTypeOK'
<1>1. CASE Refuse
  <2>1. Head(inbox) \in Calls /\ Head(inbox)[2] \in Ids /\ inbox' \in Seq(Calls)
    BY <1>1, InboxFacts DEF Refuse
  <2>2. outbox' \in Seq(Script) /\ answers' \in [Calls -> Nat]
    BY <1>1, <2>1, ResolveFacts DEF Refuse
  <2> QED
    BY <1>1, <2>1, <2>2 DEF Refuse, BridgeTypeOK, webVars, slotVars, overVars, evalVars, alertVars
<1>2. CASE Dispatch
  <2>1. Head(inbox) \in Calls /\ Head(inbox)[2] \in Ids /\ inbox' \in Seq(Calls)
    BY <1>2, InboxFacts DEF Dispatch
  <2>2. [call |-> Head(inbox), at |-> "fresh"] \in Frame
    BY <2>1, FrameFacts
  <2>3. stack' \in Seq(Frame)
    BY <1>2, <2>2, Pushed DEF Dispatch, BridgeTypeOK
  <2>4. pendingCallId' \in 0..MaxId
    BY <1>2, <2>1, BoundsAreCounts DEF Dispatch, Ids
  <2> QED
    BY <1>2, <2>1, <2>3, <2>4 DEF Dispatch, BridgeTypeOK, webVars, overVars, evalVars, alertVars
<1>3. CASE OpenDialog \/ ShowDialog \/ CloseDialog \/ AnswerDialog
  <2>1. stack' \in Seq(Frame)
    BY <1>3, DialogFacts
  <2> QED
    BY <1>3, <2>1 DEF OpenDialog, ShowDialog, CloseDialog, AnswerDialog, BridgeTypeOK,
       webVars, slotVars, overVars, evalVars, alertVars
<1>5. CASE DeferCurrentCall
  <2>1. stack' \in Seq(Frame) /\ Top.call \in Calls
    BY <1>5, TopGoesFacts DEF DeferCurrentCall
  <2>2. pendingCallId \in Ids
    BY <1>5, CallFacts, BoundsAreCounts DEF DeferCurrentCall, BridgeTypeOK, None
  <2>3. deferred' \subseteq Answer
    BY <1>5, <2>1, <2>2 DEF DeferCurrentCall, BridgeTypeOK, Answer
  <2>4. shadowed' \subseteq Calls /\ takenOver' \subseteq Calls
    BY <1>5, <2>1 DEF DeferCurrentCall, BridgeTypeOK
  <2> QED
    BY <1>5, <2>1, <2>3, <2>4 DEF DeferCurrentCall, BridgeTypeOK, webVars, overVars, evalVars, alertVars
<1>6. CASE Return
  <2>1. stack' \in Seq(Frame) /\ Top.call \in Calls /\ Top.call[2] \in Ids
    BY <1>6, TopFacts, FrameFacts, CallFacts DEF Return
  <2>2. outbox' \in Seq(Script) /\ answers' \in [Calls -> Nat]
    <3>1. CASE hasPendingCallback
      BY <1>6, <3>1 DEF Return, BridgeTypeOK
    <3>2. CASE ~hasPendingCallback
      BY <1>6, <2>1, <3>2, ResolveFacts DEF Return
    <3> QED
      BY <3>1, <3>2
  <2>3. pendingCallId' \in 0..MaxId
    BY <1>6, BoundsAreCounts DEF Return, None
  <2> QED
    BY <1>6, <2>1, <2>2, <2>3 DEF Return, BridgeTypeOK, webVars, overVars, evalVars, alertVars
<1>7. ASSUME NEW d \in deferred, Finish(d)
      PROVE  BridgeTypeOK'
  <2>1. d.id \in Ids /\ d.by \in Calls
    BY DEF BridgeTypeOK, Answer
  <2>2. outbox' \in Seq(Script) /\ answers' \in [Calls -> Nat]
    BY <1>7, <2>1, ResolveFacts DEF Finish
  <2> QED
    BY <1>7, <2>2 DEF Finish, BridgeTypeOK, webVars, slotVars, overVars, evalVars, alertVars
<1> QED
  BY <1>1, <1>2, <1>3, <1>5, <1>6, <1>7

LEMMA EvalTypeStep ==
  ASSUME BridgeTypeOK, EvalJS \/ EvalReturns \/ OpenPageDialog \/ ClosePageDialog
  PROVE  BridgeTypeOK'
<1>1. CASE EvalJS
  <2>1. evals' \in 0..MaxEvals /\ evals' = evals + 1 /\ Eval(evals') \in Evals
    BY <1>1, BoundsAreCounts DEF EvalJS, BridgeTypeOK, Evals
  <2> DEFINE e == Eval(evals')
             frame == [call |-> e, at |-> "eval"]
  <2>2. frame \in Frame
    BY <2>1, FrameFacts
  <2>3. stack' = Append(stack, frame)
    BY <1>1 DEF EvalJS
  <2>4. [id |-> None, by |-> e] \in Script
    BY <2>1 DEF Script
  <2>5. outbox' = Append(outbox, [id |-> None, by |-> e])
    BY <1>1 DEF EvalJS
  <2> HIDE DEF e, frame
  <2>6. stack' \in Seq(Frame)
    BY <2>2, <2>3, Pushed DEF BridgeTypeOK
  <2>7. outbox' \in Seq(Script)
    BY <2>4, <2>5, Pushed DEF BridgeTypeOK
  <2> QED
    BY <1>1, <2>1, <2>6, <2>7 DEF EvalJS, BridgeTypeOK, webVars, slotVars, overVars, alertVars
<1>2. CASE EvalReturns
  <2>1. stack' \in Seq(Frame)
    BY <1>2, TopFacts DEF EvalReturns
  <2> QED
    BY <1>2, <2>1 DEF EvalReturns, BridgeTypeOK, webVars, slotVars, overVars, evalVars, alertVars
<1>3. CASE OpenPageDialog
  <2>1. stack' \in Seq(Frame)
    <3> DEFINE frame == [call |-> PageAlert, at |-> Asked]
    <3>1. frame \in Frame /\ stack' = Append(stack, frame)
      BY <1>3, FrameFacts, AskedFact DEF OpenPageDialog
    <3> HIDE DEF frame
    <3> QED
      BY <3>1, Pushed DEF BridgeTypeOK
  <2> QED
    BY <1>3, <2>1 DEF OpenPageDialog, BridgeTypeOK, webVars, slotVars, overVars, evalVars
<1>4. CASE ClosePageDialog
  <2>1. stack' \in Seq(Frame)
    BY <1>4, TopFacts DEF ClosePageDialog
  <2> QED
    BY <1>4, <2>1 DEF ClosePageDialog, BridgeTypeOK, webVars, slotVars, overVars, evalVars
<1> QED
  BY <1>1, <1>2, <1>3, <1>4

LEMMA TypeStep ==
  ASSUME BridgeTypeOK, [Next]_vars
  PROVE  BridgeTypeOK'
<1>1. CASE UNCHANGED vars
  BY <1>1 DEF vars, webVars, slotVars, overVars, evalVars, alertVars, BridgeTypeOK
<1>2. CASE Next
  BY <1>2, PageTypeStep, MainTypeStep, EvalTypeStep DEF Next
<1> QED
  BY <1>1, <1>2

-----------------------------------------------------------------------------
(* Steps that put frames on the stack or take them off, and neither        *)
(* dispatch a call nor answer one.                                         *)

\* Frames that dispatch keep their place and their call; none of them is
\* fresh afterwards.
FramesStay ==
  /\ \A k \in 1..Len(stack) :
       stack[k].call \in Calls => k \in 1..Len(stack') /\ stack'[k].call = stack[k].call
  /\ \A k \in 1..Len(stack') :
       /\ stack'[k].call \in Calls => k \in 1..Len(stack) /\ stack'[k].call = stack[k].call
       /\ stack'[k].at # "fresh"

ScriptsStay ==
  /\ \A i \in 1..Len(outbox) : i \in 1..Len(outbox') /\ outbox'[i] = outbox[i]
  /\ \A i \in 1..Len(outbox') :
       outbox'[i].id # None => i \in 1..Len(outbox) /\ outbox'[i] = outbox[i]

LEMMA FramesStayInv ==
  ASSUME BridgeTypeOK, BridgeTypeOK', CallsInv, FramesStay, ScriptsStay,
         stack # <<>> => Top.at # "ending",
         UNCHANGED <<webVars, inbox, slotVars, deferred, answers, overVars>>
  PROVE  CallsInv'
<1>0. /\ page' = page /\ lastId' = lastId /\ cb' = cb /\ settledBy' = settledBy
      /\ inbox' = inbox /\ pendingCallId' = pendingCallId
      /\ hasPendingCallback' = hasPendingCallback
      /\ deferred' = deferred /\ answers' = answers /\ shadowed' = shadowed
  BY DEF webVars, slotVars, overVars
<1>1. \A c : /\ Made(c)' <=> Made(c)
             /\ Unanswered(c)' <=> Unanswered(c)
             /\ Deferred(c)' <=> Deferred(c)
             /\ Waiting(c)' <=> Waiting(c)
             /\ InInbox(c)' <=> InInbox(c)
  BY <1>0 DEF Made, Unanswered, Deferred, Waiting, InInbox
<1>2. \A c \in Calls : OnStack(c)' <=> OnStack(c)
  BY DEF OnStack, FramesStay
<1>3. \A c : Found(c) => Found(c)'
  BY <1>0, <1>1 DEF Found, InOutbox, ScriptsStay
<1>4. \A k \in 1..Len(stack) : stack[k].call \in Calls => Unanswered(stack[k].call)
  <2> SUFFICES ASSUME NEW k \in 1..Len(stack), stack[k].call \in Calls
               PROVE  Unanswered(stack[k].call)
    OBVIOUS
  <2>1. Len(stack) # 0
    BY DEF BridgeTypeOK
  <2>2. stack # <<>>
    BY <2>1
  <2>3. stack[Len(stack)].at # "ending"
    BY <2>2, TopFacts
  <2>4. Owes(k)
    BY DEF CallsInv, StackInv
  <2> QED
    BY <2>3, <2>4 DEF Owes
<1>5. InboxInv'
  BY <1>0, <1>1, <1>2 DEF CallsInv, InboxInv, BridgeTypeOK
<1>6. StackInv'
  <2>1. ASSUME NEW k \in 1..Len(stack'), stack'[k].call \in Calls
        PROVE  (Made(stack[k].call) /\ Unanswered(stack[k].call))'
    <3>1. k \in 1..Len(stack) /\ stack'[k].call = stack[k].call
      BY <2>1 DEF FramesStay
    <3>2. Made(stack[k].call) /\ Unanswered(stack[k].call)
      BY <1>4, <2>1, <3>1 DEF CallsInv, StackInv
    <3> QED
      BY <1>1, <3>1, <3>2 DEF Made, Unanswered
  <2>2. \A k, l \in 1..Len(stack') :
          stack'[k].call \in Calls /\ stack'[k].call = stack'[l].call => k = l
    BY DEF CallsInv, StackInv, FramesStay
  <2> QED
    BY <2>1, <2>2 DEF StackInv, Owes, FramesStay
<1>7. DeferredInv' /\ AnswersInv'
  BY <1>0, <1>1 DEF CallsInv, DeferredInv, AnswersInv
<1>8. NumbersInv'
  BY <1>0 DEF CallsInv, NumbersInv, ScriptsStay
<1>9. LossInv'
  BY <1>0, <1>1, <1>2, <1>3 DEF CallsInv, LossInv, FramesStay
<1> QED
  BY <1>5, <1>6, <1>7, <1>8, <1>9 DEF CallsInv

\* While the innermost frame spins a run loop, no frame is fresh or ending
\* with its call taken over.
LEMMA RunLoopFacts ==
  ASSUME BridgeTypeOK, StackInv, RunLoopTurns
  PROVE  /\ stack # <<>> => Top.at # "ending"
         /\ \A k \in 1..Len(stack) : stack[k].at # "fresh"
         /\ \A k \in 1..Len(stack) : stack[k].call \in Calls => Unanswered(stack[k].call)
<1>1. CASE stack = <<>>
  BY <1>1
<1>2. CASE stack # <<>>
  BY <1>2, TopFacts DEF RunLoopTurns, Dialog, StackInv, Owes
<1> QED
  BY <1>1, <1>2

LEMMA DialogStep ==
  ASSUME BridgeTypeOK, CallsInv,
         \/ OpenDialog \/ ShowDialog \/ AnswerDialog \/ CloseDialog
         \/ EvalReturns \/ OpenPageDialog \/ ClosePageDialog
  PROVE  CallsInv'
<1>0. /\ BridgeTypeOK'
      /\ UNCHANGED <<webVars, inbox, slotVars, deferred, answers, overVars, outbox>>
  BY MainTypeStep, EvalTypeStep
     DEF OpenDialog, ShowDialog, AnswerDialog, CloseDialog, EvalReturns, OpenPageDialog, ClosePageDialog
<1>1. ScriptsStay
  BY <1>0 DEF ScriptsStay
<1>2. \A k \in 1..Len(stack) : stack[k].at = "fresh" => k = Len(stack)
  BY DEF CallsInv, StackInv
<1>3. (stack # <<>> => Top.at # "ending") /\ FramesStay
  <2>1. CASE OpenDialog \/ ShowDialog \/ AnswerDialog \/ CloseDialog
    <3>1. /\ stack # <<>> /\ Len(stack') = Len(stack)
          /\ \A k \in 1..Len(stack) :
               /\ stack'[k].call = stack[k].call
               /\ stack'[k].at = "fresh" => stack[k].at = "fresh" /\ k # Len(stack)
          /\ Top.at # "ending"
      BY <2>1, DialogFacts
    <3> QED
      BY <1>2, <3>1 DEF FramesStay
  <2>3. CASE EvalReturns \/ ClosePageDialog
    <3>1. /\ stack # <<>> /\ Top.at \in {"eval", "answered"} /\ stack' = Front(stack)
          /\ Top.call = PageAlert \/ Top.at = "eval"
      BY <2>3 DEF EvalReturns, ClosePageDialog
    <3>2. Top.call \notin Calls
      BY <3>1, TopFacts, FrameFacts
    <3>3. \A k \in 1..Len(stack) : stack[k].at # "fresh"
      BY <1>2, <3>1, TopFacts
    <3> QED
      BY <3>1, <3>2, <3>3, TopFacts DEF FramesStay
  <2>4. CASE OpenPageDialog
    <3> DEFINE frame == [call |-> PageAlert, at |-> Asked]
    <3>1. /\ RunLoopTurns /\ stack' = Append(stack, frame)
          /\ frame \in Frame /\ frame.call \notin Calls /\ frame.at # "fresh"
      BY <2>4, FrameFacts, AskedFact DEF OpenPageDialog, Dialog
    <3> HIDE DEF frame
    <3>2. /\ stack # <<>> => Top.at # "ending"
          /\ \A k \in 1..Len(stack) : stack[k].at # "fresh"
      BY <3>1, RunLoopFacts DEF CallsInv
    <3>3. /\ Len(stack') = Len(stack) + 1 /\ Len(stack) \in Nat
          /\ \A k \in 1..Len(stack) : stack'[k] = stack[k]
          /\ stack'[Len(stack) + 1] = frame
      BY <3>1, Pushed DEF BridgeTypeOK
    <3> QED
      BY <3>1, <3>2, <3>3 DEF FramesStay
  <2> QED
    BY <2>1, <2>3, <2>4
<1> QED
  BY <1>0, <1>1, <1>3, FramesStayInv

LEMMA EvalStep ==
  ASSUME BridgeTypeOK, CallsInv, EvalJS
  PROVE  CallsInv'
<1>0. /\ BridgeTypeOK'
      /\ UNCHANGED <<webVars, inbox, slotVars, deferred, answers, overVars>>
  BY EvalTypeStep DEF EvalJS
<1>1. Eval(evals') \in Evals
  <2>1. evals < MaxEvals /\ evals' = evals + 1 /\ evals \in 0..MaxEvals
    BY DEF EvalJS, BridgeTypeOK
  <2>2. evals' \in 1..MaxEvals
    BY <2>1, BoundsAreCounts
  <2> QED
    BY <2>2 DEF Evals
<1> DEFINE e == Eval(evals')
           frame == [call |-> e, at |-> "eval"]
           script == [id |-> None, by |-> e]
<1>2. /\ frame \in Frame /\ frame.call \notin Calls /\ frame.at # "fresh"
      /\ script \in Script /\ script.id = None
  BY <1>1, FrameFacts DEF Script
<1>3. /\ outbox' = Append(outbox, script)
      /\ RunLoopTurns /\ stack' = Append(stack, frame)
  BY DEF EvalJS
<1> HIDE DEF e, frame, script
<1>4. /\ Len(outbox') = Len(outbox) + 1 /\ Len(outbox) \in Nat
      /\ \A k \in 1..Len(outbox) : outbox'[k] = outbox[k]
      /\ outbox'[Len(outbox) + 1] = script
  BY <1>2, <1>3, Pushed DEF BridgeTypeOK
<1>5. ScriptsStay
  BY <1>2, <1>4 DEF ScriptsStay
<1>6. (stack # <<>> => Top.at # "ending") /\ FramesStay
  <2>1. /\ stack # <<>> => Top.at # "ending"
        /\ \A k \in 1..Len(stack) : stack[k].at # "fresh"
    BY <1>3, RunLoopFacts DEF CallsInv
  <2>2. /\ Len(stack') = Len(stack) + 1 /\ Len(stack) \in Nat
        /\ \A k \in 1..Len(stack) : stack'[k] = stack[k]
        /\ stack'[Len(stack) + 1] = frame
    BY <1>2, <1>3, Pushed DEF BridgeTypeOK
  <2> QED
    BY <1>2, <2>1, <2>2 DEF FramesStay
<1> QED
  BY <1>0, <1>5, <1>6, FramesStayInv

-----------------------------------------------------------------------------
(* The page.                                                               *)

LEMMA CallStep ==
  ASSUME BridgeTypeOK, CallsInv, JSCall
  PROVE  CallsInv'
<1>0. /\ lastId' = lastId + 1 /\ cb' = cb \union {lastId'} /\ page' = page
      /\ UNCHANGED <<settledBy, stack, slotVars, deferred, outbox, answers, overVars>>
      /\ pendingCallId' = pendingCallId /\ hasPendingCallback' = hasPendingCallback
      /\ lastId \in 0..MaxId /\ lastId < MaxId /\ page \in 1..MaxPage
      /\ MaxId \in Nat /\ MaxPage \in Nat /\ shadowed' = shadowed
  BY BoundsAreCounts DEF JSCall, slotVars, overVars, BridgeTypeOK
<1>1. PICK new \in Calls :
        new[1] = page /\ new[2] = lastId + 1 /\ inbox' = Append(inbox, new)
  <2>1. <<page, lastId'>> \in Calls /\ inbox' = Append(inbox, <<page, lastId'>>)
    BY <1>0, CallFacts DEF JSCall
  <2> QED
    BY <1>0, <2>1
<1>2. \A c \in Calls : c # new => c[1] # page \/ c[2] # lastId + 1
  BY <1>0, <1>1, CallFacts
<1>3. ~Made(new) /\ Made(new)' /\ \A c \in Calls : Made(c) => Made(c)'
  BY <1>0, <1>1, CallFacts DEF Made
<1>4. /\ Len(inbox') = Len(inbox) + 1 /\ Len(inbox) \in Nat
      /\ \A k \in 1..Len(inbox) : inbox'[k] = inbox[k] /\ inbox[k] \in Calls
      /\ inbox'[Len(inbox) + 1] = new
  BY <1>1, Pushed DEF BridgeTypeOK
<1>5. Unanswered(new) /\ ~OnStack(new) /\ \A i \in 1..Len(inbox) : inbox[i] # new
  BY <1>1, <1>3 DEF CallsInv, InboxInv, StackInv, AnswersInv, DeferredInv, Unanswered, OnStack
<1>6. \A c : /\ Unanswered(c)' <=> Unanswered(c)
             /\ OnStack(c)' <=> OnStack(c)
             /\ Deferred(c)' <=> Deferred(c)
             /\ InOutbox(c)' <=> InOutbox(c)
  BY <1>0 DEF Unanswered, OnStack, Deferred, InOutbox
<1>7. InboxInv'
  <2>1. ASSUME NEW i \in 1..Len(inbox')
        PROVE  (Made(inbox[i]) /\ Unanswered(inbox[i]) /\ ~OnStack(inbox[i]))'
    <3>1. CASE i \in 1..Len(inbox)
      <4>1. Made(inbox[i]) /\ Unanswered(inbox[i]) /\ ~OnStack(inbox[i])
        BY <3>1 DEF CallsInv, InboxInv
      <4> QED
        BY <1>0, <1>3, <1>4, <3>1, <4>1 DEF Made, Unanswered, OnStack
    <3>2. CASE i = Len(inbox) + 1
      BY <1>0, <1>3, <1>4, <1>5, <3>2 DEF Made, Unanswered, OnStack
    <3> QED
      BY <1>4, <2>1, <3>1, <3>2
  <2>2. \A i, j \in 1..Len(inbox') : inbox'[i] = inbox'[j] => i = j
    BY <1>4, <1>5 DEF CallsInv, InboxInv
  <2> QED
    BY <2>1, <2>2 DEF InboxInv
<1>8. StackInv'
  BY <1>0, <1>3, <1>6 DEF CallsInv, StackInv, Owes
<1>9. DeferredInv' /\ AnswersInv' /\ NumbersInv'
  BY <1>0, <1>3 DEF CallsInv, DeferredInv, AnswersInv, NumbersInv, BridgeTypeOK, Answer
<1>10. \A c \in Calls : c # new => (Found(c) => Found(c)')
  BY <1>0, <1>2, <1>6 DEF Found, Waiting
<1>11. LossInv'
  <2>1. \A c \in Calls : InInbox(c)' \/ OnStack(c)' \/ Found(c)'
    BY <1>4, <1>6, <1>10 DEF CallsInv, LossInv, InInbox
  <2>2. \A k \in 1..Len(stack) : stack[k].call # new
    BY <1>5 DEF OnStack
  <2> QED
    BY <1>0, <1>10, <2>1, <2>2 DEF CallsInv, LossInv
<1> QED
  BY <1>7, <1>8, <1>9, <1>11 DEF CallsInv

LEMMA PageStaysInv ==
  ASSUME BridgeTypeOK, BridgeTypeOK', CallsInv, NumbersInv',
         UNCHANGED <<inbox, stack, slotVars, deferred, answers, shadowed>>,
         \A c \in Calls : (Made(c) => Made(c)') /\ (Found(c) => Found(c)')
  PROVE  CallsInv'
<1>0. /\ inbox' = inbox /\ stack' = stack /\ pendingCallId' = pendingCallId
      /\ hasPendingCallback' = hasPendingCallback
      /\ deferred' = deferred /\ answers' = answers /\ shadowed' = shadowed
  BY DEF slotVars
<1>1. \A c : /\ Unanswered(c)' <=> Unanswered(c)
             /\ OnStack(c)' <=> OnStack(c)
             /\ InInbox(c)' <=> InInbox(c)
  BY <1>0 DEF Unanswered, OnStack, InInbox
<1>2. \A i \in 1..Len(inbox) : inbox[i] \in Calls
  BY DEF BridgeTypeOK
<1>3. InboxInv'
  BY <1>0, <1>1, <1>2 DEF CallsInv, InboxInv
<1>4. StackInv'
  BY <1>0, <1>1 DEF CallsInv, StackInv, Owes
<1>5. DeferredInv' /\ AnswersInv'
  BY <1>0 DEF CallsInv, DeferredInv, AnswersInv, BridgeTypeOK, Answer
<1>6. LossInv'
  BY <1>0, <1>1 DEF CallsInv, LossInv
<1> QED
  BY <1>3, <1>4, <1>5, <1>6 DEF CallsInv

\* What is taken out of the outbox was about one call.
LEMMA ScriptTaken ==
  ASSUME BridgeTypeOK, outbox # <<>>, outbox' = Tail(outbox), NEW c, c # Head(outbox).by
  PROVE  InOutbox(c) => InOutbox(c)'
<1> SUFFICES ASSUME NEW i \in 1..Len(outbox), outbox[i].by = c
             PROVE  \E j \in 1..Len(outbox') : outbox'[j].by = c
  BY DEF InOutbox
<1>1. i # 1 /\ Len(outbox') = Len(outbox) - 1 /\ Len(outbox) \in Nat
      /\ \A k \in 1..(Len(outbox) - 1) : outbox'[k] = outbox[k + 1]
  BY ScriptFacts
<1>2. i - 1 \in 1..Len(outbox') /\ i - 1 + 1 = i
  BY <1>1
<1> QED
  BY <1>1, <1>2

LEMMA PageStep ==
  ASSUME BridgeTypeOK, CallsInv, OnResult \/ Evaluate \/ CallAlert \/ Navigate \/ UNCHANGED vars
  PROVE  CallsInv'
<1>0. /\ BridgeTypeOK'
      /\ UNCHANGED <<inbox, stack, slotVars, deferred, answers, shadowed>>
  BY TypeStep, PageTypeStep
     DEF Next, OnResult, Evaluate, CallAlert, Navigate, vars, webVars, slotVars, overVars
<1>1. \A c : Deferred(c)' <=> Deferred(c)
  BY <1>0 DEF Deferred
<1>2. NumbersInv
  BY DEF CallsInv
<1>3. CASE OnResult
  <2>1. /\ page' = page /\ lastId' = lastId /\ outbox # <<>> /\ outbox' = Tail(outbox)
        /\ Head(outbox).id # None /\ shadowed' = shadowed
    BY <1>3 DEF OnResult, overVars
  <2>2. /\ Head(outbox) = outbox[1] /\ Head(outbox).by \in Calls /\ Head(outbox).id \in Ids
        /\ Len(outbox) \in Nat \ {0} /\ Len(outbox') = Len(outbox) - 1
        /\ \A k \in 1..(Len(outbox) - 1) : outbox'[k] = outbox[k + 1]
    BY <2>1, ScriptFacts
  <2>3. Head(outbox).id = Head(outbox).by[2]
    BY <1>2, <2>1, <2>2 DEF NumbersInv
  <2>4. cb' = cb \ {Head(outbox).id}
    BY <1>3 DEF OnResult
  <2>5. \A c \in Calls : settledBy'[c] \in Calls => settledBy'[c][2] = c[2]
    <3>1. CASE Head(outbox).id \in cb
      <4>1. settledBy' = [settledBy EXCEPT ![<<page, Head(outbox).id>>] = Head(outbox).by]
        BY <1>3, <3>1 DEF OnResult
      <4>2. <<page, Head(outbox).id>>[2] = Head(outbox).id
        OBVIOUS
      <4> QED
        BY <1>2, <2>3, <4>1, <4>2 DEF NumbersInv, BridgeTypeOK
    <3>2. CASE Head(outbox).id \notin cb
      BY <1>2, <1>3, <3>2 DEF OnResult, NumbersInv
    <3> QED
      BY <3>1, <3>2
  <2>6. NumbersInv'
    BY <1>2, <2>2, <2>5 DEF NumbersInv
  <2>7. ASSUME NEW c \in Calls, Found(c)
        PROVE  Found(c)'
    <3>1. CASE c = Head(outbox).by
      BY <2>1, <2>3, <2>4, <3>1 DEF Found, Waiting
    <3>2. CASE c # Head(outbox).by
      <4>1. InOutbox(c) => InOutbox(c)'
        BY <2>1, <3>2, ScriptTaken
      <4> QED
        BY <1>1, <2>1, <2>4, <2>7, <4>1 DEF Found, Waiting
    <3> QED
      BY <3>1, <3>2
  <2>8. \A c : Made(c) => Made(c)'
    BY <2>1 DEF Made
  <2> QED
    BY <1>0, <2>6, <2>7, <2>8, PageStaysInv
<1>4. CASE Evaluate
  <2>1. /\ page' = page /\ lastId' = lastId /\ cb' = cb /\ settledBy' = settledBy
        /\ outbox # <<>> /\ outbox' = Tail(outbox)
        /\ Head(outbox).id = None /\ shadowed' = shadowed
    BY <1>4 DEF Evaluate, webVars, overVars
  <2>2. /\ Head(outbox).by \notin Calls
        /\ Len(outbox) \in Nat \ {0} /\ Len(outbox') = Len(outbox) - 1
        /\ \A k \in 1..(Len(outbox) - 1) : outbox'[k] = outbox[k + 1]
    BY <2>1, ScriptFacts, FrameFacts
  <2>3. NumbersInv'
    BY <1>2, <2>1, <2>2 DEF NumbersInv
  <2>4. \A c \in Calls : InOutbox(c) => InOutbox(c)'
    BY <2>1, <2>2, ScriptTaken
  <2>5. \A c \in Calls : (Made(c) => Made(c)') /\ (Found(c) => Found(c)')
    BY <1>1, <2>1, <2>4 DEF Made, Found, Waiting
  <2> QED
    BY <1>0, <2>3, <2>5, PageStaysInv
<1>5. CASE CallAlert \/ UNCHANGED vars
  <2>1. UNCHANGED <<page, lastId, cb, settledBy, outbox, shadowed>>
    BY <1>5 DEF CallAlert, vars, webVars, overVars
  <2>2. NumbersInv'
    BY <1>2, <2>1 DEF NumbersInv
  <2>3. \A c \in Calls : (Made(c) => Made(c)') /\ (Found(c) => Found(c)')
    BY <1>1, <2>1 DEF Made, Found, Waiting, InOutbox
  <2> QED
    BY <1>0, <2>2, <2>3, PageStaysInv
<1>6. CASE Navigate
  <2>1. /\ page' = page + 1 /\ cb' = {} /\ settledBy' = settledBy /\ outbox' = outbox
        /\ page \in 1..MaxPage /\ MaxPage \in Nat
    BY <1>6, BoundsAreCounts DEF Navigate, BridgeTypeOK
  <2>2. NumbersInv'
    BY <1>2, <2>1 DEF NumbersInv
  <2>3. \A c \in Calls : (Made(c) => Made(c)') /\ Found(c)'
    BY <2>1, CallFacts DEF Made, Found, Waiting
  <2> QED
    BY <1>0, <2>2, <2>3, PageStaysInv
<1> QED
  BY <1>3, <1>4, <1>5, <1>6

-----------------------------------------------------------------------------
(* The main thread.                                                        *)

\* The answer of a call that nobody has answered is sent, with its number.
LEMMA AnswerFacts ==
  ASSUME BridgeTypeOK, AnswersInv, NumbersInv, UNCHANGED webVars, shadowed' = shadowed,
         NEW c \in Calls, answers[c] = 0, Made(c), Resolve(c[2], c)
  PROVE  /\ AnswersInv' /\ NumbersInv'
         /\ InOutbox(c)' /\ \A d : InOutbox(d) => InOutbox(d)'
         /\ answers'[c] = 1
         /\ \A d \in Calls \ {c} : answers'[d] = answers[d]
<1>0. /\ page' = page /\ lastId' = lastId /\ cb' = cb /\ settledBy' = settledBy
      /\ c[2] \in Ids
  BY CallFacts DEF webVars
<1>1. /\ Len(outbox') = Len(outbox) + 1 /\ Len(outbox) \in Nat
      /\ \A k \in 1..Len(outbox) : outbox'[k] = outbox[k]
      /\ outbox'[Len(outbox) + 1] = [id |-> c[2], by |-> c]
      /\ answers'[c] = answers[c] + 1
      /\ \A d \in Calls \ {c} : answers'[d] = answers[d]
  BY <1>0, ResolveFacts DEF BridgeTypeOK
<1>2. answers'[c] = 1
  BY <1>1
<1>3. AnswersInv'
  BY <1>0, <1>1, <1>2 DEF AnswersInv, Made
<1>4. NumbersInv'
  BY <1>0, <1>1 DEF NumbersInv
<1>5. InOutbox(c)' /\ \A d : InOutbox(d) => InOutbox(d)'
  BY <1>1 DEF InOutbox
<1> QED
  BY <1>1, <1>2, <1>3, <1>4, <1>5

LEMMA RefuseStep ==
  ASSUME BridgeTypeOK, CallsInv, Refuse
  PROVE  CallsInv'
<1>1. PICK c \in Calls : c = Head(inbox)
  BY InboxFacts DEF Refuse
<1>2. /\ page' = page /\ lastId' = lastId /\ cb' = cb /\ UNCHANGED webVars
      /\ stack' = stack /\ pendingCallId' = pendingCallId
      /\ hasPendingCallback' = hasPendingCallback
      /\ deferred' = deferred /\ shadowed' = shadowed /\ Resolve(c[2], c)
  BY <1>1 DEF Refuse, webVars, slotVars, overVars
<1>3. /\ c = inbox[1] /\ Len(inbox) \in Nat \ {0} /\ Len(inbox') = Len(inbox) - 1
      /\ \A k \in 1..(Len(inbox) - 1) : inbox'[k] = inbox[k + 1]
      /\ \A k \in 1..Len(inbox) : inbox[k] \in Calls
  BY <1>1, InboxFacts DEF Refuse, BridgeTypeOK
<1>4. Made(c) /\ Unanswered(c) /\ ~OnStack(c) /\ answers[c] = 0
  BY <1>3 DEF CallsInv, InboxInv, Unanswered
<1>5. /\ AnswersInv' /\ NumbersInv'
      /\ InOutbox(c)' /\ \A d : InOutbox(d) => InOutbox(d)'
      /\ answers'[c] = 1 /\ \A d \in Calls \ {c} : answers'[d] = answers[d]
  BY <1>2, <1>4, AnswerFacts DEF CallsInv
<1>6. \A d \in Calls \ {c} : Unanswered(d) => Unanswered(d)'
  BY <1>2, <1>5 DEF Unanswered
<1>7. \A d \in Calls : /\ Made(d)' <=> Made(d)
                       /\ OnStack(d)' <=> OnStack(d)
                       /\ Found(d) => Found(d)'
  BY <1>2, <1>5 DEF Made, OnStack, Found, Waiting, Deferred
<1>8. \A k \in 1..Len(inbox') :
        inbox'[k] \in Calls \ {c} /\ Made(inbox'[k]) /\ Unanswered(inbox'[k]) /\ ~OnStack(inbox'[k])
  BY <1>3 DEF CallsInv, InboxInv
<1>9. InboxInv'
  <2>1. ASSUME NEW k \in 1..Len(inbox')
        PROVE  (Made(inbox[k]) /\ Unanswered(inbox[k]) /\ ~OnStack(inbox[k]))'
    <3>1. PICK d \in Calls \ {c} :
            d = inbox'[k] /\ Made(d) /\ Unanswered(d) /\ ~OnStack(d)
      BY <1>8
    <3>2. Made(d)' /\ Unanswered(d)' /\ ~OnStack(d)'
      BY <1>6, <1>7, <3>1
    <3> QED
      BY <3>1, <3>2 DEF Made, Unanswered, OnStack
  <2>2. \A i, j \in 1..Len(inbox') : inbox'[i] = inbox'[j] => i = j
    BY <1>3 DEF CallsInv, InboxInv
  <2> QED
    BY <2>1, <2>2 DEF InboxInv
<1>10. StackInv'
  <2>1. \A k \in 1..Len(stack) : stack[k].call \in Calls => stack[k].call \in Calls \ {c}
    BY <1>4 DEF OnStack
  <2> QED
    BY <1>2, <1>6, <1>7, <2>1 DEF CallsInv, StackInv, Owes
<1>11. DeferredInv'
  BY <1>2, <1>4, <1>5, <1>7 DEF CallsInv, DeferredInv, Unanswered, BridgeTypeOK, Answer
<1>12. LossInv'
  <2>1. \A d \in Calls \ {c} : InInbox(d) => InInbox(d)'
    <3> SUFFICES ASSUME NEW d \in Calls \ {c}, NEW i \in 1..Len(inbox), inbox[i] = d
                 PROVE  \E j \in 1..Len(inbox') : inbox'[j] = d
      BY DEF InInbox
    <3>1. i # 1 /\ i - 1 \in 1..Len(inbox') /\ i - 1 + 1 = i
      BY <1>3
    <3> QED
      BY <1>3, <3>1
  <2> QED
    BY <1>2, <1>5, <1>7, <2>1 DEF CallsInv, LossInv, Found
<1> QED
  BY <1>5, <1>9, <1>10, <1>11, <1>12 DEF CallsInv

LEMMA DispatchStep ==
  ASSUME BridgeTypeOK, CallsInv, Dispatch
  PROVE  CallsInv'
<1>1. PICK c \in Calls : c = Head(inbox)
  BY InboxFacts DEF Dispatch
<1>2. /\ page' = page /\ lastId' = lastId /\ cb' = cb /\ settledBy' = settledBy
      /\ stack' = Append(stack, [call |-> c, at |-> "fresh"]) /\ pendingCallId' = c[2]
      /\ hasPendingCallback' = FALSE /\ RunLoopTurns
      /\ deferred' = deferred /\ shadowed' = shadowed
      /\ outbox' = outbox /\ answers' = answers
  BY <1>1 DEF Dispatch, webVars, overVars
<1>3. /\ c = inbox[1] /\ Len(inbox) \in Nat \ {0} /\ Len(inbox') = Len(inbox) - 1
      /\ \A k \in 1..(Len(inbox) - 1) : inbox'[k] = inbox[k + 1]
      /\ \A k \in 1..Len(inbox) : inbox[k] \in Calls
  BY <1>1, InboxFacts DEF Dispatch, BridgeTypeOK
<1>4. /\ Len(stack') = Len(stack) + 1 /\ Len(stack) \in Nat
      /\ \A k \in 1..Len(stack) : stack'[k] = stack[k]
      /\ stack'[Len(stack) + 1].call = c /\ stack'[Len(stack) + 1].at = "fresh"
  <2> DEFINE frame == [call |-> c, at |-> "fresh"]
  <2>1. frame \in Frame /\ frame.call = c /\ frame.at = "fresh"
    BY FrameFacts
  <2>2. stack' = Append(stack, frame)
    BY <1>2
  <2> HIDE DEF frame
  <2> QED
    BY <2>1, <2>2, Pushed DEF BridgeTypeOK
<1>5. Made(c) /\ Unanswered(c) /\ ~OnStack(c)
  BY <1>3 DEF CallsInv, InboxInv
<1>6. /\ \A k \in 1..Len(stack) : stack[k].at # "fresh"
      /\ \A k \in 1..Len(stack) : stack[k].call \in Calls => Unanswered(stack[k].call)
  BY <1>2, RunLoopFacts DEF CallsInv
<1>7. \A d \in Calls : /\ Made(d)' <=> Made(d)
                       /\ Unanswered(d)' <=> Unanswered(d)
                       /\ Found(d)' <=> Found(d)
  BY <1>2 DEF Made, Unanswered, Found, Waiting, Deferred, InOutbox
<1>8. \A d \in Calls : /\ OnStack(d) => OnStack(d)'
                       /\ OnStack(d)' => OnStack(d) \/ d = c
  BY <1>4 DEF OnStack
<1>9. OnStack(c)'
  BY <1>4 DEF OnStack
<1>10. \A k \in 1..Len(inbox') :
         /\ inbox'[k] \in Calls /\ inbox'[k] # c
         /\ Made(inbox'[k]) /\ Unanswered(inbox'[k]) /\ ~OnStack(inbox'[k])
  BY <1>3 DEF CallsInv, InboxInv
<1>11. InboxInv'
  <2>1. ASSUME NEW k \in 1..Len(inbox')
        PROVE  (Made(inbox[k]) /\ Unanswered(inbox[k]) /\ ~OnStack(inbox[k]))'
    <3>1. PICK d \in Calls \ {c} :
            d = inbox'[k] /\ Made(d) /\ Unanswered(d) /\ ~OnStack(d)
      BY <1>10
    <3>2. Made(d)' /\ Unanswered(d)' /\ ~OnStack(d)'
      BY <1>7, <1>8, <3>1
    <3> QED
      BY <3>1, <3>2 DEF Made, Unanswered, OnStack
  <2>2. \A i, j \in 1..Len(inbox') : inbox'[i] = inbox'[j] => i = j
    BY <1>3 DEF CallsInv, InboxInv
  <2> QED
    BY <2>1, <2>2 DEF InboxInv
<1>12. StackInv'
  <2>1. ASSUME NEW k \in 1..Len(stack'), stack'[k].call \in Calls
        PROVE  (Made(stack[k].call) /\ Unanswered(stack[k].call))'
    <3>1. PICK d \in Calls : d = stack'[k].call /\ Made(d) /\ Unanswered(d)
      BY <1>4, <1>5, <1>6, <2>1 DEF CallsInv, StackInv
    <3>2. Made(d)' /\ Unanswered(d)'
      BY <1>7, <3>1
    <3> QED
      BY <3>1, <3>2 DEF Made, Unanswered
  <2>2. \A k, l \in 1..Len(stack') :
          stack'[k].call \in Calls /\ stack'[k].call = stack'[l].call => k = l
    BY <1>4, <1>5 DEF CallsInv, StackInv, OnStack
  <2>3. \A k \in 1..Len(stack') :
          stack'[k].at = "fresh" => k = Len(stack') /\ pendingCallId' = stack'[k].call[2]
    BY <1>2, <1>4, <1>6
  <2> QED
    BY <2>1, <2>2, <2>3 DEF StackInv, Owes
<1>13. DeferredInv' /\ AnswersInv' /\ NumbersInv'
  BY <1>2, <1>7 DEF CallsInv, DeferredInv, AnswersInv, NumbersInv, BridgeTypeOK, Answer
<1>14. LossInv'
  <2>1. ASSUME NEW d \in Calls, InInbox(d), d # c
        PROVE  InInbox(d)'
    <3> PICK i \in 1..Len(inbox) : inbox[i] = d
      BY <2>1 DEF InInbox
    <3>1. i # 1 /\ i - 1 \in 1..Len(inbox') /\ i - 1 + 1 = i
      BY <1>3, <2>1
    <3>2. inbox'[i - 1] = d
      BY <1>3, <3>1
    <3> QED
      BY <3>1, <3>2 DEF InInbox
  <2> QED
    BY <1>2, <1>7, <1>8, <1>9, <2>1 DEF CallsInv, LossInv
<1> QED
  BY <1>11, <1>12, <1>13, <1>14 DEF CallsInv

LEMMA DeferStep ==
  ASSUME BridgeTypeOK, CallsInv, DeferCurrentCall
  PROVE  CallsInv'
<1>1. PICK c \in Calls : c = Top.call
  BY TopGoesFacts DEF DeferCurrentCall
<1>2. /\ page' = page /\ lastId' = lastId /\ cb' = cb /\ settledBy' = settledBy
      /\ inbox' = inbox /\ pendingCallId' = pendingCallId /\ hasPendingCallback' = TRUE
      /\ deferred' = deferred \union {[id |-> pendingCallId, by |-> c]}
      /\ outbox' = outbox /\ answers' = answers
      /\ \A k \in 1..(Len(stack) - 1) : stack[k].call \in Calls => stack[k].call \in shadowed'
      /\ \A d \in shadowed : d \in shadowed'
  BY <1>1 DEF DeferCurrentCall, webVars
<1>3. /\ stack # <<>> /\ Top.at = "fresh" /\ Len(stack) \in Nat \ {0}
      /\ Len(stack') = Len(stack)
      /\ \A k \in 1..(Len(stack) - 1) : stack'[k] = stack[k]
      /\ stack[Len(stack)].call = c /\ stack[Len(stack)].at = "fresh"
      /\ stack'[Len(stack)].call = c /\ stack'[Len(stack)].at = "ending"
  BY <1>1, TopGoesFacts, TopFacts DEF DeferCurrentCall
<1>4. Made(c) /\ Unanswered(c) /\ pendingCallId = c[2] /\ answers[c] = 0
  BY <1>3 DEF CallsInv, StackInv, Owes, Unanswered
<1>5. \A d \in Calls : /\ Made(d)' <=> Made(d)
                       /\ OnStack(d)' <=> OnStack(d)
                       /\ InInbox(d)' <=> InInbox(d)
                       /\ Found(d) => Found(d)'
  <2>1. \A d \in Calls : OnStack(d)' <=> OnStack(d)
    BY <1>3 DEF OnStack
  <2> QED
    BY <1>2, <2>1 DEF Made, InInbox, Found, Waiting, Deferred, InOutbox
<1>6. \A d \in Calls \ {c} : Unanswered(d) => Unanswered(d)'
  BY <1>2 DEF Unanswered
<1>7. Deferred(c)'
  <2>1. [id |-> pendingCallId, by |-> c] \in deferred'
    BY <1>2
  <2>2. [id |-> pendingCallId, by |-> c].by = c
    OBVIOUS
  <2> QED
    BY <2>1, <2>2 DEF Deferred
<1>8. OnStack(c)
  BY <1>3 DEF OnStack
<1>9. InboxInv'
  <2>1. ASSUME NEW k \in 1..Len(inbox')
        PROVE  (Made(inbox[k]) /\ Unanswered(inbox[k]) /\ ~OnStack(inbox[k]))'
    <3>1. PICK d \in Calls : d = inbox[k] /\ Made(d) /\ Unanswered(d) /\ ~OnStack(d)
      BY <1>2 DEF CallsInv, InboxInv, BridgeTypeOK
    <3>2. Made(d)' /\ Unanswered(d)' /\ ~OnStack(d)'
      BY <1>5, <1>6, <1>8, <3>1
    <3> QED
      BY <1>2, <3>1, <3>2 DEF Made, Unanswered, OnStack
  <2> QED
    BY <1>2, <2>1 DEF InboxInv, CallsInv
<1>10. StackInv'
  <2>1. ASSUME NEW k \in 1..(Len(stack) - 1), stack[k].call \in Calls
        PROVE  (Made(stack[k].call) /\ Unanswered(stack[k].call))'
    <3>1. PICK d \in Calls \ {c} : d = stack[k].call /\ Made(d) /\ Unanswered(d)
      BY <1>3, <2>1 DEF CallsInv, StackInv, Owes
    <3>2. Made(d)' /\ Unanswered(d)'
      BY <1>5, <1>6, <3>1
    <3> QED
      BY <1>3, <3>1, <3>2 DEF Made, Unanswered
  <2>2. Made(stack[Len(stack)].call)'
    BY <1>2, <1>3, <1>4 DEF Made
  <2>3. \A k, l \in 1..Len(stack') :
          stack'[k].call \in Calls /\ stack'[k].call = stack'[l].call => k = l
    BY <1>3 DEF CallsInv, StackInv
  <2>4. \A k \in 1..Len(stack') : stack'[k].at # "fresh"
    BY <1>3 DEF CallsInv, StackInv
  <2>5. \A k \in 1..Len(stack') : stack'[k].call \in Calls =>
          (Made(stack[k].call) /\ (Unanswered(stack[k].call) \/ k = Len(stack)))'
    BY <1>3, <2>1, <2>2
  <2> QED
    BY <1>2, <1>3, <2>3, <2>4, <2>5 DEF StackInv, Owes
<1>11. DeferredInv'
  BY <1>2, <1>4, <1>5 DEF CallsInv, DeferredInv, BridgeTypeOK, Answer
<1>12. AnswersInv' /\ NumbersInv'
  BY <1>2, <1>5 DEF CallsInv, AnswersInv, NumbersInv
<1>13. LossInv'
  <2>1. ASSUME NEW k \in 1..Len(stack'), stack'[k].call \in Calls
        PROVE  Found(stack[k].call)'
    <3>1. CASE k = Len(stack)
      BY <1>3, <1>7, <3>1 DEF Found, Deferred
    <3>2. CASE k # Len(stack)
      BY <1>2, <1>3, <2>1, <3>2 DEF Found
    <3> QED
      BY <3>1, <3>2
  <2> QED
    BY <1>5, <2>1 DEF CallsInv, LossInv
<1> QED
  BY <1>9, <1>10, <1>11, <1>12, <1>13 DEF CallsInv

LEMMA ReturnStep ==
  ASSUME BridgeTypeOK, CallsInv, Return
  PROVE  CallsInv'
<1>1. PICK c \in Calls : c = Top.call
  BY TopFacts, FrameFacts DEF Return
<1>2. /\ page' = page /\ lastId' = lastId /\ cb' = cb /\ settledBy' = settledBy
      /\ UNCHANGED webVars
      /\ inbox' = inbox /\ pendingCallId' = None /\ hasPendingCallback' = hasPendingCallback
      /\ deferred' = deferred /\ shadowed' = shadowed
      /\ IF hasPendingCallback
         THEN outbox' = outbox /\ answers' = answers
         ELSE Resolve(c[2], c)
  BY <1>1 DEF Return, webVars, overVars
<1>3. /\ stack # <<>> /\ Len(stack) \in Nat \ {0}
      /\ Len(stack') = Len(stack) - 1
      /\ \A k \in 1..(Len(stack) - 1) : stack'[k] = stack[k]
      /\ stack[Len(stack)].call = c
  BY <1>1, TopFacts DEF Return
<1>4. Made(c) /\ (Unanswered(c) \/ hasPendingCallback)
  BY <1>3 DEF CallsInv, StackInv, Owes
<1>5. /\ AnswersInv' /\ NumbersInv'
      /\ \A d : InOutbox(d) => InOutbox(d)'
      /\ \A d \in Calls : d # c \/ ~Unanswered(d) => answers'[d] = answers[d]
      /\ InOutbox(c)' \/ Found(c)
  <2>1. CASE hasPendingCallback
    <3>1. Found(c)
      BY <1>3, <2>1 DEF CallsInv, LossInv
    <3> QED
      BY <1>2, <2>1, <3>1 DEF CallsInv, AnswersInv, NumbersInv, Made, InOutbox
  <2>2. CASE ~hasPendingCallback
    <3>1. Resolve(c[2], c) /\ answers[c] = 0 /\ Unanswered(c)
      BY <1>2, <1>4, <2>2 DEF Unanswered
    <3> QED
      BY <1>2, <1>4, <3>1, AnswerFacts DEF CallsInv
  <2> QED
    BY <2>1, <2>2
<1>6. \A d \in Calls : /\ Made(d)' <=> Made(d)
                       /\ d # c => (Unanswered(d) => Unanswered(d)')
                       /\ InInbox(d)' <=> InInbox(d)
                       /\ Found(d) => Found(d)'
  BY <1>2, <1>5 DEF Made, Unanswered, InInbox, Found, Waiting, Deferred
<1>7. Found(c)'
  BY <1>5, <1>6 DEF Found
<1>8. /\ OnStack(c)
      /\ \A d \in Calls : /\ OnStack(d)' => OnStack(d)
                          /\ OnStack(d) /\ d # c => OnStack(d)'
  BY <1>3 DEF OnStack
<1>9. InboxInv'
  <2>1. ASSUME NEW k \in 1..Len(inbox')
        PROVE  (Made(inbox[k]) /\ Unanswered(inbox[k]) /\ ~OnStack(inbox[k]))'
    <3>1. PICK d \in Calls : d = inbox[k] /\ Made(d) /\ Unanswered(d) /\ ~OnStack(d)
      BY <1>2 DEF CallsInv, InboxInv, BridgeTypeOK
    <3>2. Made(d)' /\ Unanswered(d)' /\ ~OnStack(d)'
      BY <1>6, <1>8, <3>1
    <3> QED
      BY <1>2, <3>1, <3>2 DEF Made, Unanswered, OnStack
  <2> QED
    BY <1>2, <2>1 DEF InboxInv, CallsInv
<1>10. StackInv'
  <2>1. ASSUME NEW k \in 1..Len(stack'), stack'[k].call \in Calls
        PROVE  (Made(stack[k].call) /\ Unanswered(stack[k].call))'
    <3>1. PICK d \in Calls \ {c} : d = stack[k].call /\ Made(d) /\ Unanswered(d)
      BY <1>3, <2>1 DEF CallsInv, StackInv, Owes
    <3>2. Made(d)' /\ Unanswered(d)'
      BY <1>6, <3>1
    <3> QED
      BY <1>3, <3>1, <3>2 DEF Made, Unanswered
  <2>2. \A k, l \in 1..Len(stack') :
          stack'[k].call \in Calls /\ stack'[k].call = stack'[l].call => k = l
    BY <1>3 DEF CallsInv, StackInv
  <2>3. \A k \in 1..Len(stack') : stack'[k].at # "fresh"
    BY <1>3 DEF CallsInv, StackInv
  <2> QED
    BY <2>1, <2>2, <2>3 DEF StackInv, Owes
<1>11. DeferredInv'
  <2>1. \A d \in deferred : d.by \in Calls /\ ~Unanswered(d.by)
    BY DEF Unanswered, BridgeTypeOK, Answer
  <2> QED
    BY <1>2, <1>5, <1>6, <2>1 DEF CallsInv, DeferredInv
<1>12. LossInv'
  <2>1. \A k \in 1..Len(stack') : hasPendingCallback /\ stack'[k].call \in Calls =>
          Found(stack[k].call) /\ stack'[k].call = stack[k].call
    BY <1>3 DEF CallsInv, LossInv
  <2>2. ASSUME NEW k \in 1..Len(stack'), hasPendingCallback', stack'[k].call \in Calls
        PROVE  Found(stack[k].call)'
    <3>1. PICK d \in Calls : d = stack'[k].call /\ Found(d)
      BY <1>2, <2>1, <2>2
    <3> QED
      BY <1>6, <3>1 DEF Found, Waiting, Deferred, InOutbox
  <2> QED
    BY <1>6, <1>7, <1>8, <2>2 DEF CallsInv, LossInv
<1> QED
  BY <1>5, <1>9, <1>10, <1>11, <1>12 DEF CallsInv

LEMMA FinishStep ==
  ASSUME BridgeTypeOK, CallsInv, NEW a \in deferred, Finish(a)
  PROVE  CallsInv'
<1>1. /\ a.by \in Calls /\ a.id = a.by[2] /\ Made(a.by) /\ answers[a.by] = 0
      /\ a \in Answer
  BY DEF CallsInv, DeferredInv, BridgeTypeOK, Answer
<1>2. /\ page' = page /\ lastId' = lastId /\ cb' = cb /\ UNCHANGED webVars
      /\ stack' = stack /\ inbox' = inbox /\ pendingCallId' = pendingCallId
      /\ hasPendingCallback' = hasPendingCallback
      /\ deferred' = deferred \ {a} /\ shadowed' = shadowed /\ Resolve(a.by[2], a.by)
  BY <1>1 DEF Finish, webVars, slotVars, overVars
<1> DEFINE c == a.by
<1>3. c \in Calls /\ ~Unanswered(c)
  BY <1>1 DEF Unanswered
<1>4. /\ AnswersInv' /\ NumbersInv'
      /\ InOutbox(c)' /\ \A d : InOutbox(d) => InOutbox(d)'
      /\ answers'[c] = 1 /\ \A d \in Calls \ {c} : answers'[d] = answers[d]
  BY <1>1, <1>2, AnswerFacts DEF CallsInv
<1>5. \A d \in deferred' : d \in deferred /\ d.by # c /\ d.by \in Calls
  <2> SUFFICES ASSUME NEW d \in deferred, d # a
               PROVE  d.by # c /\ d.by \in Calls
    BY <1>2
  <2>1. d \in Answer /\ d.id = d.by[2]
    BY DEF CallsInv, DeferredInv, BridgeTypeOK
  <2>2. d.by = c => d.id = a.id /\ d.by = a.by
    BY <1>1, <2>1
  <2>3. d.id = a.id /\ d.by = a.by => d = a
    BY <1>1, <2>1 DEF Answer
  <2> QED
    BY <2>1, <2>2, <2>3 DEF Answer
<1> HIDE DEF c
<1>6. \A d \in Calls : /\ Made(d)' <=> Made(d)
                       /\ Unanswered(d) => Unanswered(d)'
                       /\ OnStack(d)' <=> OnStack(d)
                       /\ InInbox(d)' <=> InInbox(d)
  BY <1>2, <1>3, <1>4 DEF Made, Unanswered, OnStack, InInbox
<1>7. \A d \in Calls : Found(d) => Found(d)'
  <2>1. \A d \in Calls : Deferred(d) => Deferred(d)' \/ d = c
    BY <1>2 DEF Deferred, c
  <2> QED
    BY <1>2, <1>4, <2>1 DEF Found, Waiting
<1>8. InboxInv'
  BY <1>2, <1>6 DEF CallsInv, InboxInv, BridgeTypeOK
<1>9. StackInv'
  BY <1>2, <1>6 DEF CallsInv, StackInv, Owes
<1>10. DeferredInv'
  BY <1>4, <1>5, <1>6 DEF CallsInv, DeferredInv
<1>11. LossInv'
  BY <1>2, <1>6, <1>7 DEF CallsInv, LossInv
<1> QED
  BY <1>4, <1>8, <1>9, <1>10, <1>11 DEF CallsInv

-----------------------------------------------------------------------------
(* The theorems.                                                           *)

LEMMA CallsInit == Init => CallsInv
<1> SUFFICES ASSUME Init PROVE CallsInv
  OBVIOUS
<1>1. /\ Len(inbox) = 0 /\ Len(stack) = 0 /\ Len(outbox) = 0
      /\ deferred = {} /\ cb = {} /\ hasPendingCallback = FALSE
  BY DEF Init
<1>2. \A c \in Calls : answers[c] = 0 /\ settledBy[c] = <<>> /\ <<>> \notin Calls
  BY DEF Init, Calls
<1>3. InboxInv /\ StackInv /\ DeferredInv
  BY <1>1 DEF InboxInv, StackInv, DeferredInv
<1>4. AnswersInv /\ NumbersInv
  BY <1>1, <1>2 DEF AnswersInv, NumbersInv
<1>5. LossInv
  BY <1>1 DEF LossInv, Found, Waiting
<1> QED
  BY <1>3, <1>4, <1>5 DEF CallsInv

LEMMA BridgeInvariant == Spec => [](BridgeTypeOK /\ CallsInv)
<1>1. Init => BridgeTypeOK /\ CallsInv
  BY TypeInit, CallsInit
<1>2. BridgeTypeOK /\ CallsInv /\ [Next]_vars => (BridgeTypeOK /\ CallsInv)'
  BY TypeStep, DialogStep, EvalStep, CallStep, PageStep, RefuseStep, DispatchStep,
     DeferStep, ReturnStep, FinishStep DEF Next
<1> QED
  BY <1>1, <1>2, PTL DEF Spec

\* FloatMenu.mm keeps its slots and queues in the states it is written for.
THEOREM BridgeTypeCorrect == Spec => []BridgeTypeOK
  BY BridgeInvariant, PTL

\* FloatMenu.mm:342-358: a method that took its call over is not also answered
\* by the return of its dispatch, however dispatches and run loops nest.
THEOREM CallsAreAnsweredOnce == Spec => []AnsweredOnce
<1>1. CallsInv => AnsweredOnce
  BY DEF CallsInv, AnswersInv, AnsweredOnce
<1> QED
  BY <1>1, BridgeInvariant, PTL

\* FloatMenu.mm:342-343: pendingCallId is one slot, but a method that reads it
\* finds the number of its own call.
THEOREM AnswersReachTheirCall == Spec => []AnswersDoNotCross
<1>1. CallsInv => AnswersDoNotCross
  <2> SUFFICES ASSUME CallsInv, NEW c \in Calls, NEW d \in Calls,
                      settledBy[c] = d, d[1] = c[1]
               PROVE  d = c
    BY DEF AnswersDoNotCross
  <2>1. d[2] = c[2]
    BY DEF CallsInv, NumbersInv
  <2> QED
    BY <2>1, CallFacts
<1> QED
  BY <1>1, BridgeInvariant, PTL

\* FloatMenu.mm:352: a promise is lost only if a dispatch nested in its own
\* took its call over and left hasPendingCallback set.
THEOREM OnlyShadowedCallsAreLost == Spec => []LostOnlyIfShadowed
<1>1. BridgeTypeOK /\ CallsInv => LostOnlyIfShadowed
  <2> SUFFICES ASSUME BridgeTypeOK, CallsInv, NEW c \in Calls, Lost(c)
               PROVE  c \in shadowed
    BY DEF LostOnlyIfShadowed
  <2>1. Waiting(c) /\ ~OnStack(c) /\ ~Deferred(c) /\ ~InOutbox(c)
    BY DEF Lost, OnStack, Deferred, InOutbox, BridgeTypeOK
  <2>2. ~InInbox(c)
    BY DEF Lost, InInbox, Range, BridgeTypeOK
  <2> QED
    BY <2>1, <2>2 DEF CallsInv, LossInv, Found
<1> QED
  BY <1>1, BridgeInvariant, PTL
=============================================================================
