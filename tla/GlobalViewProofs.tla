-------------------------- MODULE GlobalViewProofs --------------------------
(***************************************************************************)
(* Proofs about GlobalView: SpringBoard never shows the halves of two      *)
(* images, and the first application to connect after a reset finds        *)
(* nothing of the one before.  Neither is inductive: the first depends on  *)
(* who may use the slot in each of its states, the second on what a reset  *)
(* leaves until somebody connects.                                         *)
(***************************************************************************)
EXTENDS GlobalView, TLAPS

\* Launches and connections are counted.
CountInv ==
  /\ connects <= launches
  /\ app = "start" => connects < launches

\* The slot is its writer's while "Writing", its reader's while "Ready", and
\* what is ready is whole.
SlotInv ==
  /\ Connected => connects # 0
  /\ app \in Publishing => slot.state = "Writing"
  /\ app = "copy2" => slot.payload[1] = image
  /\ app = "ready" \/ slot.state = "Ready" => slot.payload[1] = slot.payload[2]
  /\ host \in {"take1", "take2", "free"} => slot.state = "Ready"
  /\ host = "take2" => icon[1] = slot.payload[1]
  /\ host # "take2" => icon[1] = icon[2]

\* Until somebody connects the structures are as the reset has left them.
ResetInv ==
  /\ Connected => data["enable"]
  /\ connects = 0 =>
       /\ ~data["customButtonAction"] /\ ~data["appLoaded"]
       /\ host # "resetImage" => slot.state # "Writing"
  /\ Connected /\ connects = 1 =>
       /\ data["customButtonAction"] => asked
       /\ data["appLoaded"] => handled
       /\ slot.state = "Writing" /\ host # "resetImage" => app \in Publishing

GVInv == GVTypeOK /\ CountInv /\ (~raced => SlotInv /\ ResetInv)

-----------------------------------------------------------------------------
(* Types and counts.                                                       *)

LEMMA Halves ==
  ASSUME NEW S, NEW p \in S \X S, NEW x \in S
  PROVE  /\ [p EXCEPT ![1] = x] \in S \X S
         /\ [p EXCEPT ![1] = x][1] = x /\ [p EXCEPT ![1] = x][2] = p[2]
         /\ [p EXCEPT ![2] = x] \in S \X S
         /\ [p EXCEPT ![2] = x][2] = x /\ [p EXCEPT ![2] = x][1] = p[1]
         /\ p[1] \in S /\ p[2] \in S
  OBVIOUS

LEMMA PutFacts ==
  ASSUME GVTypeOK, NEW f \in Fields, NEW b \in BOOLEAN, Put(f, b)
  PROVE  data'[f] = b /\ \A g \in Fields \ {f} : data'[g] = data[g]
  BY DEF GVTypeOK, Put

\* Whoever fails to connect leaves everything as it is.
LEMMA ConnectFacts ==
  ASSUME GVTypeOK, Connect
  PROVE  /\ app = "start" /\ slot' = slot /\ launches' = launches /\ raced' = raced
         /\ handled' = handled /\ asked' = asked /\ hostVars' = hostVars
         /\ \/ app' = "alone" /\ data' = data /\ connects' = connects
            \/ /\ app' \in {"claim", "idle"}
               /\ connects' = connects + 1 /\ connects' # 0 /\ (connects' = 1 => connects = 0)
               /\ data'["enable"] /\ \A f \in Fields \ {"enable"} : data'[f] = data[f]
<1>1. connects \in Nat
  BY LaunchesAreCounted DEF GVTypeOK
<1>2. CASE App("start", "alone") /\ UNCHANGED <<data, connects, image>>
  BY <1>2 DEF Connect, App
<1>3. CASE Put("enable", TRUE) /\ connects' = connects + 1 /\ app' \in {"claim", "idle"}
  <2>1. data'["enable"] /\ \A f \in Fields \ {"enable"} : data'[f] = data[f]
    BY <1>3, PutFacts DEF Fields
  <2>2. connects' # 0 /\ (connects' = 1 => connects = 0)
    BY <1>1, <1>3
  <2> QED
    BY <1>3, <2>1, <2>2 DEF Connect, App
<1> QED
  BY <1>2, <1>3 DEF Connect, App

LEMMA CountStep ==
  ASSUME GVTypeOK, CountInv, [Next]_vars
  PROVE  /\ CountInv'
         /\ launches' \in 0..MaxLaunches /\ connects' \in 0..MaxLaunches
<1>1. CASE Launch
  BY <1>1, LaunchesAreCounted DEF Launch, GVTypeOK, CountInv, App, appVars, hostVars
<1>2. CASE Exit
  BY <1>2, LaunchesAreCounted DEF Exit, GVTypeOK, CountInv, App, appVars, hostVars
<1>3. CASE ImageLoaded
  BY <1>3, LaunchesAreCounted DEF ImageLoaded, GVTypeOK, CountInv, App, appVars, hostVars
<1>4. CASE TickBegins
  BY <1>4, LaunchesAreCounted DEF TickBegins, WindowOrNone, GVTypeOK, CountInv, App, appVars, hostVars
<1>5. CASE SetButtonAction
  BY <1>5, LaunchesAreCounted DEF SetButtonAction, GVTypeOK, CountInv, App, appVars, hostVars
<1>6. CASE SetWindowVisible
  BY <1>6, LaunchesAreCounted DEF SetWindowVisible, GVTypeOK, CountInv, App, appVars, hostVars
<1>7. CASE Connect
  BY <1>7, ConnectFacts, LaunchesAreCounted DEF GVTypeOK, CountInv
<1>8. CASE Claim
  BY <1>8, LaunchesAreCounted DEF Claim, GVTypeOK, CountInv, App, appVars, hostVars
<1>9. CASE Fill
  BY <1>9, LaunchesAreCounted DEF Fill, GVTypeOK, CountInv, App, appVars, hostVars
<1>10. CASE TickClick
  BY <1>10, LaunchesAreCounted DEF TickClick, GVTypeOK, CountInv, App, appVars, hostVars
<1>11. CASE TickWindow
  BY <1>11, LaunchesAreCounted DEF TickWindow, WindowOrNone, GVTypeOK, CountInv, App, appVars, hostVars
<1>12. CASE TickLoaded
  BY <1>12, LaunchesAreCounted DEF TickLoaded, GVTypeOK, CountInv, App, appVars, hostVars
<1>13. CASE SetWindowVisibleState
  BY <1>13, LaunchesAreCounted DEF SetWindowVisibleState, GVTypeOK, CountInv, App, appVars, hostVars
<1>14. CASE ButtonTapped
  BY <1>14, LaunchesAreCounted DEF ButtonTapped, GVTypeOK, CountInv, App, appVars, hostVars
<1>15. CASE FrontAppChanges
  BY <1>15, LaunchesAreCounted DEF FrontAppChanges, GVTypeOK, CountInv, App, appVars, hostVars
<1>16. CASE HostBegins
  BY <1>16, LaunchesAreCounted DEF HostBegins, GVTypeOK, CountInv, App, appVars, hostVars
<1>17. CASE HostBeginsTaking
  BY <1>17, LaunchesAreCounted DEF HostBeginsTaking, GVTypeOK, CountInv, App, appVars, hostVars
<1>18. CASE HostChecks
  BY <1>18, LaunchesAreCounted DEF HostChecks, GVTypeOK, CountInv, App, appVars, hostVars
<1>19. CASE HostResets
  BY <1>19, LaunchesAreCounted DEF HostResets, GVTypeOK, CountInv, App, appVars, hostVars
<1>20. CASE HostShowsView
  BY <1>20, LaunchesAreCounted DEF HostShowsView, GVTypeOK, CountInv, App, appVars, hostVars
<1>21. CASE HostTakes
  BY <1>21, LaunchesAreCounted DEF HostTakes, GVTypeOK, CountInv, App, appVars, hostVars
<1>22. CASE HostFrees
  BY <1>22, LaunchesAreCounted DEF HostFrees, GVTypeOK, CountInv, App, appVars, hostVars
<1>24. CASE EvalReturns
  BY <1>24, LaunchesAreCounted DEF EvalReturns, WindowOrNone, GVTypeOK, CountInv, App, appVars, hostVars
<1>23. CASE UNCHANGED vars
  BY <1>23 DEF vars, appVars, GVTypeOK, CountInv
<1> QED
  BY <1>1, <1>2, <1>3, <1>4, <1>5, <1>6, <1>7, <1>8, <1>9, <1>10, <1>11, <1>12, <1>13, <1>14, <1>15, <1>16, <1>17, <1>18, <1>19, <1>20, <1>21, <1>22, <1>23, <1>24 DEF Next, AppProceeds, HostProceeds

LEMMA DataTypeStep ==
  ASSUME GVTypeOK, CountInv, [Next]_vars
  PROVE  data' \in [Fields -> BOOLEAN]
<1>1. CASE Launch
  BY <1>1 DEF Launch, GVTypeOK, sharedVars, Put, GVDataDefault, Fields, App, Host
<1>2. CASE Exit
  BY <1>2 DEF Exit, GVTypeOK, sharedVars, Put, GVDataDefault, Fields, App, Host
<1>3. CASE ImageLoaded
  BY <1>3 DEF ImageLoaded, GVTypeOK, sharedVars, Put, GVDataDefault, Fields, App, Host
<1>4. CASE TickBegins
  BY <1>4 DEF TickBegins, WindowOrNone, GVTypeOK, sharedVars, Put, GVDataDefault, Fields, App, Host
<1>5. CASE SetButtonAction
  BY <1>5 DEF SetButtonAction, GVTypeOK, sharedVars, Put, GVDataDefault, Fields, App, Host
<1>6. CASE SetWindowVisible
  BY <1>6 DEF SetWindowVisible, GVTypeOK, sharedVars, Put, GVDataDefault, Fields, App, Host
<1>7. CASE Connect
  BY <1>7 DEF Connect, GVTypeOK, sharedVars, Put, GVDataDefault, Fields, App, Host
<1>8. CASE Claim
  BY <1>8 DEF Claim, GVTypeOK, sharedVars, Put, GVDataDefault, Fields, App, Host
<1>9. CASE Fill
  BY <1>9 DEF Fill, GVTypeOK, sharedVars, Put, GVDataDefault, Fields, App, Host
<1>10. CASE TickClick
  BY <1>10 DEF TickClick, GVTypeOK, sharedVars, Put, GVDataDefault, Fields, App, Host
<1>11. CASE TickWindow
  BY <1>11 DEF TickWindow, WindowOrNone, GVTypeOK, sharedVars, Put, GVDataDefault, Fields, App, Host
<1>12. CASE TickLoaded
  BY <1>12 DEF TickLoaded, GVTypeOK, sharedVars, Put, GVDataDefault, Fields, App, Host
<1>13. CASE SetWindowVisibleState
  BY <1>13 DEF SetWindowVisibleState, GVTypeOK, sharedVars, Put, GVDataDefault, Fields, App, Host
<1>14. CASE ButtonTapped
  BY <1>14 DEF ButtonTapped, GVTypeOK, sharedVars, Put, GVDataDefault, Fields, App, Host
<1>15. CASE FrontAppChanges
  BY <1>15 DEF FrontAppChanges, GVTypeOK, sharedVars, Put, GVDataDefault, Fields, App, Host
<1>16. CASE HostBegins
  BY <1>16 DEF HostBegins, GVTypeOK, sharedVars, Put, GVDataDefault, Fields, App, Host
<1>17. CASE HostBeginsTaking
  BY <1>17 DEF HostBeginsTaking, GVTypeOK, sharedVars, Put, GVDataDefault, Fields, App, Host
<1>18. CASE HostChecks
  BY <1>18 DEF HostChecks, GVTypeOK, sharedVars, Put, GVDataDefault, Fields, App, Host
<1>19. CASE HostResets
  BY <1>19 DEF HostResets, GVTypeOK, sharedVars, Put, GVDataDefault, Fields, App, Host
<1>20. CASE HostShowsView
  BY <1>20 DEF HostShowsView, GVTypeOK, sharedVars, Put, GVDataDefault, Fields, App, Host
<1>21. CASE HostTakes
  BY <1>21 DEF HostTakes, GVTypeOK, sharedVars, Put, GVDataDefault, Fields, App, Host
<1>22. CASE HostFrees
  BY <1>22 DEF HostFrees, GVTypeOK, sharedVars, Put, GVDataDefault, Fields, App, Host
<1>24. CASE EvalReturns
  BY <1>24 DEF EvalReturns, WindowOrNone, GVTypeOK, sharedVars, Put, GVDataDefault, Fields, App, Host
<1>23. CASE UNCHANGED vars
  BY <1>23 DEF vars, GVTypeOK, sharedVars, Put, GVDataDefault, Fields, App, Host
<1> QED
  BY <1>1, <1>2, <1>3, <1>4, <1>5, <1>6, <1>7, <1>8, <1>9, <1>10, <1>11, <1>12, <1>13, <1>14, <1>15, <1>16, <1>17, <1>18, <1>19, <1>20, <1>21, <1>22, <1>23, <1>24 DEF Next, AppProceeds, HostProceeds

LEMMA PlaceTypeStep ==
  ASSUME GVTypeOK, CountInv, [Next]_vars
  PROVE  /\ app' \in {"down", "start", "alone", "idle", "claim", "clear", "act", "window",
                   "windowless", "upright", "turned", "show", "hide"} \union Publishing
         /\ host' \in {"idle", "check", "reset", "resetImage", "visible", "visibleDone",
                    "take1", "take2", "free"}
         /\ view' \in {"none", "detached", "attached"}
         /\ image' \in Images \union {Blank}
<1>1. CASE Launch
  BY <1>1 DEF Launch, GVTypeOK, appVars, hostVars, App, Host, Publishing, ToggleGlobalView
<1>2. CASE Exit
  BY <1>2 DEF Exit, GVTypeOK, appVars, hostVars, App, Host, Publishing, ToggleGlobalView
<1>3. CASE ImageLoaded
  BY <1>3 DEF ImageLoaded, GVTypeOK, appVars, hostVars, App, Host, Publishing, ToggleGlobalView
<1>4. CASE TickBegins
  BY <1>4 DEF TickBegins, WindowOrNone, GVTypeOK, appVars, hostVars, App, Host, Publishing, ToggleGlobalView
<1>5. CASE SetButtonAction
  BY <1>5 DEF SetButtonAction, GVTypeOK, appVars, hostVars, App, Host, Publishing, ToggleGlobalView
<1>6. CASE SetWindowVisible
  BY <1>6 DEF SetWindowVisible, GVTypeOK, appVars, hostVars, App, Host, Publishing, ToggleGlobalView
<1>7. CASE Connect
  BY <1>7 DEF Connect, GVTypeOK, appVars, hostVars, App, Host, Publishing, ToggleGlobalView
<1>8. CASE Claim
  BY <1>8 DEF Claim, GVTypeOK, appVars, hostVars, App, Host, Publishing, ToggleGlobalView
<1>9. CASE Fill
  BY <1>9 DEF Fill, GVTypeOK, appVars, hostVars, App, Host, Publishing, ToggleGlobalView
<1>10. CASE TickClick
  BY <1>10 DEF TickClick, GVTypeOK, appVars, hostVars, App, Host, Publishing, ToggleGlobalView
<1>11. CASE TickWindow
  BY <1>11 DEF TickWindow, WindowOrNone, GVTypeOK, appVars, hostVars, App, Host, Publishing, ToggleGlobalView
<1>12. CASE TickLoaded
  BY <1>12 DEF TickLoaded, GVTypeOK, appVars, hostVars, App, Host, Publishing, ToggleGlobalView
<1>13. CASE SetWindowVisibleState
  BY <1>13 DEF SetWindowVisibleState, GVTypeOK, appVars, hostVars, App, Host, Publishing, ToggleGlobalView
<1>14. CASE ButtonTapped
  BY <1>14 DEF ButtonTapped, GVTypeOK, appVars, hostVars, App, Host, Publishing, ToggleGlobalView
<1>15. CASE FrontAppChanges
  BY <1>15 DEF FrontAppChanges, GVTypeOK, appVars, hostVars, App, Host, Publishing, ToggleGlobalView
<1>16. CASE HostBegins
  BY <1>16 DEF HostBegins, GVTypeOK, appVars, hostVars, App, Host, Publishing, ToggleGlobalView
<1>17. CASE HostBeginsTaking
  BY <1>17 DEF HostBeginsTaking, GVTypeOK, appVars, hostVars, App, Host, Publishing, ToggleGlobalView
<1>18. CASE HostChecks
  BY <1>18 DEF HostChecks, GVTypeOK, appVars, hostVars, App, Host, Publishing, ToggleGlobalView
<1>19. CASE HostResets
  BY <1>19 DEF HostResets, GVTypeOK, appVars, hostVars, App, Host, Publishing, ToggleGlobalView
<1>20. CASE HostShowsView
  BY <1>20 DEF HostShowsView, GVTypeOK, appVars, hostVars, App, Host, Publishing, ToggleGlobalView
<1>21. CASE HostTakes
  BY <1>21 DEF HostTakes, GVTypeOK, appVars, hostVars, App, Host, Publishing, ToggleGlobalView
<1>22. CASE HostFrees
  BY <1>22 DEF HostFrees, GVTypeOK, appVars, hostVars, App, Host, Publishing, ToggleGlobalView
<1>24. CASE EvalReturns
  BY <1>24 DEF EvalReturns, WindowOrNone, GVTypeOK, appVars, hostVars, App, Host, Publishing, ToggleGlobalView
<1>23. CASE UNCHANGED vars
  BY <1>23 DEF vars, GVTypeOK, appVars, hostVars, App, Host, Publishing, ToggleGlobalView
<1> QED
  BY <1>1, <1>2, <1>3, <1>4, <1>5, <1>6, <1>7, <1>8, <1>9, <1>10, <1>11, <1>12, <1>13, <1>14, <1>15, <1>16, <1>17, <1>18, <1>19, <1>20, <1>21, <1>22, <1>23, <1>24 DEF Next, AppProceeds, HostProceeds

LEMMA FlagTypeStep ==
  ASSUME GVTypeOK, CountInv, [Next]_vars
  PROVE  {handled', hidden', asked', calling', unhandled', raced'} \subseteq BOOLEAN
<1>1. CASE Launch
  BY <1>1 DEF Launch, GVTypeOK, appVars, hostVars, Connected, ToggleGlobalView, Fields, App, Host
<1>2. CASE Exit
  BY <1>2 DEF Exit, GVTypeOK, appVars, hostVars, Connected, ToggleGlobalView, Fields, App, Host
<1>3. CASE ImageLoaded
  BY <1>3 DEF ImageLoaded, GVTypeOK, appVars, hostVars, Connected, ToggleGlobalView, Fields, App, Host
<1>4. CASE TickBegins
  BY <1>4 DEF TickBegins, WindowOrNone, GVTypeOK, appVars, hostVars, Connected, ToggleGlobalView, Fields, App, Host
<1>5. CASE SetButtonAction
  BY <1>5 DEF SetButtonAction, GVTypeOK, appVars, hostVars, Connected, ToggleGlobalView, Fields, App, Host
<1>6. CASE SetWindowVisible
  BY <1>6 DEF SetWindowVisible, GVTypeOK, appVars, hostVars, Connected, ToggleGlobalView, Fields, App, Host
<1>7. CASE Connect
  BY <1>7 DEF Connect, GVTypeOK, appVars, hostVars, Connected, ToggleGlobalView, Fields, App, Host
<1>8. CASE Claim
  BY <1>8 DEF Claim, GVTypeOK, appVars, hostVars, Connected, ToggleGlobalView, Fields, App, Host
<1>9. CASE Fill
  BY <1>9 DEF Fill, GVTypeOK, appVars, hostVars, Connected, ToggleGlobalView, Fields, App, Host
<1>10. CASE TickClick
  BY <1>10 DEF TickClick, GVTypeOK, appVars, hostVars, Connected, ToggleGlobalView, Fields, App, Host
<1>11. CASE TickWindow
  BY <1>11 DEF TickWindow, WindowOrNone, GVTypeOK, appVars, hostVars, Connected, ToggleGlobalView, Fields, App, Host
<1>12. CASE TickLoaded
  BY <1>12 DEF TickLoaded, GVTypeOK, appVars, hostVars, Connected, ToggleGlobalView, Fields, App, Host
<1>13. CASE SetWindowVisibleState
  BY <1>13 DEF SetWindowVisibleState, GVTypeOK, appVars, hostVars, Connected, ToggleGlobalView, Fields, App, Host
<1>14. CASE ButtonTapped
  BY <1>14 DEF ButtonTapped, GVTypeOK, appVars, hostVars, Connected, ToggleGlobalView, Fields, App, Host
<1>15. CASE FrontAppChanges
  BY <1>15 DEF FrontAppChanges, GVTypeOK, appVars, hostVars, Connected, ToggleGlobalView, Fields, App, Host
<1>16. CASE HostBegins
  BY <1>16 DEF HostBegins, GVTypeOK, appVars, hostVars, Connected, ToggleGlobalView, Fields, App, Host
<1>17. CASE HostBeginsTaking
  BY <1>17 DEF HostBeginsTaking, GVTypeOK, appVars, hostVars, Connected, ToggleGlobalView, Fields, App, Host
<1>18. CASE HostChecks
  BY <1>18 DEF HostChecks, GVTypeOK, appVars, hostVars, Connected, ToggleGlobalView, Fields, App, Host
<1>19. CASE HostResets
  BY <1>19 DEF HostResets, GVTypeOK, appVars, hostVars, Connected, ToggleGlobalView, Fields, App, Host
<1>20. CASE HostShowsView
  BY <1>20 DEF HostShowsView, GVTypeOK, appVars, hostVars, Connected, ToggleGlobalView, Fields, App, Host
<1>21. CASE HostTakes
  BY <1>21 DEF HostTakes, GVTypeOK, appVars, hostVars, Connected, ToggleGlobalView, Fields, App, Host
<1>22. CASE HostFrees
  BY <1>22 DEF HostFrees, GVTypeOK, appVars, hostVars, Connected, ToggleGlobalView, Fields, App, Host
<1>24. CASE EvalReturns
  BY <1>24 DEF EvalReturns, WindowOrNone, GVTypeOK, appVars, hostVars, Connected, ToggleGlobalView, Fields, App, Host
<1>23. CASE UNCHANGED vars
  BY <1>23 DEF vars, GVTypeOK, appVars, hostVars, Connected, ToggleGlobalView, Fields, App, Host
<1> QED
  BY <1>1, <1>2, <1>3, <1>4, <1>5, <1>6, <1>7, <1>8, <1>9, <1>10, <1>11, <1>12, <1>13, <1>14, <1>15, <1>16, <1>17, <1>18, <1>19, <1>20, <1>21, <1>22, <1>23, <1>24 DEF Next, AppProceeds, HostProceeds

\* An image is put into the slot, or taken out of it, half by half.
LEMMA SlotTypes ==
  ASSUME GVTypeOK
  PROVE  /\ slot.state \in {"Idle", "Writing", "Ready"} /\ slot.sized \in BOOLEAN
         /\ slot.payload \in (Images \union {Blank}) \X (Images \union {Blank})
         /\ image \in Images \union {Blank}
  BY DEF GVTypeOK

LEMMA FillFacts ==
  ASSUME GVTypeOK, Fill
  PROVE  /\ slot' \in [state : {"Idle", "Writing", "Ready"}, sized : BOOLEAN,
                       payload : (Images \union {Blank}) \X (Images \union {Blank})]
         /\ app = "copy1" =>
              /\ app' = "copy2" /\ slot'.state = slot.state
              /\ slot'.payload[1] = image /\ image' = image
         /\ app = "copy2" =>
              /\ app' = "ready" /\ slot'.state = slot.state
              /\ slot'.payload[1] = slot.payload[1] /\ slot'.payload[2] = image
         /\ app = "ready" =>
              /\ app' = "idle" /\ slot'.state = "Ready" /\ slot'.payload = slot.payload
         /\ app \in {"copy1", "copy2", "ready"}
<1> DEFINE Payloads == (Images \union {Blank}) \X (Images \union {Blank})
           Slots == [state : {"Idle", "Writing", "Ready"}, sized : BOOLEAN, payload : Payloads]
           p == slot.payload
<1>1. slot \in Slots /\ p \in Payloads /\ image \in Images \union {Blank}
  BY DEF GVTypeOK
<1>2. /\ [p EXCEPT ![1] = image] \in Payloads /\ [p EXCEPT ![1] = image][1] = image
      /\ [p EXCEPT ![2] = image] \in Payloads /\ [p EXCEPT ![2] = image][2] = image
      /\ [p EXCEPT ![2] = image][1] = p[1]
  BY <1>1, Halves
<1>3. CASE App("copy1", "copy2") /\ slot' = [slot EXCEPT !.payload[1] = image] /\ image' = image
  <2>1. slot' = [slot EXCEPT !.payload = [p EXCEPT ![1] = image]]
    BY <1>3
  <2> HIDE DEF p
  <2> QED
    BY <1>1, <1>2, <1>3, <2>1 DEF App
<1>4. CASE App("copy2", "ready") /\ slot' = [slot EXCEPT !.payload[2] = image, !.sized = TRUE]
  <2>1. slot' = [slot EXCEPT !.payload = [p EXCEPT ![2] = image], !.sized = TRUE]
    BY <1>4
  <2> QED
    BY <1>1, <1>2, <1>4, <2>1 DEF App
<1>5. CASE App("ready", "idle") /\ slot' = [slot EXCEPT !.state = "Ready"]
  BY <1>1, <1>5 DEF App
<1> QED
  BY <1>3, <1>4, <1>5 DEF Fill

LEMMA TakeFacts ==
  ASSUME GVTypeOK, HostTakes
  PROVE  /\ icon' \in (Images \union {Blank}) \X (Images \union {Blank})
         /\ host = "take1" => host' = "take2" /\ icon'[1] = slot.payload[1]
         /\ host = "take2" =>
              host' = "free" /\ icon'[1] = icon[1] /\ icon'[2] = slot.payload[2]
         /\ host \in {"take1", "take2"}
  BY SlotTypes DEF HostTakes, GVTypeOK, Host

LEMMA SlotTypeStep ==
  ASSUME GVTypeOK, [Next]_vars
  PROVE  slot' \in [state : {"Idle", "Writing", "Ready"}, sized : BOOLEAN,
                    payload : (Images \union {Blank}) \X (Images \union {Blank})]
<1>1. CASE Claim
  BY <1>1 DEF Claim, GVTypeOK
<1>2. CASE Fill
  BY <1>2, FillFacts
<1>3. CASE HostResets
  <2>1. CASE slot' = slot
    BY <2>1 DEF GVTypeOK
  <2>2. CASE slot' = GVImageTransferDefault
    BY <2>2 DEF GVImageTransferDefault
  <2> QED
    BY <1>3, <2>1, <2>2 DEF HostResets
<1>4. CASE HostFrees
  BY <1>4 DEF HostFrees, GVTypeOK
<1>5. slot' = slot \/ Claim \/ Fill \/ HostResets \/ HostFrees
  BY DEF Next, AppProceeds, HostProceeds, vars, sharedVars, Launch, Exit, ImageLoaded,
         TickBegins, EvalReturns, SetButtonAction, SetWindowVisible, Connect, TickClick, TickWindow,
         TickLoaded, SetWindowVisibleState, ButtonTapped, FrontAppChanges, HostBegins,
         HostBeginsTaking, HostChecks, HostShowsView, HostTakes
<1> QED
  BY <1>1, <1>2, <1>3, <1>4, <1>5 DEF GVTypeOK

LEMMA IconTypeStep ==
  ASSUME GVTypeOK, [Next]_vars
  PROVE  icon' \in (Images \union {Blank}) \X (Images \union {Blank})
<1>1. CASE HostTakes
  BY <1>1, TakeFacts
<1>2. CASE HostFrees
  BY <1>2 DEF HostFrees
<1>3. icon' = icon \/ HostTakes \/ HostFrees
  BY DEF Next, AppProceeds, HostProceeds, vars, hostVars, Launch, Exit, ImageLoaded,
         TickBegins, EvalReturns, SetButtonAction, SetWindowVisible, Connect, Claim, Fill, TickClick,
         TickWindow, TickLoaded, SetWindowVisibleState, ButtonTapped, FrontAppChanges,
         HostBegins, HostBeginsTaking, HostChecks, HostResets, HostShowsView
<1> QED
  BY <1>1, <1>2, <1>3 DEF GVTypeOK

LEMMA GVTypeStep ==
  ASSUME GVTypeOK, CountInv, [Next]_vars
  PROVE  GVTypeOK' /\ CountInv'
  BY CountStep, DataTypeStep, PlaceTypeStep, FlagTypeStep, SlotTypeStep, IconTypeStep
     DEF GVTypeOK

-----------------------------------------------------------------------------
(* The invariant.                                                          *)

LEMMA RacedStays ==
  ASSUME [Next]_vars, raced
  PROVE  raced'
<1>1. CASE Launch
  BY <1>1 DEF Launch, App, Host
<1>2. CASE Exit
  BY <1>2 DEF Exit, App, Host
<1>3. CASE ImageLoaded
  BY <1>3 DEF ImageLoaded, App, Host
<1>4. CASE TickBegins
  BY <1>4 DEF TickBegins, WindowOrNone, App, Host
<1>5. CASE SetButtonAction
  BY <1>5 DEF SetButtonAction, App, Host
<1>6. CASE SetWindowVisible
  BY <1>6 DEF SetWindowVisible, App, Host
<1>7. CASE Connect
  BY <1>7 DEF Connect, App, Host
<1>8. CASE Claim
  BY <1>8 DEF Claim, App, Host
<1>9. CASE Fill
  BY <1>9 DEF Fill, App, Host
<1>10. CASE TickClick
  BY <1>10 DEF TickClick, App, Host
<1>11. CASE TickWindow
  BY <1>11 DEF TickWindow, WindowOrNone, App, Host
<1>12. CASE TickLoaded
  BY <1>12 DEF TickLoaded, App, Host
<1>13. CASE SetWindowVisibleState
  BY <1>13 DEF SetWindowVisibleState, App, Host
<1>14. CASE ButtonTapped
  BY <1>14 DEF ButtonTapped, App, Host
<1>15. CASE FrontAppChanges
  BY <1>15 DEF FrontAppChanges, App, Host
<1>16. CASE HostBegins
  BY <1>16 DEF HostBegins, App, Host
<1>17. CASE HostBeginsTaking
  BY <1>17 DEF HostBeginsTaking, App, Host
<1>18. CASE HostChecks
  BY <1>18 DEF HostChecks, App, Host
<1>19. CASE HostResets
  BY <1>19 DEF HostResets, App, Host
<1>20. CASE HostShowsView
  BY <1>20 DEF HostShowsView, App, Host
<1>21. CASE HostTakes
  BY <1>21 DEF HostTakes, App, Host
<1>22. CASE HostFrees
  BY <1>22 DEF HostFrees, App, Host
<1>24. CASE EvalReturns
  BY <1>24 DEF EvalReturns, WindowOrNone, App, Host
<1>23. CASE UNCHANGED vars
  BY <1>23 DEF vars, App, Host
<1> QED
  BY <1>1, <1>2, <1>3, <1>4, <1>5, <1>6, <1>7, <1>8, <1>9, <1>10, <1>11, <1>12, <1>13, <1>14, <1>15, <1>16, <1>17, <1>18, <1>19, <1>20, <1>21, <1>22, <1>23, <1>24 DEF Next, AppProceeds, HostProceeds

LEMMA SlotStep ==
  ASSUME GVTypeOK, CountInv, SlotInv, [Next]_vars, ~raced'
  PROVE  SlotInv'
<1>1. CASE Launch
  BY <1>1 DEF Launch, SlotInv, Publishing, Connected, App, Host, appVars, hostVars, sharedVars
<1>2. CASE Exit
  BY <1>2 DEF Exit, SlotInv, Publishing, Connected, App, Host, appVars, hostVars, sharedVars
<1>3. CASE ImageLoaded
  BY <1>3 DEF ImageLoaded, SlotInv, Publishing, Connected, App, Host, appVars, hostVars, sharedVars
<1>4. CASE TickBegins
  BY <1>4 DEF TickBegins, WindowOrNone, SlotInv, Publishing, Connected, App, Host, appVars, hostVars, sharedVars
<1>5. CASE SetButtonAction
  BY <1>5 DEF SetButtonAction, SlotInv, Publishing, Connected, App, Host, appVars, hostVars, sharedVars
<1>6. CASE SetWindowVisible
  BY <1>6 DEF SetWindowVisible, SlotInv, Publishing, Connected, App, Host, appVars, hostVars, sharedVars
<1>7. CASE Connect
  <2>1. image' \in Images \union {Blank} /\ slot' = slot /\ icon' = icon /\ host' = host
    BY <1>7, ConnectFacts, PlaceTypeStep DEF hostVars
  <2> QED
    BY <1>7, <2>1, ConnectFacts DEF SlotInv, Publishing, Connected
<1>8. CASE Claim
  BY <1>8, SlotTypes DEF Claim, GVTypeOK, SlotInv, Publishing, Connected, App, Host, appVars, hostVars, sharedVars
<1>9. CASE Fill
  BY <1>9, FillFacts DEF Fill, SlotInv, Publishing, Connected, App, Host, appVars, hostVars, sharedVars
<1>10. CASE TickClick
  BY <1>10 DEF TickClick, SlotInv, Publishing, Connected, App, Host, appVars, hostVars, sharedVars
<1>11. CASE TickWindow
  BY <1>11 DEF TickWindow, WindowOrNone, SlotInv, Publishing, Connected, App, Host, appVars, hostVars, sharedVars
<1>12. CASE TickLoaded
  BY <1>12 DEF TickLoaded, SlotInv, Publishing, Connected, App, Host, appVars, hostVars, sharedVars
<1>13. CASE SetWindowVisibleState
  BY <1>13 DEF SetWindowVisibleState, SlotInv, Publishing, Connected, App, Host, appVars, hostVars, sharedVars
<1>14. CASE ButtonTapped
  BY <1>14 DEF ButtonTapped, SlotInv, Publishing, Connected, App, Host, appVars, hostVars, sharedVars
<1>15. CASE FrontAppChanges
  BY <1>15 DEF FrontAppChanges, SlotInv, Publishing, Connected, App, Host, appVars, hostVars, sharedVars
<1>16. CASE HostBegins
  BY <1>16 DEF HostBegins, SlotInv, Publishing, Connected, App, Host, appVars, hostVars, sharedVars
<1>17. CASE HostBeginsTaking
  BY <1>17 DEF HostBeginsTaking, SlotInv, Publishing, Connected, App, Host, appVars, hostVars, sharedVars
<1>18. CASE HostChecks
  BY <1>18 DEF HostChecks, SlotInv, Publishing, Connected, App, Host, appVars, hostVars, sharedVars
<1>19. CASE HostResets
  <2>1. CASE host = "reset"
    <3>1. ~Connected /\ app' = app /\ slot' = slot /\ icon' = icon /\ host' = "resetImage"
          /\ image' = image
      BY <1>19, <2>1 DEF HostResets, Connected, Host, appVars
    <3> QED
      BY <2>1, <3>1 DEF SlotInv, Publishing, Connected
  <2>2. CASE host = "resetImage"
    <3>1. connects = 0 /\ connects' = connects /\ app' = app /\ icon' = icon /\ host' = "visible"
          /\ slot'.payload[1] = slot'.payload[2]
      <4>1. /\ host' = "visible" /\ slot' = GVImageTransferDefault /\ connects' = connects
            /\ data' = data /\ app' = app /\ icon' = icon
            /\ raced' = (raced \/ connects # 0)
        BY <1>19, <2>2 DEF HostResets, Host, appVars
      <4>2. connects = 0
        BY <4>1
      <4> QED
        BY <4>1, <4>2 DEF GVImageTransferDefault
    <3>2. ~Connected
      BY <3>1 DEF SlotInv
    <3> QED
      BY <2>2, <3>1, <3>2 DEF SlotInv, Publishing, Connected
  <2> QED
    BY <1>19, <2>1, <2>2 DEF HostResets, Host
<1>20. CASE HostShowsView
  BY <1>20 DEF HostShowsView, SlotInv, Publishing, Connected, App, Host, appVars, hostVars, sharedVars
<1>21. CASE HostTakes
  BY <1>21, TakeFacts DEF HostTakes, SlotInv, Publishing, Connected, App, Host, appVars, hostVars, sharedVars
<1>22. CASE HostFrees
  BY <1>22 DEF HostFrees, SlotInv, Publishing, Connected, App, Host, appVars, hostVars, sharedVars
<1>24. CASE EvalReturns
  BY <1>24 DEF EvalReturns, WindowOrNone, SlotInv, Publishing, Connected, App, Host, appVars, hostVars, sharedVars
<1>23. CASE UNCHANGED vars
  BY <1>23 DEF vars, SlotInv, Publishing, Connected, App, Host, appVars, hostVars, sharedVars
<1> QED
  BY <1>1, <1>2, <1>3, <1>4, <1>5, <1>6, <1>7, <1>8, <1>9, <1>10, <1>11, <1>12, <1>13, <1>14, <1>15, <1>16, <1>17, <1>18, <1>19, <1>20, <1>21, <1>22, <1>23, <1>24 DEF Next, AppProceeds, HostProceeds

LEMMA ResetStep ==
  ASSUME GVTypeOK, SlotInv, ResetInv, [Next]_vars, ~raced'
  PROVE  ResetInv'
<1>1. CASE Launch
  BY <1>1 DEF Launch, SlotInv, Publishing, Connected, App, Host, appVars, hostVars, sharedVars, ResetInv, Put
<1>2. CASE Exit
  BY <1>2 DEF Exit, SlotInv, Publishing, Connected, App, Host, appVars, hostVars, sharedVars, ResetInv, Put
<1>3. CASE ImageLoaded
  BY <1>3 DEF ImageLoaded, SlotInv, Publishing, Connected, App, Host, appVars, hostVars, sharedVars, ResetInv, Put
<1>4. CASE TickBegins
  BY <1>4 DEF TickBegins, WindowOrNone, SlotInv, Publishing, Connected, App, Host, appVars, hostVars, sharedVars, ResetInv, Put
<1>5. CASE SetButtonAction
  BY <1>5 DEF SetButtonAction, SlotInv, Publishing, Connected, App, Host, appVars, hostVars, sharedVars, ResetInv, Put
<1>6. CASE SetWindowVisible
  BY <1>6 DEF SetWindowVisible, SlotInv, Publishing, Connected, App, Host, appVars, hostVars, sharedVars, ResetInv, Put
<1>7. CASE Connect
  <2>1. host' = host
    BY <1>7, ConnectFacts DEF hostVars
  <2> QED
    BY <1>7, <2>1, ConnectFacts DEF SlotInv, ResetInv, Publishing, Connected, Fields
<1>8. CASE Claim
  BY <1>8 DEF Claim, SlotInv, Publishing, Connected, App, Host, appVars, hostVars, sharedVars, ResetInv, Put
<1>9. CASE Fill
  BY <1>9, FillFacts DEF Fill, SlotInv, Publishing, Connected, App, Host, appVars, hostVars, sharedVars, ResetInv, Put
<1>10. CASE TickClick
  <2>1. data' = data \/ \A f \in Fields \ {"floatBtnClick"} : data'[f] = data[f]
    BY <1>10, PutFacts DEF TickClick, Fields
  <2> QED
    BY <1>10, <2>1 DEF TickClick, Fields, SlotInv, Publishing, Connected, App, Host, appVars, hostVars, sharedVars, ResetInv
<1>11. CASE TickWindow
  BY <1>11 DEF TickWindow, WindowOrNone, SlotInv, Publishing, Connected, App, Host, appVars, hostVars, sharedVars, ResetInv, Put
<1>12. CASE TickLoaded
  <2>1. \A f \in Fields \ {"appLoaded"} : data'[f] = data[f]
    BY <1>12, PutFacts DEF TickLoaded, Fields
  <2>2. handled \/ data' = data
    BY <1>12 DEF TickLoaded
  <2> QED
    BY <1>12, <2>1, <2>2 DEF TickLoaded, Fields, SlotInv, Publishing, Connected, App, Host, appVars, hostVars, sharedVars, ResetInv
<1>13. CASE SetWindowVisibleState
  BY <1>13 DEF SetWindowVisibleState, SlotInv, Publishing, Connected, App, Host, appVars, hostVars, sharedVars, ResetInv, Put
<1>14. CASE ButtonTapped
  <2>1. data' = data \/ \A f \in Fields \ {"floatBtnClick"} : data'[f] = data[f]
    BY <1>14, PutFacts DEF ButtonTapped, Fields
  <2> QED
    BY <1>14, <2>1 DEF ButtonTapped, Fields, SlotInv, Publishing, Connected, App, Host, appVars, hostVars, sharedVars, ResetInv
<1>15. CASE FrontAppChanges
  BY <1>15 DEF FrontAppChanges, SlotInv, Publishing, Connected, App, Host, appVars, hostVars, sharedVars, ResetInv, Put
<1>16. CASE HostBegins
  BY <1>16 DEF HostBegins, SlotInv, Publishing, Connected, App, Host, appVars, hostVars, sharedVars, ResetInv, Put
<1>17. CASE HostBeginsTaking
  BY <1>17 DEF HostBeginsTaking, SlotInv, Publishing, Connected, App, Host, appVars, hostVars, sharedVars, ResetInv, Put
<1>18. CASE HostChecks
  BY <1>18 DEF HostChecks, SlotInv, Publishing, Connected, App, Host, appVars, hostVars, sharedVars, ResetInv, Put
<1>19. CASE HostResets
  <2>1. CASE host = "reset"
    <3>1. ~Connected /\ app' = app /\ host' = "resetImage"
          /\ ~data'["customButtonAction"] /\ ~data'["appLoaded"]
      BY <1>19, <2>1 DEF HostResets, Connected, Host, appVars, GVDataDefault, Fields
    <3> QED
      BY <3>1 DEF ResetInv, Connected
  <2>2. CASE host = "resetImage"
    <3>1. connects = 0 /\ connects' = connects /\ app' = app /\ data' = data
          /\ slot'.state = "Idle"
      <4>1. /\ host' = "visible" /\ slot' = GVImageTransferDefault /\ connects' = connects
            /\ data' = data /\ app' = app /\ icon' = icon
            /\ raced' = (raced \/ connects # 0)
        BY <1>19, <2>2 DEF HostResets, Host, appVars
      <4>2. connects = 0
        BY <4>1
      <4> QED
        BY <4>1, <4>2 DEF GVImageTransferDefault
    <3> QED
      BY <3>1 DEF SlotInv, ResetInv, Connected
  <2> QED
    BY <1>19, <2>1, <2>2 DEF HostResets, Host
<1>20. CASE HostShowsView
  <2>1. data' = data \/ \A f \in Fields \ {"setWindowVisible"} : data'[f] = data[f]
    BY <1>20, PutFacts DEF HostShowsView, Fields
  <2> QED
    BY <1>20, <2>1 DEF HostShowsView, Fields, SlotInv, Publishing, Connected, App, Host, appVars, hostVars, sharedVars, ResetInv
<1>21. CASE HostTakes
  BY <1>21 DEF HostTakes, SlotInv, Publishing, Connected, App, Host, appVars, hostVars, sharedVars, ResetInv, Put
<1>22. CASE HostFrees
  BY <1>22 DEF HostFrees, SlotInv, Publishing, Connected, App, Host, appVars, hostVars, sharedVars, ResetInv, Put
<1>24. CASE EvalReturns
  BY <1>24 DEF EvalReturns, WindowOrNone, SlotInv, Publishing, Connected, App, Host, appVars, hostVars, sharedVars, ResetInv, Put
<1>23. CASE UNCHANGED vars
  BY <1>23 DEF vars, SlotInv, Publishing, Connected, App, Host, appVars, hostVars, sharedVars, ResetInv, Put
<1> QED
  BY <1>1, <1>2, <1>3, <1>4, <1>5, <1>6, <1>7, <1>8, <1>9, <1>10, <1>11, <1>12, <1>13, <1>14, <1>15, <1>16, <1>17, <1>18, <1>19, <1>20, <1>21, <1>22, <1>23, <1>24 DEF Next, AppProceeds, HostProceeds

LEMMA GVInvariant == Spec => []GVInv
<1>1. Init => GVInv
  <2> SUFFICES ASSUME Init PROVE GVInv
    OBVIOUS
  <2>1. GVTypeOK
    <3>1. slot \in [state : {"Idle", "Writing", "Ready"}, sized : BOOLEAN,
                   payload : (Images \union {Blank}) \X (Images \union {Blank})]
      BY DEF Init, GVImageTransferDefault
    <3>2. data \in [Fields -> BOOLEAN]
      BY DEF Init, GVDataDefault
    <3>3. {handled, hidden, asked, calling, unhandled, raced} \subseteq BOOLEAN
      BY DEF Init
    <3>4. launches \in 0..MaxLaunches /\ connects \in 0..MaxLaunches
      BY LaunchesAreCounted DEF Init
    <3> QED
      BY <3>1, <3>2, <3>3, <3>4 DEF Init, GVTypeOK
  <2>2. CountInv
    BY DEF Init, CountInv
  <2>3. SlotInv /\ ResetInv
    BY DEF Init, SlotInv, ResetInv, GVImageTransferDefault, GVDataDefault, Fields,
           Publishing, Connected
  <2> QED
    BY <2>1, <2>2, <2>3 DEF GVInv
<1>2. GVInv /\ [Next]_vars => GVInv'
  BY GVTypeStep, RacedStays, SlotStep, ResetStep DEF GVInv
<1> QED
  BY <1>1, <1>2, PTL DEF Spec

\* The two processes keep the shared structures in the states that
\* GVProtocol.cpp is written for.
THEOREM GVTypeCorrect == Spec => []GVTypeOK
  BY GVInvariant, PTL DEF GVInv

\* GVProtocol.cpp:64-108: the slot passes from the writer to the reader and back,
\* so the button gets whole images, whoever dies in between.
THEOREM ImagesAreWhole == Spec => []WholeImages
<1>1. GVInv => WholeImages
  BY DEF GVInv, SlotInv, WholeImages
<1> QED
  BY <1>1, GVInvariant, PTL

\* globalview.mm:259-273: what an application leaves is gone when the first one
\* connects after the reset.
THEOREM ResetsLeaveNothing == Spec => []FreshStart
<1>1. GVInv => FreshStart
  BY DEF GVInv, ResetInv, FreshStart
<1> QED
  BY <1>1, GVInvariant, PTL
=============================================================================
