----------------------------- MODULE ModalTurns -----------------------------
(***************************************************************************)
(* What the modal request queue promises its callers (architecture.md,     *)
(* "Bootstrap and presentation": "only the active request is presented,    *)
(* completion is accepted once, and cancelling an abandoned request        *)
(* promotes the next request"), with no queue in it: a caller draws a      *)
(* ticket when it arrives, the turn belongs to the oldest ticket of those  *)
(* who have not left, and a caller leaves once, whether or not it ever had *)
(* the turn.                                                               *)
(***************************************************************************)
EXTENDS Naturals

CONSTANT Clients

VARIABLES
  ticket,  \* [Clients -> Nat]: the ticket a client drew, 0 before it arrives
  issued,  \* the number of tickets drawn so far
  gone,    \* the clients that have left
  turn     \* the clients whose turn it is

vars == <<ticket, issued, gone, turn>>

Inside == {c \in Clients : ticket[c] > 0} \ gone

\* The clients of S with the smallest ticket.
Oldest(S) == {c \in S : \A d \in S : ticket[c] <= ticket[d]}

-----------------------------------------------------------------------------

Init ==
  /\ ticket = [c \in Clients |-> 0]
  /\ issued = 0
  /\ gone = {}
  /\ turn = {}

Arrive(c) ==
  /\ ticket[c] = 0
  /\ issued' = issued + 1
  /\ ticket' = [ticket EXCEPT ![c] = issued + 1]
  /\ turn' = IF Inside = {} THEN {c} ELSE turn
  /\ UNCHANGED gone

Leave(c) ==
  /\ c \in Inside
  /\ gone' = gone \union {c}
  /\ turn' = Oldest(Inside \ {c})
  /\ UNCHANGED <<ticket, issued>>

Next == \E c \in Clients : Arrive(c) \/ Leave(c)

Spec == Init /\ [][Next]_vars
=============================================================================
