---------------------------- MODULE MCModalShow -----------------------------
(* Model values for dialogs: calls on the main thread and in background.   *)
EXTENDS ModalShow

CONSTANTS m1, m2, m3, b1

MCMainCalls == {m1, m2, m3}
MCBackCalls == {b1}
MCRequests == MCMainCalls \union MCBackCalls
NoBackCalls == {}
=============================================================================
