------------------------- MODULE ConnectionLifecycle -------------------------
(***************************************************************************)
(* What CoffeeMaker promises its clients about a connection, without       *)
(* threads, callbacks or radio: get_state() walks the cycle DISCONNECTED,  *)
(* CONNECTING, CONNECTED, DISCONNECTING; a connection is only announced    *)
(* while the heartbeat that keeps it open is running, and it is only       *)
(* announced as closed once that heartbeat has stopped.                    *)
(***************************************************************************)
VARIABLES
    state,   \* what get_state() returns
    beating  \* a heartbeat thread exists and has not been joined

Init == state = "DISCONNECTED" /\ beating = FALSE

Begin == state = "DISCONNECTED" /\ state' = "CONNECTING" /\ UNCHANGED beating

Fail ==
    /\ state = "CONNECTING" /\ ~beating
    /\ state' = "DISCONNECTED" /\ UNCHANGED beating

StartBeating ==
    /\ state = "CONNECTING" /\ ~beating
    /\ beating' = TRUE /\ UNCHANGED state

Announce ==
    /\ state = "CONNECTING" /\ beating
    /\ state' = "CONNECTED" /\ UNCHANGED beating

BeginClose ==
    /\ state = "CONNECTED"
    /\ state' = "DISCONNECTING" /\ UNCHANGED beating

StopBeating ==
    /\ state = "DISCONNECTING" /\ beating
    /\ beating' = FALSE /\ UNCHANGED state

Close ==
    /\ state = "DISCONNECTING" /\ ~beating
    /\ state' = "DISCONNECTED" /\ UNCHANGED beating

Next ==
    \/ Begin \/ Fail \/ StartBeating \/ Announce
    \/ BeginClose \/ StopBeating \/ Close

Spec == Init /\ [][Next]_<<state, beating>>
=============================================================================
