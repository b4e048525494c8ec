---------------------------- MODULE MCCoffeeMaker ----------------------------
(***************************************************************************)
(* What TLC checks of CoffeeMaker: the properties of CoffeeMakerProperties *)
(* and, below, what two assertions of the code claim and the code does not *)
(* keep.  Each .cfg chooses how hostile the radio is and what the client   *)
(* does.                                                                   *)
(***************************************************************************)
EXTENDS CoffeeMakerProperties

(* disconnect() is only reached once on_connected() has started the        *)
(* heartbeat thread and by one thread at a time: assert(heartbeatThread)   *)
(* in disconnect() (CoffeeMaker.cpp:447).                                  *)
DisconnectFindsHeartbeat == process # "assert(heartbeatThread)"

(* on_connected() is only reached once the heartbeat of the connection     *)
(* before has been joined: assert(!heartbeatThread) in on_connected()      *)
(* (CoffeeMaker.cpp:416).                                                  *)
ConnectFindsNoHeartbeat == process # "assert(!heartbeatThread)"
=============================================================================
