------------------------ MODULE CoffeeMakerProperties ------------------------
(***************************************************************************)
(* The properties of the connection's life.                                *)
(***************************************************************************)
EXTENDS CoffeeMaker

(* Every variable of the model has its type.                               *)
TypeOK ==
    /\ BleTypeOK
    /\ pc \in [Threads -> AppLabels \cup EvLabels \cup HbLabels]
    /\ pc["app"] \in AppLabels
    /\ pc["ev"] \in EvLabels
    /\ pc["hb"] \in HbLabels
    /\ process \in Outcomes
    /\ state \in States
    /\ heartbeatThread \in BOOLEAN
    /\ manData \in 0..MaxSessions
    /\ joe \in 0..MaxSessions
    /\ alerts \subseteq (0..MaxSessions) \X Alerts
    /\ newAlerts \in [Readers -> SUBSET ((0..MaxSessions) \X Alerts)]
    /\ ret \in {"idle", "c_true"}
    /\ patient \in BOOLEAN

(* With a client that has called connect() only when get_state() said      *)
(* DISCONNECTED, on_connected() never finds the heartbeat thread of an     *)
(* earlier connection still in place, whatever the event thread does       *)
(* meanwhile: assert(!heartbeatThread) holds.  connect() itself tests      *)
(* nothing: the run Reconnect shows what an impatient client meets.        *)
OneHeartbeat == patient => process # "assert(!heartbeatThread)"

(* The optional owns the heartbeat thread from its creation to its join,   *)
(* so that heartbeatThread = nullopt, reached from two threads, never      *)
(* destroys a joinable std::thread (which would be std::terminate): with   *)
(* any client and any radio.                                               *)
HeartbeatOwned ==
    /\ pc["hb"] # "none" => heartbeatThread
    /\ \A t \in {"app", "ev"}: pc[t] = "d_reset" => pc["hb"] = "none"

(* With a patient client, the pointers that get_alerts() hands out, and    *)
(* those that a request_status() of the client or of the heartbeat is      *)
(* about to store, point into the current Joe: a reconnect frees the old   *)
(* Joe only when no heartbeat of the old connection is left.  The one      *)
(* exception is parse_man_data() between its two assignments.              *)
AlertsAlive ==
    patient =>
      /\ pc["app"] # "p_alerts" => \A a \in alerts: a[1] = joe
      /\ \A t \in Readers: \A a \in newAlerts[t]: a[1] = joe

(* With a patient client, a heartbeat is encoded with the key from the     *)
(* advertisement of the connection it is sent on, and interpreted with     *)
(* that connection's Joe.                                                  *)
HeartbeatKeyed ==
    patient /\ pc["hb"] # "none" => manData = session /\ joe = session

(* The callback that clears the gattlib handle clears the handle whose     *)
(* link was lost, never that of a connection opened since: with any client *)
(* and any radio, since BLEDevice::connect() asserts that there is none.   *)
CallbackClearsLostHandle == pc["ev"] \in {"v_check", "v_clear"} => ~link

(* A coffee maker that is announced as connected and whose link is up is   *)
(* kept awake: the heartbeat thread is running and has not left its loop.  *)
ConnectedIsKeptAwake ==
    state = "CONNECTED" /\ connected /\ link => pc["hb"] \notin {"none", "h_end"}

(* No assertion of the code fails and no thread is joined twice.           *)
AssertionsHold ==
    process \notin {"assert(!connection)", "assert(!connected)",
                    "assert(heartbeatThread)", "assert(!heartbeatThread)", "join"}

(* The connection implements what ConnectionLifecycle promises.            *)
Lifecycle ==
    INSTANCE ConnectionLifecycle WITH state <- state, beating <- pc["hb"] # "none"

LifecycleSpec == Lifecycle!Spec

(* get_state() does not stay CONNECTED on a lost link: the callback of     *)
(* gattlib's event thread reaches disconnect().                            *)
LostLinkIsNoticed ==
    state = "CONNECTED" /\ ~link ~> state # "CONNECTED" \/ process # "running"

(* disconnect() completes: neither the wait for the heartbeat thread nor   *)
(* the radio keeps the state at DISCONNECTING.                             *)
DisconnectCompletes ==
    state = "DISCONNECTING" ~> state = "DISCONNECTED" \/ process # "running"

(* disconnect() does not close the gattlib handle, it asks the coffee      *)
(* maker to hang up; yet with a patient client the handle of a connection  *)
(* that was made is gone in the end, even if the command was lost, since   *)
(* the heartbeat has stopped.                                              *)
HandleIsReleased ==
    patient /\ state = "DISCONNECTED" /\ link /\ connected
        ~> connection = 0 \/ ~patient \/ process # "running"

-----------------------------------------------------------------------------
(* connect() runs and on_connected() has not created the heartbeat thread. *)
Connecting ==
    pc["app"] \in {"connect"} \cup (ConnectLabels \ {"c_true"}) \/ ret = "c_true"

Closing == {"d_reset", "d_done"}

(* Why no thread that can be joined is destroyed: of the two threads that  *)
(* may run disconnect() only one gets past join(), and until it empties    *)
(* the optional no other heartbeat can be put there.                       *)
Owned ==
    /\ HeartbeatOwned
    /\ \A t \in {"app", "ev"}: pc[t] = "d_reset" => heartbeatThread
    /\ ~(pc["app"] = "d_reset" /\ pc["ev"] = "d_reset")

(* Why, with a patient client, heartbeatThread is handed from thread to    *)
(* thread without a lock: it is empty while connect() works towards it and *)
(* while the state is DISCONNECTED, so that a connect() only starts after  *)
(* the disconnect() that emptied it; and the two threads that may run      *)
(* disconnect() never both get past join().                                *)
HandOver ==
    patient =>
      /\ OneHeartbeat
      /\ ret = "c_true" => pc["app"] \in DisconnectLabels
      /\ Connecting => ~heartbeatThread
      /\ Connecting /\ pc["app"] # "connect" => state # "DISCONNECTED"
      /\ state = "DISCONNECTED" => ~heartbeatThread
      /\ \A t \in {"app", "ev"}: pc[t] = "d_done" => ~heartbeatThread
      /\ pc["ev"] \in Closing =>
            ~Connecting /\ pc["app"] \notin Closing /\ state # "DISCONNECTED"

(* Why, with a patient client, a heartbeat never sees the key or the Joe   *)
(* of another connection: on_connected() fills both before it starts the   *)
(* heartbeat thread.                                                       *)
FilledInOrder ==
    /\ HeartbeatKeyed /\ AlertsAlive
    /\ pc["app"] \in OnConnectedLabels \ {"on_connected", "p_man"} => manData = session
    /\ pc["app"] \in OnConnectedLabels \ {"on_connected", "p_man", "p_joe"} => joe = session
    /\ pc["app"] \notin StoreLabels => newAlerts["app"] = {}
    /\ pc["hb"] \notin StoreLabels => newAlerts["hb"] = {}

(* Why a callback belongs to the handle it clears: it is only queued for a *)
(* handle that is there and whose link is down, and the handle stays until *)
(* the callback has run.                                                   *)
HandleInOrder ==
    /\ CallbackClearsLostHandle
    /\ link => connection # 0
    /\ signal => ~link /\ connection # 0
    /\ pc["ev"] \in {"v_check", "v_clear"} => ~signal /\ connection # 0
    /\ pc["app"] \in {"b_discover", "b_register"} =>
          ~registered /\ ~signal /\ pc["ev"] \notin {"v_check", "v_clear"}

Inductive == TypeOK /\ Owned /\ HandOver /\ FilledInOrder /\ HandleInOrder

-----------------------------------------------------------------------------
(* What holds besides when the client is patient, as test_exec is, and the *)
(* radio is kind to connect().                                             *)
Cautious == Loss # "always" /\ ~EmptyManData /\ Client = "patient"

Noticing == {"v_check", "v_clear", "v_notify", "d_check", "d_set"}

Leaving == {"d_write", "d_assert", "d_join", "d_reset", "d_done"}

(* disconnect() finds nothing to do on the client's thread.                *)
ClientInOrder ==
    /\ ret = "idle"
    /\ pc["app"] \notin DisconnectLabels \ {"d_check"}
    /\ patient
    /\ pc["app"] = "d_check" => ~Open
    /\ pc["app"] = "connect" => state = "DISCONNECTED"
    /\ state = "CONNECTING" <=> pc["app"] \in ConnectLabels

(* Nothing is left of an earlier connection when the next one is begun.    *)
Quiet ==
    /\ ~link /\ ~signal /\ ~connected /\ connection = 0
    /\ pc["ev"] = "idle" /\ pc["hb"] = "none"

LinkInOrder ==
    /\ ~farewell
    /\ state = "DISCONNECTED" \/ pc["app"] \in {"b_connect", "c_false"} => Quiet
    /\ pc["app"] \in ConnectLabels \ {"b_connect", "c_false"} => link
    /\ pc["app"] = "b_discover" => ~connected
    /\ pc["app"] = "b_connected" => registered
    /\ pc["app"] \in OnConnectedLabels \cup {"c_true"} => connected /\ registered
    /\ state = "CONNECTED" /\ link => connected /\ registered
    /\ link => Open /\ connection # 0 /\ ~signal /\ pc["ev"] = "idle"

(* The event thread only works on the loss of the connection that the      *)
(* state still speaks of.                                                  *)
CallbackInOrder ==
    /\ pc["ev"] \in {"idle"} \cup Noticing \cup Leaving
    /\ signal => state = "CONNECTED" /\ connected /\ pc["ev"] = "idle"
    /\ state = "CONNECTED" /\ ~link => signal \/ pc["ev"] \in Noticing
    /\ pc["ev"] \in Noticing => state = "CONNECTED"
    /\ state = "DISCONNECTING" <=> pc["ev"] \in Leaving
    /\ pc["ev"] = "v_check" => connected
    /\ pc["ev"] \notin {"idle", "v_check"} => ~connected
    /\ pc["ev"] \notin {"idle", "v_check", "v_clear"} => connection = 0

BeatInOrder ==
    /\ state = "CONNECTED" \/ pc["app"] = "c_true" => pc["hb"] \notin {"none", "h_end"}
    /\ pc["app"] \in ConnectLabels \ {"c_true"} => pc["hb"] = "none"
    /\ pc["ev"] \in {"d_write", "d_assert", "d_join"} => pc["hb"] # "none"
    /\ pc["ev"] \in Closing => pc["hb"] = "none"

Orderly ==
    ClientInOrder /\ LinkInOrder /\ CallbackInOrder /\ BeatInOrder /\ AssertionsHold
=============================================================================
