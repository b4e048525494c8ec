----------------------------- MODULE CoffeeMaker -----------------------------
(***************************************************************************)
(* The life of a connection: CoffeeMaker::connect(), disconnect(),         *)
(* on_connected(), on_disconnected() and heartbeat_run()                   *)
(* (src/jutta_bt_proto/CoffeeMaker.cpp), composed with BLEDevice.          *)
(*                                                                         *)
(* The client calls connect(), disconnect() and requests one at a time on  *)
(* thread "app".  disconnect() also runs on thread "ev", from the callback *)
(* of a lost link.  Labels starting with b_ and v_ are BLEDevice's, p_ are *)
(* parse_man_data(), s_ parse_machine_status(), d_ disconnect() and h_     *)
(* heartbeat_run().                                                        *)
(***************************************************************************)
EXTENDS BLEDevice

CONSTANTS
    Alerts,            \* the alerts a machine file defines
    Loss,              \* when the radio may lose the link by itself
    EmptyManData,      \* the advertisement may be unavailable once connected
    Client             \* when the client calls connect() and disconnect()

ASSUME EnvironmentAssumption ==
    /\ Loss \in {"never", "connected", "always"}
    /\ EmptyManData \in BOOLEAN
    /\ Client \in {"patient", "any"}

VARIABLES
    state,            \* CoffeeMaker::state
    heartbeatThread,  \* the optional std::thread holds a value
    manData,          \* the session whose advertisement filled manData, or 0
    joe,              \* the session whose parse_man_data() loaded joe, or 0
    alerts,           \* pointers <<joe, alert>> into the alerts of a Joe
    newAlerts,        \* local of parse_machine_status(), of each thread
    ret,              \* the label at which disconnect() on "app" returns
    patient           \* history: every connect() was called while DISCONNECTED

cmVars == <<state, heartbeatThread, manData, joe, alerts, newAlerts, ret, patient>>
vars == <<pc, process, bleVars, gattVars, cmVars>>

Threads == {"app", "ev", "hb"}

(* The threads that run parse_machine_status().                            *)
Readers == {"app", "hb"}

States == {"DISCONNECTED", "CONNECTING", "CONNECTED", "DISCONNECTING"}

OnConnectedLabels ==
    {"on_connected", "p_man", "p_joe", "p_alerts", "o_beat", "o_beat_use",
     "o_about", "o_about_use", "o_thread"}

ConnectLabels ==
    OnConnectedLabels \cup
    {"b_connect", "b_discover", "b_register", "b_connected", "c_true", "c_false"}

DisconnectLabels ==
    {"d_check", "d_set", "d_write", "d_write_use", "d_assert", "d_join",
     "d_reset", "d_done"}

StoreLabels == {"s_alerts", "s_insert"}

AppLabels ==
    {"idle", "connect", "r_check", "r_use"}
    \cup ConnectLabels \cup DisconnectLabels \cup StoreLabels

EvLabels == {"idle", "v_check", "v_clear", "v_notify"} \cup DisconnectLabels

\* "none": not created yet, or joined.
HbLabels ==
    {"none", "h_loop", "h_beat", "h_beat_use", "h_status", "h_status_use",
     "h_sleep", "h_end"} \cup StoreLabels

Outcomes ==
    {"running", "exit", "assert(!connection)", "assert(!connected)",
     "assert(heartbeatThread)", "assert(!heartbeatThread)", "join",
     "nullptr"}

(* disconnect() applies to a connection being made or made.                *)
Open == state \in {"CONNECTING", "CONNECTED"}

(* The client is inside connect(), past its first assignment.              *)
InConnect == pc["app"] \in ConnectLabels \/ ret = "c_true"

-----------------------------------------------------------------------------
(* The client.  A patient one calls connect() only while get_state() is    *)
(* DISCONNECTED, and disconnect() only once it has left CONNECTED, as      *)
(* test_exec does (which has a new CoffeeMaker for every connection).      *)
(* CoffeeMaker asks neither of its clients.                                *)

ClientConnect ==
    /\ session < MaxSessions
    /\ Goto("app", "idle", "connect")
    /\ \/ state = "DISCONNECTED" /\ UNCHANGED patient
       \/ Client = "any" /\ state # "DISCONNECTED" /\ patient' = FALSE
    /\ UNCHANGED <<process, bleVars, gattVars, state, heartbeatThread, manData, joe,
                   alerts, newAlerts, ret>>

ClientDisconnect ==
    /\ Client = "any" \/ state # "CONNECTED"
    /\ Goto("app", "idle", "d_check")
    /\ UNCHANGED <<process, bleVars, gattVars, cmVars>>

(* A request: one read or write.                                           *)
ClientRequest ==
    /\ Goto("app", "idle", "r_check")
    /\ UNCHANGED <<process, bleVars, gattVars, cmVars>>

RequestTest ==
    TestConnected("app", "r_check", "r_use", "idle") /\ UNCHANGED cmVars

RequestUse ==
    UseConnection("app", "r_use", "idle") /\ UNCHANGED cmVars

-----------------------------------------------------------------------------
(* parse_machine_status(), on thread t, once request_status() has read.    *)

(* The reported alerts are looked up in the Joe that is loaded.            *)
ReadStatus(t, from) ==
    /\ link /\ connection # 0
    /\ joe # 0
    /\ Goto(t, from, "s_alerts")
    /\ \E reported \in SUBSET Alerts:
          newAlerts' = [newAlerts EXCEPT ![t] = {joe} \X reported]
    /\ UNCHANGED <<process, bleVars, gattVars, state, heartbeatThread, manData,
                   joe, alerts, ret, patient>>

(* Alerts that differ are cleared and then inserted.                       *)
StoreAlerts(t, next) ==
    /\ \/ /\ alerts = newAlerts[t]
          /\ Goto(t, "s_alerts", next)
          /\ newAlerts' = [newAlerts EXCEPT ![t] = {}]
          /\ UNCHANGED alerts
       \/ /\ alerts # newAlerts[t]
          /\ Goto(t, "s_alerts", "s_insert")
          /\ alerts' = {}
          /\ UNCHANGED newAlerts
       \/ /\ Goto(t, "s_insert", next)
          /\ alerts' = alerts \cup newAlerts[t]
          /\ newAlerts' = [newAlerts EXCEPT ![t] = {}]
    /\ UNCHANGED <<process, bleVars, gattVars, state, heartbeatThread, manData,
                   joe, ret, patient>>

StatusStep(t, from, next) == ReadStatus(t, from) \/ StoreAlerts(t, next)

-----------------------------------------------------------------------------
(* connect() and on_connected(), on the client's thread.                   *)

(* set_state(CONNECTING), whatever the state is.                           *)
BeginConnect ==
    /\ Goto("app", "connect", "b_connect")
    /\ state' = "CONNECTING"
    /\ UNCHANGED <<process, bleVars, gattVars, heartbeatThread, manData, joe,
                   alerts, newAlerts, ret, patient>>

BleConnectStep ==
    /\ BleConnect \/ BleDiscoverFails \/ BleDiscover \/ BleRegister \/ BleConnected
    /\ UNCHANGED cmVars

(* get_mam_data() comes back empty, always so on a cleared connection (if  *)
(* gattlib survives it); on_connected() then calls disconnect().           *)
NoManData ==
    /\ EmptyManData \/ connection = 0
    /\ \/ /\ Goto("app", "on_connected", "d_check")
          /\ ret' = "c_true"
          /\ UNCHANGED <<process, bleVars, gattVars>>
       \/ /\ connection = 0
          /\ At("app", "on_connected")
          /\ Halt("nullptr")
          /\ UNCHANGED ret
    /\ UNCHANGED <<state, heartbeatThread, manData, joe, alerts, newAlerts, patient>>

GetManData ==
    /\ connection # 0
    /\ Goto("app", "on_connected", "p_man")
    /\ UNCHANGED <<process, bleVars, gattVars, cmVars>>

\* Mutant: the key is only parsed once.
ParseManDataOnce ==
    /\ Goto("app", "p_man", "p_joe")
    /\ manData' = IF manData = 0 THEN session ELSE manData
    /\ UNCHANGED <<process, bleVars, gattVars, state, heartbeatThread, joe,
                   alerts, newAlerts, ret, patient>>

(* parse_man_data(): the key and the other fields.                         *)
ParseManData ==
    /\ Goto("app", "p_man", "p_joe")
    /\ manData' = session
    /\ UNCHANGED <<process, bleVars, gattVars, state, heartbeatThread, joe,
                   alerts, newAlerts, ret, patient>>

(* The machine files do not know the article number.                       *)
UnknownMachine ==
    /\ At("app", "p_joe")
    /\ Halt("exit")
    /\ UNCHANGED cmVars

(* joe = load_joe(machine): the previous Joe and its alerts are freed.     *)
LoadJoe ==
    /\ Goto("app", "p_joe", "p_alerts")
    /\ joe' = session
    /\ UNCHANGED <<process, bleVars, gattVars, state, heartbeatThread, manData,
                   alerts, newAlerts, ret, patient>>

\* Mutant: the pointers into the previous Joe are kept.
ClearAlertsNot ==
    /\ Goto("app", "p_alerts", "o_beat")
    /\ UNCHANGED <<process, bleVars, gattVars, cmVars>>

ClearAlerts ==
    /\ Goto("app", "p_alerts", "o_beat")
    /\ alerts' = {}
    /\ UNCHANGED <<process, bleVars, gattVars, state, heartbeatThread, manData,
                   joe, newAlerts, ret, patient>>

(* The initial heartbeat and request_about_info().                         *)
Introduce ==
    /\ \/ TestConnected("app", "o_beat", "o_beat_use", "o_about")
       \/ UseConnection("app", "o_beat_use", "o_about")
       \/ TestConnected("app", "o_about", "o_about_use", "o_thread")
       \/ UseConnection("app", "o_about_use", "o_thread")
    /\ UNCHANGED cmVars

StartHeartbeat ==
    /\ At("app", "o_thread")
    /\ \/ /\ heartbeatThread
          /\ Halt("assert(!heartbeatThread)")
          /\ UNCHANGED heartbeatThread
       \/ /\ ~heartbeatThread
          /\ heartbeatThread' = TRUE
          /\ pc' = [pc EXCEPT !["app"] = "c_true", !["hb"] = "h_loop"]
          /\ UNCHANGED <<process, bleVars, gattVars>>
    /\ UNCHANGED <<state, manData, joe, alerts, newAlerts, ret, patient>>

ConnectReturns ==
    /\ \/ Goto("app", "c_true", "idle") /\ state' = "CONNECTED"
       \/ Goto("app", "c_false", "idle") /\ state' = "DISCONNECTED"
    /\ UNCHANGED <<process, bleVars, gattVars, heartbeatThread, manData, joe,
                   alerts, newAlerts, ret, patient>>

-----------------------------------------------------------------------------
(* on_disconnected(), on gattlib's event thread.                           *)
\* Mutant: the loss of an established connection is ignored.
OnDisconnectedIgnored ==
    /\ Branch("ev", "v_notify", state = "CONNECTING", "d_check", "idle")
    /\ UNCHANGED <<process, bleVars, gattVars, cmVars>>

OnDisconnected ==
    /\ Branch("ev", "v_notify", Open, "d_check", "idle")
    /\ UNCHANGED <<process, bleVars, gattVars, cmVars>>

EventStep ==
    \/ (BleOnDisconnected \/ BleClearConnection) /\ UNCHANGED cmVars
    \/ OnDisconnected

-----------------------------------------------------------------------------
(* disconnect(), on thread t.                                              *)

DisconnectReturns(t, from) ==
    \/ t = "app" /\ Goto(t, from, ret) /\ ret' = "idle"
    \/ t = "ev" /\ Goto(t, from, "idle") /\ UNCHANGED ret

DisconnectCheck(t) ==
    /\ \/ Open /\ Goto(t, "d_check", "d_set") /\ UNCHANGED ret
       \/ ~Open /\ DisconnectReturns(t, "d_check")
    /\ UNCHANGED <<process, bleVars, gattVars, state, heartbeatThread, manData,
                   joe, alerts, newAlerts, patient>>

\* Mutant: the connection is announced as closed before it is.
DisconnectSetClosed(t) ==
    /\ Goto(t, "d_set", "d_write")
    /\ state' = "DISCONNECTED"
    /\ UNCHANGED <<process, bleVars, gattVars, heartbeatThread, manData, joe,
                   alerts, newAlerts, ret, patient>>

DisconnectSet(t) ==
    /\ Goto(t, "d_set", "d_write")
    /\ state' = "DISCONNECTING"
    /\ UNCHANGED <<process, bleVars, gattVars, heartbeatThread, manData, joe,
                   alerts, newAlerts, ret, patient>>

DisconnectWrite(t) ==
    /\ \/ TestConnected(t, "d_write", "d_write_use", "d_assert")
       \/ WriteFarewell(t, "d_write_use", "d_assert")
    /\ UNCHANGED cmVars

DisconnectAssert(t) ==
    /\ \/ /\ At(t, "d_assert")
          /\ ~heartbeatThread
          /\ Halt("assert(heartbeatThread)")
       \/ /\ heartbeatThread
          /\ Goto(t, "d_assert", "d_join")
          /\ UNCHANGED <<process, bleVars, gattVars>>
    /\ UNCHANGED cmVars

\* Mutant: the heartbeat thread is not joined.
DisconnectJoinNot(t) ==
    /\ Goto(t, "d_join", "d_reset")
    /\ UNCHANGED <<process, bleVars, gattVars, cmVars>>

(* join() waits for the heartbeat thread to end.  Joining an empty         *)
(* optional, or a thread that has been joined, ends the process.           *)
DisconnectJoin(t) ==
    /\ At(t, "d_join")
    /\ \/ /\ ~heartbeatThread \/ pc["hb"] = "none"
          /\ Halt("join")
       \/ /\ heartbeatThread
          /\ pc["hb"] = "h_end"
          /\ pc' = [pc EXCEPT ![t] = "d_reset", !["hb"] = "none"]
          /\ UNCHANGED <<process, bleVars, gattVars>>
    /\ UNCHANGED cmVars

\* Mutant: the joined thread stays in the optional.
DisconnectResetNot(t) ==
    /\ Goto(t, "d_reset", "d_done")
    /\ UNCHANGED <<process, bleVars, gattVars, cmVars>>

DisconnectReset(t) ==
    /\ Goto(t, "d_reset", "d_done")
    /\ heartbeatThread' = FALSE
    /\ UNCHANGED <<process, bleVars, gattVars, state, manData, joe, alerts,
                   newAlerts, ret, patient>>

DisconnectDone(t) ==
    /\ DisconnectReturns(t, "d_done")
    /\ state' = "DISCONNECTED"
    /\ UNCHANGED <<process, bleVars, gattVars, heartbeatThread, manData, joe,
                   alerts, newAlerts, patient>>

DisconnectStep(t) ==
    \/ DisconnectCheck(t) \/ DisconnectSet(t) \/ DisconnectWrite(t)
    \/ DisconnectAssert(t) \/ DisconnectJoin(t) \/ DisconnectReset(t)
    \/ DisconnectDone(t)

-----------------------------------------------------------------------------
(* heartbeat_run(), on its own thread.                                     *)

\* Mutant: the loop only runs while the state is CONNECTED.
HeartbeatLoopConnected ==
    /\ Branch("hb", "h_loop", state = "CONNECTED", "h_beat", "h_end")
    /\ UNCHANGED <<process, bleVars, gattVars, cmVars>>

\* Mutant: the loop runs until the state is DISCONNECTED.
HeartbeatLoopForever ==
    /\ Branch("hb", "h_loop", state # "DISCONNECTED", "h_beat", "h_end")
    /\ UNCHANGED <<process, bleVars, gattVars, cmVars>>

HeartbeatLoop ==
    /\ Branch("hb", "h_loop", Open, "h_beat", "h_end")
    /\ UNCHANGED <<process, bleVars, gattVars, cmVars>>

(* stay_in_ble() and the read of request_status(), which may fail.         *)
HeartbeatCalls ==
    /\ \/ TestConnected("hb", "h_beat", "h_beat_use", "h_status")
       \/ UseConnection("hb", "h_beat_use", "h_status")
       \/ TestConnected("hb", "h_status", "h_status_use", "h_sleep")
       \/ UseConnection("hb", "h_status_use", "h_sleep")
    /\ UNCHANGED cmVars

HeartbeatSleep ==
    /\ Goto("hb", "h_sleep", "h_loop")
    /\ UNCHANGED <<process, bleVars, gattVars, cmVars>>

HeartbeatStep ==
    \/ HeartbeatLoop \/ HeartbeatCalls
    \/ StatusStep("hb", "h_status_use", "h_sleep")
    \/ HeartbeatSleep

-----------------------------------------------------------------------------
(* The radio and the coffee maker.                                         *)

LinkLost ==
    /\ Loss # "never"
    /\ Loss = "connected" => ~InConnect
    /\ DropLink
    /\ UNCHANGED cmVars

(* Without heartbeats the coffee maker hangs up after 20 seconds.          *)
MakerTimesOut ==
    /\ pc["hb"] \in {"none", "h_end"}
    /\ ~InConnect
    /\ DropLink
    /\ UNCHANGED cmVars

HangUp == MakerHangsUp /\ UNCHANGED cmVars

Deliver == DeliverDisconnect /\ UNCHANGED cmVars

-----------------------------------------------------------------------------
Init ==
    /\ pc = [t \in Threads |-> IF t = "hb" THEN "none" ELSE "idle"]
    /\ process = "running"
    /\ BleInit
    /\ state = "DISCONNECTED"
    /\ heartbeatThread = FALSE
    /\ manData = 0
    /\ joe = 0
    /\ alerts = {}
    /\ newAlerts = [t \in Readers |-> {}]
    /\ ret = "idle"
    /\ patient = TRUE

ClientStep == ClientConnect \/ ClientDisconnect \/ ClientRequest

(* The steps of a call the client has made.                                *)
CallStep ==
    \/ RequestTest \/ RequestUse \/ StatusStep("app", "r_use", "idle")
    \/ BeginConnect \/ BleConnectStep \/ NoManData \/ GetManData
    \/ ParseManData \/ UnknownMachine \/ LoadJoe \/ ClearAlerts
    \/ Introduce \/ StartHeartbeat \/ ConnectReturns
    \/ DisconnectStep("app")

EvStep == EventStep \/ DisconnectStep("ev")

(* The process has ended.                                                  *)
Ended == process # "running" /\ UNCHANGED vars

Next ==
    \/ ClientStep \/ CallStep \/ EvStep \/ HeartbeatStep
    \/ LinkLost \/ MakerTimesOut \/ HangUp \/ Deliver
    \/ Ended

Spec == Init /\ [][Next]_vars

(* A call in progress and the threads keep running, gattlib delivers its   *)
(* callbacks, and the coffee maker hangs up when told to or left alone.    *)
Fairness ==
    /\ WF_vars(CallStep)
    /\ WF_vars(EvStep)
    /\ WF_vars(HeartbeatStep)
    /\ WF_vars(HangUp)
    /\ WF_vars(MakerTimesOut)
    /\ WF_vars(Deliver)

FairSpec == Spec /\ Fairness
=============================================================================
