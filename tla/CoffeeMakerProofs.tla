-------------------------- MODULE CoffeeMakerProofs --------------------------
(***************************************************************************)
(* Proofs of the properties of CoffeeMakerProperties for any number of     *)
(* connections and any alerts: first those that hold for any radio and any *)
(* client, then those that hold under Cautious.                            *)
(***************************************************************************)
EXTENDS CoffeeMakerProperties, TLAPS

-----------------------------------------------------------------------------
(* Type correctness, one group of variables at a time.                     *)

Labels ==
    /\ pc \in [Threads -> AppLabels \cup EvLabels \cup HbLabels]
    /\ pc["app"] \in AppLabels
    /\ pc["ev"] \in EvLabels
    /\ pc["hb"] \in HbLabels
    /\ ret \in {"idle", "c_true"}

\* connect() only begins while the bound leaves room for another handle.
Numbers ==
    /\ connection \in 0..MaxSessions
    /\ session \in 0..MaxSessions
    /\ manData \in 0..MaxSessions
    /\ joe \in 0..MaxSessions
    /\ pc["app"] \in {"connect", "b_connect"} => session < MaxSessions

Flags ==
    /\ connected \in BOOLEAN
    /\ link \in BOOLEAN
    /\ registered \in BOOLEAN
    /\ signal \in BOOLEAN
    /\ farewell \in BOOLEAN
    /\ heartbeatThread \in BOOLEAN
    /\ patient \in BOOLEAN

Rest ==
    /\ process \in Outcomes
    /\ state \in States
    /\ alerts \subseteq (0..MaxSessions) \X Alerts
    /\ newAlerts \in [Readers -> SUBSET ((0..MaxSessions) \X Alerts)]

Typed == Labels /\ Numbers /\ Flags /\ Rest

LEMMA TypedInit == Init => Typed
  <1> SUFFICES ASSUME Init PROVE Typed
    OBVIOUS
  <1>1. Labels
    BY DEF Init, Labels, Threads, AppLabels, EvLabels, HbLabels, StoreLabels
  <1>2. Numbers
    BY MaxSessionsAssumption DEF Init, BleInit, Numbers, Threads
  <1>3. Flags
    BY Zenon DEF Init, BleInit, Flags
  <1>4. Rest
    BY DEF Init, Rest, Outcomes, States, Readers
  <1> QED
    BY <1>1, <1>2, <1>3, <1>4 DEF Typed

LEMMA LabelsNext == ASSUME Labels, Next PROVE Labels'
  <1> USE DEF Labels, Threads, bleVars, gattVars, cmVars, Goto, At, Branch, Halt,
              AppLabels, EvLabels, HbLabels, ConnectLabels, OnConnectedLabels,
              DisconnectLabels, StoreLabels, TestConnected, UseConnection
  <1>1. CASE ClientStep \/ BeginConnect
    BY <1>1 DEF ClientStep, ClientConnect, ClientDisconnect, ClientRequest, BeginConnect
  <1>2. CASE RequestTest \/ RequestUse
    BY <1>2 DEF RequestTest, RequestUse
  <1>3. CASE StatusStep("app", "r_use", "idle")
    BY <1>3 DEF StatusStep, ReadStatus, StoreAlerts
  <1>4. CASE BleConnectStep
    BY <1>4 DEF BleConnectStep, BleConnect, BleDiscoverFails, BleDiscover,
                BleRegister, BleConnected
  <1>5. CASE NoManData
    BY <1>5 DEF NoManData
  <1>6. CASE GetManData
    BY <1>6 DEF GetManData
  <1>7. CASE ParseManData
    BY <1>7 DEF ParseManData
  <1>8. CASE UnknownMachine
    BY <1>8 DEF UnknownMachine
  <1>9. CASE LoadJoe
    BY <1>9 DEF LoadJoe
  <1>10. CASE ClearAlerts
    BY <1>10 DEF ClearAlerts
  <1>11. CASE Introduce
    BY <1>11 DEF Introduce
  <1>12. CASE StartHeartbeat
    BY <1>12 DEF StartHeartbeat
  <1>13. CASE ConnectReturns
    BY <1>13 DEF ConnectReturns
  <1>14. CASE EventStep
    BY <1>14 DEF EventStep, BleOnDisconnected, BleClearConnection, OnDisconnected
  <1>15. ASSUME NEW t \in {"app", "ev"}, DisconnectStep(t) PROVE Labels'
    <2>1. CASE DisconnectCheck(t)
      BY <2>1 DEF DisconnectCheck, DisconnectReturns
    <2>2. CASE DisconnectSet(t)
      BY <2>2 DEF DisconnectSet
    <2>3. CASE DisconnectWrite(t)
      BY <2>3 DEF DisconnectWrite, WriteFarewell
    <2>4. CASE DisconnectAssert(t)
      BY <2>4 DEF DisconnectAssert
    <2>5. CASE DisconnectJoin(t)
      BY <2>5 DEF DisconnectJoin
    <2>6. CASE DisconnectReset(t)
      BY <2>6 DEF DisconnectReset
    <2>7. CASE DisconnectDone(t)
      BY <2>7 DEF DisconnectDone, DisconnectReturns
    <2> QED
      BY <1>15, <2>1, <2>2, <2>3, <2>4, <2>5, <2>6, <2>7 DEF DisconnectStep
  <1>16. CASE HeartbeatStep
    BY <1>16 DEF HeartbeatStep, HeartbeatLoop, HeartbeatCalls, StatusStep, ReadStatus,
                 StoreAlerts, HeartbeatSleep
  <1>17. CASE LinkLost \/ MakerTimesOut \/ HangUp \/ Ended
    BY <1>17 DEF LinkLost, MakerTimesOut, HangUp, Ended, vars, DropLink, MakerHangsUp
  <1>18. CASE Deliver
    BY <1>18 DEF Deliver, DeliverDisconnect
  <1> HIDE DEF Labels
  <1> QED
    BY <1>1, <1>2, <1>3, <1>4, <1>5, <1>6, <1>7, <1>8, <1>9, <1>10, <1>11,
       <1>12, <1>13, <1>14, <1>15, <1>16, <1>17, <1>18
    DEF Next, CallStep, EvStep

LEMMA NumbersNext == ASSUME Labels, Numbers, Next PROVE Numbers'
  <1> USE MaxSessionsAssumption
      DEF Labels, Numbers, Threads, bleVars, gattVars, cmVars, Goto, At, Branch, Halt,
          TestConnected, UseConnection
  <1>1. CASE ClientStep \/ BeginConnect
    BY <1>1 DEF ClientStep, ClientConnect, ClientDisconnect, ClientRequest, BeginConnect
  <1>2. CASE RequestTest \/ RequestUse \/ StatusStep("app", "r_use", "idle")
    BY <1>2 DEF RequestTest, RequestUse, StatusStep, ReadStatus, StoreAlerts
  <1>3. CASE BleConnectStep
    BY <1>3 DEF BleConnectStep, BleConnect, BleDiscoverFails, BleDiscover,
                BleRegister, BleConnected
  <1>4. CASE NoManData \/ GetManData \/ UnknownMachine \/ ClearAlerts
    BY <1>4 DEF NoManData, GetManData, UnknownMachine, ClearAlerts
  <1>5. CASE ParseManData \/ LoadJoe
    BY <1>5 DEF ParseManData, LoadJoe
  <1>6. CASE Introduce
    BY <1>6 DEF Introduce
  <1>7. CASE StartHeartbeat \/ ConnectReturns
    BY <1>7 DEF StartHeartbeat, ConnectReturns
  <1>8. CASE EventStep
    BY <1>8 DEF EventStep, BleOnDisconnected, BleClearConnection, OnDisconnected
  <1>9. ASSUME NEW t \in {"app", "ev"}, DisconnectStep(t) PROVE Numbers'
    BY <1>9 DEF DisconnectStep, DisconnectCheck, DisconnectSet, DisconnectWrite,
                DisconnectAssert, DisconnectJoin, DisconnectReset, DisconnectDone,
                DisconnectReturns, WriteFarewell
  <1>10. CASE HeartbeatStep
    BY <1>10 DEF HeartbeatStep, HeartbeatLoop, HeartbeatCalls, StatusStep, ReadStatus,
                 StoreAlerts, HeartbeatSleep
  <1>11. CASE LinkLost \/ MakerTimesOut \/ HangUp \/ Deliver \/ Ended
    BY <1>11 DEF LinkLost, MakerTimesOut, HangUp, Ended, vars, DropLink,
                 MakerHangsUp, Deliver, DeliverDisconnect
  <1> HIDE DEF Labels, Numbers
  <1> QED
    BY <1>1, <1>2, <1>3, <1>4, <1>5, <1>6, <1>7, <1>8, <1>9, <1>10, <1>11
    DEF Next, CallStep, EvStep

LEMMA FlagsNext == ASSUME Flags, Next PROVE Flags'
  <1> USE DEF Flags, bleVars, gattVars, cmVars, Goto, At, Branch, Halt,
              TestConnected, UseConnection
  <1>1. CASE ClientStep \/ BeginConnect \/ RequestTest \/ RequestUse
             \/ StatusStep("app", "r_use", "idle")
    BY Zenon, <1>1 DEF ClientStep, ClientConnect, ClientDisconnect, ClientRequest,
                       BeginConnect, RequestTest, RequestUse, StatusStep, ReadStatus,
                       StoreAlerts
  <1>2. CASE BleConnectStep
    BY Zenon, <1>2 DEF BleConnectStep, BleConnect, BleDiscoverFails, BleDiscover,
                       BleRegister, BleConnected
  <1>3. CASE NoManData \/ GetManData \/ ParseManData \/ UnknownMachine \/ LoadJoe
             \/ ClearAlerts \/ Introduce \/ StartHeartbeat \/ ConnectReturns
    BY Zenon, <1>3 DEF NoManData, GetManData, ParseManData, UnknownMachine, LoadJoe,
                       ClearAlerts, Introduce, StartHeartbeat, ConnectReturns
  <1>4. CASE EventStep
    BY Zenon, <1>4 DEF EventStep, BleOnDisconnected, BleClearConnection, OnDisconnected
  <1>5. ASSUME NEW t \in {"app", "ev"}, DisconnectStep(t) PROVE Flags'
    BY Zenon, <1>5 DEF DisconnectStep, DisconnectCheck, DisconnectSet, DisconnectWrite,
                       DisconnectAssert, DisconnectJoin, DisconnectReset,
                       DisconnectDone, DisconnectReturns, WriteFarewell
  <1>6. CASE HeartbeatStep
    BY Zenon, <1>6 DEF HeartbeatStep, HeartbeatLoop, HeartbeatCalls, StatusStep, ReadStatus,
                       StoreAlerts, HeartbeatSleep
  <1>7. CASE LinkLost \/ MakerTimesOut \/ HangUp \/ Deliver \/ Ended
    BY Zenon, <1>7 DEF LinkLost, MakerTimesOut, HangUp, Ended, vars, DropLink,
                       MakerHangsUp, Deliver, DeliverDisconnect
  <1> HIDE DEF Flags
  <1> QED
    BY <1>1, <1>2, <1>3, <1>4, <1>5, <1>6, <1>7 DEF Next, CallStep, EvStep

LEMMA RestNext == ASSUME Numbers, Rest, Next PROVE Rest'
  <1> USE DEF Rest, Numbers, bleVars, gattVars, cmVars, Goto, At, Branch, Halt,
              TestConnected, UseConnection, Outcomes, States
  <1>1. CASE ClientStep \/ BeginConnect \/ RequestTest \/ RequestUse
    BY <1>1 DEF ClientStep, ClientConnect, ClientDisconnect, ClientRequest,
                BeginConnect, RequestTest, RequestUse
  <1>2. CASE BleConnectStep
    BY <1>2 DEF BleConnectStep, BleConnect, BleDiscoverFails, BleDiscover,
                BleRegister, BleConnected
  <1>3. CASE NoManData \/ GetManData \/ ParseManData \/ UnknownMachine \/ LoadJoe
             \/ ClearAlerts \/ Introduce
    BY <1>3 DEF NoManData, GetManData, ParseManData, UnknownMachine, LoadJoe,
                ClearAlerts, Introduce
  <1>4. CASE StartHeartbeat \/ ConnectReturns
    BY <1>4 DEF StartHeartbeat, ConnectReturns
  <1>5. CASE EventStep
    BY <1>5 DEF EventStep, BleOnDisconnected, BleClearConnection, OnDisconnected
  <1>6. ASSUME NEW t \in {"app", "ev"}, DisconnectStep(t) PROVE Rest'
    BY <1>6 DEF DisconnectStep, DisconnectCheck, DisconnectSet, DisconnectWrite,
                DisconnectAssert, DisconnectJoin, DisconnectReset, DisconnectDone,
                DisconnectReturns, WriteFarewell
  <1>7. ASSUME NEW t \in Readers, NEW from, NEW next, StatusStep(t, from, next)
        PROVE  Rest'
    <2>1. CASE ReadStatus(t, from)
      <3>1. PICK reported \in SUBSET Alerts:
              newAlerts' = [newAlerts EXCEPT ![t] = {joe} \X reported]
        BY <2>1 DEF ReadStatus
      <3>2. {joe} \X reported \in SUBSET ((0..MaxSessions) \X Alerts)
        OBVIOUS
      <3>3. newAlerts' \in [Readers -> SUBSET ((0..MaxSessions) \X Alerts)]
        BY Zenon, <3>1, <3>2
      <3> QED
        BY <2>1, <3>3 DEF ReadStatus
    <2>2. CASE StoreAlerts(t, next)
      <3>1. newAlerts[t] \in SUBSET ((0..MaxSessions) \X Alerts)
        OBVIOUS
      <3>2. newAlerts' = newAlerts \/ newAlerts' = [newAlerts EXCEPT ![t] = {}]
        BY <2>2 DEF StoreAlerts
      <3>3. newAlerts' \in [Readers -> SUBSET ((0..MaxSessions) \X Alerts)]
        BY Zenon, <3>2
      <3>4. alerts' \subseteq (0..MaxSessions) \X Alerts
        BY Zenon, <2>2, <3>1 DEF StoreAlerts
      <3> QED
        BY Zenon, <2>2, <3>3, <3>4 DEF StoreAlerts
    <2> QED
      BY <1>7, <2>1, <2>2 DEF StatusStep
  <1>8. CASE HeartbeatLoop \/ HeartbeatCalls \/ HeartbeatSleep
    BY <1>8 DEF HeartbeatLoop, HeartbeatCalls, HeartbeatSleep
  <1>9. CASE LinkLost \/ MakerTimesOut \/ HangUp \/ Deliver \/ Ended
    BY <1>9 DEF LinkLost, MakerTimesOut, HangUp, Ended, vars, DropLink,
                MakerHangsUp, Deliver, DeliverDisconnect
  <1> HIDE DEF Rest
  <1> QED
    BY <1>1, <1>2, <1>3, <1>4, <1>5, <1>6, <1>7, <1>8, <1>9
    DEF Next, CallStep, EvStep, HeartbeatStep, Readers

LEMMA TypedNext == ASSUME Typed, [Next]_vars PROVE Typed'
  <1>1. CASE Next
    BY <1>1, LabelsNext, NumbersNext, FlagsNext, RestNext DEF Typed
  <1>2. CASE UNCHANGED vars
    BY <1>2 DEF Typed, Labels, Numbers, Flags, Rest, vars, bleVars, gattVars, cmVars
  <1> QED
    BY <1>1, <1>2

(* Every variable keeps its type.                                          *)
THEOREM TypeCorrect == Spec => []TypeOK
  <1>1. Typed => TypeOK
    BY DEF Typed, Labels, Numbers, Flags, Rest, TypeOK, BleTypeOK
  <1> QED
    BY <1>1, TypedInit, TypedNext, PTL DEF Spec

-----------------------------------------------------------------------------
(* What parse_machine_status() leaves alone.                               *)

LEMMA ClientStatus ==
  ASSUME Labels, StatusStep("app", "r_use", "idle")
  PROVE  /\ UNCHANGED <<process, connection, connected, session, link, registered, signal,
                        farewell, state, heartbeatThread, manData, joe, ret, patient>>
         /\ pc["app"] \in {"r_use", "s_alerts", "s_insert"}
         /\ pc'["app"] \in {"idle", "s_alerts", "s_insert"}
         /\ pc'["ev"] = pc["ev"] /\ pc'["hb"] = pc["hb"]
  <1> USE DEF Labels, Threads, Goto, At, bleVars, gattVars
  <1>1. CASE ReadStatus("app", "r_use")
    BY <1>1 DEF ReadStatus
  <1>2. CASE StoreAlerts("app", "idle")
    BY <1>2 DEF StoreAlerts
  <1> QED
    BY <1>1, <1>2 DEF StatusStep

LEMMA HeartbeatStatus ==
  ASSUME Labels, StatusStep("hb", "h_status_use", "h_sleep")
  PROVE  /\ UNCHANGED <<process, connection, connected, session, link, registered, signal,
                        farewell, state, heartbeatThread, manData, joe, ret, patient>>
         /\ pc["hb"] \in {"h_status_use", "s_alerts", "s_insert"}
         /\ pc'["hb"] \in {"h_sleep", "s_alerts", "s_insert"}
         /\ pc'["ev"] = pc["ev"] /\ pc'["app"] = pc["app"]
  <1> USE DEF Labels, Threads, Goto, At, bleVars, gattVars
  <1>1. CASE ReadStatus("hb", "h_status_use")
    BY <1>1 DEF ReadStatus
  <1>2. CASE StoreAlerts("hb", "h_sleep")
    BY <1>2 DEF StoreAlerts
  <1> QED
    BY <1>1, <1>2 DEF StatusStep

-----------------------------------------------------------------------------
(* The heartbeat thread is never destroyed while it can be joined.         *)

LEMMA OwnedInit == Init => Owned
  BY DEF Init, Owned, HeartbeatOwned, Threads

LEMMA OwnedNext ==
  ASSUME Typed, Owned, Next PROVE Owned'
  <1> USE DEF Owned, HeartbeatOwned, Typed, Labels, Threads, StoreLabels,
              ConnectLabels, OnConnectedLabels, DisconnectLabels, bleVars, gattVars,
              cmVars, Goto, At, Branch, Halt, TestConnected, UseConnection
  <1>1. CASE ClientStep \/ BeginConnect
    BY <1>1 DEF ClientStep, ClientConnect, ClientDisconnect, ClientRequest,
                BeginConnect
  <1>2. CASE RequestTest \/ RequestUse \/ StatusStep("app", "r_use", "idle")
    BY <1>2 DEF RequestTest, RequestUse, StatusStep, ReadStatus, StoreAlerts
  <1>3. CASE BleConnectStep
    BY <1>3 DEF BleConnectStep, BleConnect, BleDiscoverFails, BleDiscover,
                BleRegister, BleConnected
  <1>4. CASE NoManData
    BY <1>4 DEF NoManData
  <1>5. CASE GetManData \/ ParseManData \/ UnknownMachine \/ LoadJoe \/ ClearAlerts
    BY <1>5 DEF GetManData, ParseManData, UnknownMachine, LoadJoe, ClearAlerts
  <1>6. CASE Introduce
    BY <1>6 DEF Introduce
  <1>7. CASE StartHeartbeat
    BY <1>7 DEF StartHeartbeat
  <1>8. CASE ConnectReturns
    BY <1>8 DEF ConnectReturns
  <1>9. CASE EventStep
    BY <1>9 DEF EventStep, BleOnDisconnected, BleClearConnection, OnDisconnected
  <1>10. ASSUME NEW t \in {"app", "ev"}, DisconnectStep(t) PROVE Owned'
    <2>1. CASE DisconnectCheck(t)
      BY <2>1 DEF DisconnectCheck, DisconnectReturns
    <2>2. CASE DisconnectSet(t)
      BY <2>2 DEF DisconnectSet
    <2>3. CASE DisconnectWrite(t)
      BY <2>3 DEF DisconnectWrite, WriteFarewell
    <2>4. CASE DisconnectAssert(t)
      BY <2>4 DEF DisconnectAssert
    <2>5. CASE DisconnectJoin(t)
      BY <2>5 DEF DisconnectJoin
    <2>6. CASE DisconnectReset(t)
      BY <2>6 DEF DisconnectReset
    <2>7. CASE DisconnectDone(t)
      BY <2>7 DEF DisconnectDone, DisconnectReturns
    <2> QED
      BY <1>10, <2>1, <2>2, <2>3, <2>4, <2>5, <2>6, <2>7 DEF DisconnectStep
  <1>11. CASE HeartbeatStep
    BY <1>11 DEF HeartbeatStep, HeartbeatLoop, HeartbeatCalls, StatusStep, ReadStatus,
                 StoreAlerts, HeartbeatSleep
  <1>12. CASE LinkLost \/ MakerTimesOut \/ HangUp \/ Deliver \/ Ended
    BY <1>12 DEF LinkLost, MakerTimesOut, HangUp, Ended, vars, DropLink,
                 MakerHangsUp, Deliver, DeliverDisconnect
  <1> HIDE DEF Owned
  <1> QED
    BY <1>1, <1>2, <1>3, <1>4, <1>5, <1>6, <1>7, <1>8, <1>9, <1>10, <1>11, <1>12
    DEF Next, CallStep, EvStep

LEMMA OwnedStep == ASSUME Typed, Owned, [Next]_vars PROVE Owned'
  <1>1. CASE UNCHANGED vars
    BY <1>1 DEF Owned, HeartbeatOwned, vars, cmVars
  <1> QED
    BY <1>1, OwnedNext

(* Of the two threads that may run disconnect() one joins the heartbeat    *)
(* thread and empties the optional, whatever the client does.              *)
THEOREM OwnedCorrect == Spec => []Owned
  BY TypedInit, TypedNext, OwnedInit, OwnedStep, PTL DEF Spec

(* heartbeatThread = nullopt never destroys a joinable std::thread.        *)
COROLLARY HeartbeatOwnedCorrect == Spec => []HeartbeatOwned
  <1>1. Owned => HeartbeatOwned
    BY DEF Owned
  <1> QED
    BY <1>1, OwnedCorrect, PTL

-----------------------------------------------------------------------------
(* The callback of a lost link belongs to the handle that it clears.       *)

LEMMA HandleInit == Init => HandleInOrder
  BY DEF Init, BleInit, HandleInOrder, CallbackClearsLostHandle, Threads

LEMMA HandleNext ==
  ASSUME Typed, HandleInOrder, Next PROVE HandleInOrder'
  <1> USE DEF HandleInOrder, CallbackClearsLostHandle, Typed, Labels, Numbers,
              Threads, StoreLabels,
              ConnectLabels, OnConnectedLabels, DisconnectLabels, bleVars, gattVars,
              cmVars, Goto, At, Branch, Halt, TestConnected, UseConnection
  <1>1. CASE ClientStep \/ BeginConnect
    BY <1>1 DEF ClientStep, ClientConnect, ClientDisconnect, ClientRequest,
                BeginConnect
  <1>2. CASE RequestTest \/ RequestUse \/ StatusStep("app", "r_use", "idle")
    BY <1>2 DEF RequestTest, RequestUse, StatusStep, ReadStatus, StoreAlerts
  <1>3. CASE BleConnectStep
    BY <1>3 DEF BleConnectStep, BleConnect, BleDiscoverFails, BleDiscover,
                BleRegister, BleConnected
  <1>4. CASE NoManData
    BY <1>4 DEF NoManData
  <1>5. CASE GetManData \/ ParseManData \/ UnknownMachine \/ LoadJoe \/ ClearAlerts
    BY <1>5 DEF GetManData, ParseManData, UnknownMachine, LoadJoe, ClearAlerts
  <1>6. CASE Introduce
    BY <1>6 DEF Introduce
  <1>7. CASE StartHeartbeat
    BY <1>7 DEF StartHeartbeat
  <1>8. CASE ConnectReturns
    BY <1>8 DEF ConnectReturns
  <1>9. CASE EventStep
    BY <1>9 DEF EventStep, BleOnDisconnected, BleClearConnection, OnDisconnected
  <1>10. ASSUME NEW t \in {"app", "ev"}, DisconnectStep(t) PROVE HandleInOrder'
    <2>1. CASE DisconnectCheck(t)
      BY <2>1 DEF DisconnectCheck, DisconnectReturns
    <2>2. CASE DisconnectSet(t)
      BY <2>2 DEF DisconnectSet
    <2>3. CASE DisconnectWrite(t)
      BY <2>3 DEF DisconnectWrite, WriteFarewell
    <2>4. CASE DisconnectAssert(t)
      BY <2>4 DEF DisconnectAssert
    <2>5. CASE DisconnectJoin(t)
      BY <2>5 DEF DisconnectJoin
    <2>6. CASE DisconnectReset(t)
      BY <2>6 DEF DisconnectReset
    <2>7. CASE DisconnectDone(t)
      BY <2>7 DEF DisconnectDone, DisconnectReturns
    <2> QED
      BY <1>10, <2>1, <2>2, <2>3, <2>4, <2>5, <2>6, <2>7 DEF DisconnectStep
  <1>11. CASE HeartbeatStep
    BY <1>11 DEF HeartbeatStep, HeartbeatLoop, HeartbeatCalls, StatusStep, ReadStatus,
                 StoreAlerts, HeartbeatSleep
  <1>12. CASE LinkLost \/ MakerTimesOut \/ HangUp \/ Deliver \/ Ended
    BY <1>12 DEF LinkLost, MakerTimesOut, HangUp, Ended, vars, DropLink,
                 MakerHangsUp, Deliver, DeliverDisconnect
  <1> HIDE DEF HandleInOrder
  <1> QED
    BY <1>1, <1>2, <1>3, <1>4, <1>5, <1>6, <1>7, <1>8, <1>9, <1>10, <1>11, <1>12
    DEF Next, CallStep, EvStep

LEMMA HandleStep == ASSUME Typed, HandleInOrder, [Next]_vars PROVE HandleInOrder'
  <1>1. CASE UNCHANGED vars
    BY <1>1 DEF HandleInOrder, CallbackClearsLostHandle, vars, bleVars, gattVars
  <1> QED
    BY <1>1, HandleNext

(* A callback is only queued for a handle whose link is down, and that     *)
(* handle stays until the callback has run, whatever the client does.      *)
THEOREM HandleInOrderCorrect == Spec => []HandleInOrder
  BY TypedInit, TypedNext, HandleInit, HandleStep, PTL DEF Spec

(* The callback never clears the handle of a connection opened since.      *)
COROLLARY CallbackClearsLostHandleCorrect == Spec => []CallbackClearsLostHandle
  <1>1. HandleInOrder => CallbackClearsLostHandle
    BY DEF HandleInOrder
  <1> QED
    BY <1>1, HandleInOrderCorrect, PTL

-----------------------------------------------------------------------------
(* With a patient client, the heartbeat thread is handed over from thread  *)
(* to thread.                                                              *)

LEMMA HandOverInit == Init => HandOver
  BY DEF Init, HandOver, OneHeartbeat, Connecting, Closing, ConnectLabels,
         OnConnectedLabels, Threads

LEMMA HandOverNext ==
  ASSUME Typed, Owned, HandOver, Next PROVE HandOver'
  <1> USE DEF HandOver, OneHeartbeat, Owned, HeartbeatOwned, Connecting, Closing, Typed,
              Labels, Threads, StoreLabels,
              ConnectLabels, OnConnectedLabels, DisconnectLabels, bleVars, gattVars,
              cmVars, Goto, At, Branch, Halt, TestConnected, UseConnection
  <1>1. CASE ClientStep \/ BeginConnect
    BY <1>1 DEF ClientStep, ClientConnect, ClientDisconnect, ClientRequest,
                BeginConnect
  <1>2. CASE RequestTest \/ RequestUse \/ StatusStep("app", "r_use", "idle")
    <2>1. CASE RequestTest \/ RequestUse
      BY <2>1 DEF RequestTest, RequestUse
    <2>2. CASE StatusStep("app", "r_use", "idle")
      BY <2>2, ClientStatus
    <2> QED
      BY <1>2, <2>1, <2>2
  <1>3. CASE BleConnectStep
    BY <1>3 DEF BleConnectStep, BleConnect, BleDiscoverFails, BleDiscover,
                BleRegister, BleConnected
  <1>4. CASE NoManData
    BY <1>4 DEF NoManData
  <1>5. CASE GetManData \/ ParseManData \/ UnknownMachine \/ LoadJoe \/ ClearAlerts
    BY <1>5 DEF GetManData, ParseManData, UnknownMachine, LoadJoe, ClearAlerts
  <1>6. CASE Introduce
    BY <1>6 DEF Introduce
  <1>7. CASE StartHeartbeat
    BY <1>7 DEF StartHeartbeat
  <1>8. CASE ConnectReturns
    BY <1>8 DEF ConnectReturns
  <1>9. CASE EventStep
    BY <1>9 DEF EventStep, BleOnDisconnected, BleClearConnection, OnDisconnected
  <1>10. ASSUME NEW t \in {"app", "ev"}, DisconnectStep(t) PROVE HandOver'
    <2>1. CASE DisconnectCheck(t)
      BY <2>1 DEF DisconnectCheck, DisconnectReturns
    <2>2. CASE DisconnectSet(t)
      BY <2>2 DEF DisconnectSet
    <2>3. CASE DisconnectWrite(t)
      BY <2>3 DEF DisconnectWrite, WriteFarewell
    <2>4. CASE DisconnectAssert(t)
      BY <2>4 DEF DisconnectAssert
    <2>5. CASE DisconnectJoin(t)
      BY <2>5 DEF DisconnectJoin
    <2>6. CASE DisconnectReset(t)
      BY <2>6 DEF DisconnectReset
    <2>7. CASE DisconnectDone(t)
      BY <2>7 DEF DisconnectDone, DisconnectReturns
    <2> QED
      BY <1>10, <2>1, <2>2, <2>3, <2>4, <2>5, <2>6, <2>7 DEF DisconnectStep
  <1>11. CASE HeartbeatStep
    <2>1. CASE HeartbeatLoop
      BY <2>1 DEF HeartbeatLoop
    <2>2. CASE HeartbeatCalls
      BY <2>2 DEF HeartbeatCalls
    <2>3. CASE HeartbeatSleep
      BY <2>3 DEF HeartbeatSleep
    <2>4. CASE StatusStep("hb", "h_status_use", "h_sleep")
      BY <2>4, HeartbeatStatus
    <2> QED
      BY <1>11, <2>1, <2>2, <2>3, <2>4 DEF HeartbeatStep
  <1>12. CASE LinkLost \/ MakerTimesOut \/ HangUp \/ Deliver \/ Ended
    BY <1>12 DEF LinkLost, MakerTimesOut, HangUp, Ended, vars, DropLink,
                 MakerHangsUp, Deliver, DeliverDisconnect
  <1> HIDE DEF HandOver
  <1> QED
    BY <1>1, <1>2, <1>3, <1>4, <1>5, <1>6, <1>7, <1>8, <1>9, <1>10, <1>11, <1>12
    DEF Next, CallStep, EvStep

LEMMA HandOverStep == ASSUME Typed, Owned, HandOver, [Next]_vars PROVE HandOver'
  <1>1. CASE UNCHANGED vars
    BY <1>1 DEF HandOver, OneHeartbeat, Connecting, vars, cmVars
  <1> QED
    BY <1>1, HandOverNext

(* While the client is patient, connect() and the two threads that run     *)
(* disconnect() hand the heartbeat thread over in a fixed order, although  *)
(* nothing locks it.                                                       *)
THEOREM HandOverCorrect == Spec => []HandOver
  <1>1. Init => Typed /\ Owned /\ HandOver
    BY TypedInit, OwnedInit, HandOverInit
  <1>2. Typed /\ Owned /\ HandOver /\ [Next]_vars => (Typed /\ Owned /\ HandOver)'
    BY TypedNext, OwnedStep, HandOverStep
  <1> QED
    BY <1>1, <1>2, PTL DEF Spec

(* assert(!heartbeatThread) in on_connected() never fails for a client     *)
(* that has only called connect() while get_state() said DISCONNECTED.     *)
COROLLARY OneHeartbeatCorrect == Spec => []OneHeartbeat
  <1>1. HandOver => OneHeartbeat
    BY DEF HandOver, OneHeartbeat
  <1> QED
    BY <1>1, HandOverCorrect, PTL

-----------------------------------------------------------------------------
(* The heartbeat only sees the data of its own connection.                 *)

LEMMA FilledInit == Init => FilledInOrder
  BY DEF Init, FilledInOrder, HeartbeatKeyed, AlertsAlive, OnConnectedLabels, Threads,
         Readers, StoreLabels

LEMMA FilledNext ==
  ASSUME Typed, Owned, HandOver, FilledInOrder, Next PROVE FilledInOrder'
  <1> USE DEF FilledInOrder, HeartbeatKeyed, AlertsAlive, Typed, Labels, Rest, Threads,
              Readers, StoreLabels, OnConnectedLabels, bleVars, gattVars, cmVars, Goto,
              At, Branch, Halt, TestConnected, UseConnection
  <1>1. CASE ClientStep \/ BeginConnect
    BY <1>1 DEF ClientStep, ClientConnect, ClientDisconnect, ClientRequest,
                BeginConnect
  <1>2. CASE RequestTest \/ RequestUse \/ StatusStep("app", "r_use", "idle")
    BY <1>2 DEF RequestTest, RequestUse, StatusStep, ReadStatus, StoreAlerts
  <1>3. CASE BleConnectStep
    \* A patient client only opens a handle when there is no heartbeat.
    <2>1. patient => pc["hb"] = "none"
      BY <1>3 DEF BleConnectStep, BleConnect, BleDiscoverFails, BleDiscover,
                  BleRegister, BleConnected, Owned, HeartbeatOwned, HandOver,
                  Connecting, ConnectLabels
    <2>2. UNCHANGED cmVars /\ pc'["hb"] = pc["hb"]
      BY <1>3 DEF BleConnectStep, BleConnect, BleDiscoverFails, BleDiscover,
                  BleRegister, BleConnected
    <2>3. pc'["app"] \in {"b_connect", "b_discover", "b_register", "b_connected",
                          "on_connected", "c_false"}
          /\ pc["app"] \notin {"p_alerts"} \cup StoreLabels
      BY <1>3 DEF BleConnectStep, BleConnect, BleDiscoverFails, BleDiscover,
                  BleRegister, BleConnected
    <2> QED
      BY <2>1, <2>2, <2>3
  <1>4. CASE NoManData
    BY <1>4 DEF NoManData
  <1>5. CASE GetManData \/ ParseManData \/ UnknownMachine \/ LoadJoe \/ ClearAlerts
    BY <1>5 DEF GetManData, ParseManData, UnknownMachine, LoadJoe, ClearAlerts
  <1>6. CASE Introduce
    BY <1>6 DEF Introduce
  <1>7. CASE StartHeartbeat
    BY <1>7 DEF StartHeartbeat, Owned, HeartbeatOwned
  <1>8. CASE ConnectReturns
    BY <1>8 DEF ConnectReturns
  <1>9. CASE EventStep
    BY <1>9 DEF EventStep, BleOnDisconnected, BleClearConnection, OnDisconnected
  <1>10. ASSUME NEW t \in {"app", "ev"}, DisconnectStep(t) PROVE FilledInOrder'
    <2>1. CASE DisconnectCheck(t)
      BY <2>1 DEF DisconnectCheck, DisconnectReturns
    <2>2. CASE DisconnectSet(t)
      BY <2>2 DEF DisconnectSet
    <2>3. CASE DisconnectWrite(t)
      BY <2>3 DEF DisconnectWrite, WriteFarewell
    <2>4. CASE DisconnectAssert(t)
      BY <2>4 DEF DisconnectAssert
    <2>5. CASE DisconnectJoin(t)
      BY <2>5 DEF DisconnectJoin
    <2>6. CASE DisconnectReset(t)
      BY <2>6 DEF DisconnectReset
    <2>7. CASE DisconnectDone(t)
      BY <2>7 DEF DisconnectDone, DisconnectReturns
    <2> QED
      BY <1>10, <2>1, <2>2, <2>3, <2>4, <2>5, <2>6, <2>7 DEF DisconnectStep
  <1>11. CASE HeartbeatStep
    BY <1>11 DEF HeartbeatStep, HeartbeatLoop, HeartbeatCalls, StatusStep, ReadStatus,
                 StoreAlerts, HeartbeatSleep
  <1>12. CASE LinkLost \/ MakerTimesOut \/ HangUp \/ Deliver \/ Ended
    BY <1>12 DEF LinkLost, MakerTimesOut, HangUp, Ended, vars, DropLink,
                 MakerHangsUp, Deliver, DeliverDisconnect
  <1> HIDE DEF FilledInOrder
  <1> QED
    BY <1>1, <1>2, <1>3, <1>4, <1>5, <1>6, <1>7, <1>8, <1>9, <1>10, <1>11, <1>12
    DEF Next, CallStep, EvStep

LEMMA FilledStep ==
  ASSUME Typed, Owned, HandOver, FilledInOrder, [Next]_vars PROVE FilledInOrder'
  <1>1. CASE UNCHANGED vars
    BY <1>1 DEF FilledInOrder, HeartbeatKeyed, AlertsAlive, vars, cmVars, gattVars
  <1> QED
    BY <1>1, FilledNext

(* on_connected() fills the key and the Joe before the heartbeat needs     *)
(* them, and while the client is patient nothing changes them as long as   *)
(* there is a heartbeat.                                                   *)
THEOREM FilledInOrderCorrect == Spec => []FilledInOrder
  <1> DEFINE I == Typed /\ Owned /\ HandOver /\ FilledInOrder
  <1>1. Init => I
    BY TypedInit, OwnedInit, HandOverInit, FilledInit
  <1>2. I /\ [Next]_vars => I'
    BY TypedNext, OwnedStep, HandOverStep, FilledStep
  <1> QED
    BY <1>1, <1>2, PTL DEF Spec

(* A patient client's heartbeat is encoded with the key of the connection  *)
(* it is sent on.                                                          *)
COROLLARY HeartbeatKeyedCorrect == Spec => []HeartbeatKeyed
  <1>1. FilledInOrder => HeartbeatKeyed
    BY DEF FilledInOrder, HeartbeatKeyed
  <1> QED
    BY <1>1, FilledInOrderCorrect, PTL

(* get_alerts() never hands a patient client a pointer into a Joe that has *)
(* been freed.                                                             *)
COROLLARY AlertsAliveCorrect == Spec => []AlertsAlive
  <1>1. FilledInOrder => AlertsAlive
    BY DEF FilledInOrder, AlertsAlive
  <1> QED
    BY <1>1, FilledInOrderCorrect, PTL

(* All of it together is inductive: two parts for any client, two for one  *)
(* that has been patient so far, all of them for any radio.                *)
THEOREM InductiveCorrect == Spec => []Inductive
  BY TypeCorrect, OwnedCorrect, HandOverCorrect, FilledInOrderCorrect,
     HandleInOrderCorrect, PTL
  DEF Inductive

-----------------------------------------------------------------------------
(* The client and the radio of Cautious: the callback of a lost link finds *)
(* the connection it was registered for, and nothing else disconnects.     *)

LEMMA OrderlyInit == Init => Orderly
  BY DEF Init, BleInit, Orderly, ClientInOrder, LinkInOrder, CallbackInOrder,
         BeatInOrder, AssertionsHold, Quiet, Noticing, Leaving, Closing, Threads,
         ConnectLabels, OnConnectedLabels, DisconnectLabels

LEMMA ClientInOrderNext ==
  ASSUME Cautious, Typed, Owned, HandOver, Orderly, Next PROVE ClientInOrder'
  <1> USE MaxSessionsAssumption, EnvironmentAssumption
      DEF Typed, Labels, Flags, Threads, Cautious, Orderly, ClientInOrder, LinkInOrder, Quiet,
              CallbackInOrder, BeatInOrder, Noticing, Leaving, Closing, Open, InConnect,
              ConnectLabels, OnConnectedLabels, DisconnectLabels,
              bleVars, gattVars, cmVars, Goto, At, Branch, Halt, TestConnected, UseConnection
  <1>1. CASE ClientStep \/ BeginConnect
    <2>1. CASE ClientConnect
      BY <2>1 DEF ClientConnect
    <2>2. CASE ClientDisconnect
      BY <2>2 DEF ClientDisconnect
    <2>3. CASE ClientRequest
      BY <2>3 DEF ClientRequest
    <2>4. CASE BeginConnect
      BY <2>4 DEF BeginConnect
    <2> QED
      BY <1>1, <2>1, <2>2, <2>3, <2>4 DEF ClientStep
  <1>2. CASE RequestTest \/ RequestUse \/ StatusStep("app", "r_use", "idle")
    <2>1. CASE RequestTest
      BY <2>1 DEF RequestTest
    <2>2. CASE RequestUse
      BY <2>2 DEF RequestUse
    <2>3. CASE StatusStep("app", "r_use", "idle")
      BY <2>3, ClientStatus
    <2> QED
      BY <1>2, <2>1, <2>2, <2>3
  <1>3. CASE BleConnectStep
    BY <1>3 DEF BleConnectStep, BleConnect, BleDiscoverFails, BleDiscover,
                BleRegister, BleConnected, Numbers
  <1>4. CASE NoManData
    BY <1>4 DEF NoManData
  <1>5. CASE GetManData \/ ParseManData \/ UnknownMachine \/ LoadJoe \/ ClearAlerts
    <2>1. CASE GetManData
      BY <2>1 DEF GetManData
    <2>2. CASE ParseManData
      BY <2>2 DEF ParseManData
    <2>3. CASE UnknownMachine
      BY <2>3 DEF UnknownMachine
    <2>4. CASE LoadJoe
      BY <2>4 DEF LoadJoe
    <2>5. CASE ClearAlerts
      BY <2>5 DEF ClearAlerts
    <2> QED
      BY <1>5, <2>1, <2>2, <2>3, <2>4, <2>5
  <1>6. CASE Introduce
    BY <1>6 DEF Introduce
  <1>7. CASE StartHeartbeat
    BY <1>7 DEF StartHeartbeat
  <1>8. CASE ConnectReturns
    BY <1>8 DEF ConnectReturns
  <1>9. CASE EventStep
    <2>1. CASE BleOnDisconnected /\ UNCHANGED cmVars
      BY <2>1 DEF BleOnDisconnected
    <2>2. CASE BleClearConnection /\ UNCHANGED cmVars
      BY <2>2 DEF BleClearConnection
    <2>3. CASE OnDisconnected
      BY <2>3 DEF OnDisconnected
    <2> QED
      BY <1>9, <2>1, <2>2, <2>3 DEF EventStep
  <1>10. ASSUME NEW t \in {"app", "ev"}, DisconnectStep(t) PROVE ClientInOrder'
    <2>1. CASE DisconnectCheck(t)
      BY <2>1 DEF DisconnectCheck, DisconnectReturns
    <2>2. CASE DisconnectSet(t)
      BY <2>2 DEF DisconnectSet
    <2>3. CASE DisconnectWrite(t)
      BY <2>3 DEF DisconnectWrite, WriteFarewell
    <2>4. CASE DisconnectAssert(t)
      BY <2>4 DEF DisconnectAssert
    <2>5. CASE DisconnectJoin(t)
      BY <2>5 DEF DisconnectJoin
    <2>6. CASE DisconnectReset(t)
      BY <2>6 DEF DisconnectReset
    <2>7. CASE DisconnectDone(t)
      BY <2>7 DEF DisconnectDone, DisconnectReturns
    <2> QED
      BY <1>10, <2>1, <2>2, <2>3, <2>4, <2>5, <2>6, <2>7 DEF DisconnectStep
  <1>11. CASE HeartbeatStep
    <2>1. CASE HeartbeatLoop
      BY <2>1 DEF HeartbeatLoop
    <2>2. CASE HeartbeatCalls
      BY <2>2 DEF HeartbeatCalls
    <2>3. CASE HeartbeatSleep
      BY <2>3 DEF HeartbeatSleep
    <2>4. CASE StatusStep("hb", "h_status_use", "h_sleep")
      BY <2>4, HeartbeatStatus
    <2> QED
      BY <1>11, <2>1, <2>2, <2>3, <2>4 DEF HeartbeatStep
  <1>12. CASE LinkLost \/ MakerTimesOut \/ HangUp \/ Deliver \/ Ended
    BY <1>12 DEF LinkLost, MakerTimesOut, HangUp, Ended, vars, DropLink,
                 MakerHangsUp, Deliver, DeliverDisconnect
  <1> HIDE DEF ClientInOrder
  <1> QED
    BY <1>1, <1>2, <1>3, <1>4, <1>5, <1>6, <1>7, <1>8, <1>9, <1>10, <1>11, <1>12
    DEF Next, CallStep, EvStep

LEMMA LinkInOrderNext ==
  ASSUME Cautious, Typed, Owned, HandOver, Orderly, Next PROVE LinkInOrder'
  <1> USE MaxSessionsAssumption, EnvironmentAssumption
      DEF Typed, Labels, Flags, Threads, Cautious, Orderly, ClientInOrder, LinkInOrder, Quiet,
              CallbackInOrder, BeatInOrder, Noticing, Leaving, Closing, Open, InConnect,
              ConnectLabels, OnConnectedLabels, DisconnectLabels,
              bleVars, gattVars, cmVars, Goto, At, Branch, Halt, TestConnected, UseConnection
  <1>1. CASE ClientStep \/ BeginConnect
    <2>1. CASE ClientConnect
      BY <2>1 DEF ClientConnect
    <2>2. CASE ClientDisconnect
      BY <2>2 DEF ClientDisconnect
    <2>3. CASE ClientRequest
      BY <2>3 DEF ClientRequest
    <2>4. CASE BeginConnect
      BY <2>4 DEF BeginConnect
    <2> QED
      BY <1>1, <2>1, <2>2, <2>3, <2>4 DEF ClientStep
  <1>2. CASE RequestTest \/ RequestUse \/ StatusStep("app", "r_use", "idle")
    <2>1. CASE RequestTest
      BY <2>1 DEF RequestTest
    <2>2. CASE RequestUse
      BY <2>2 DEF RequestUse
    <2>3. CASE StatusStep("app", "r_use", "idle")
      BY <2>3, ClientStatus
    <2> QED
      BY <1>2, <2>1, <2>2, <2>3
  <1>3. CASE BleConnectStep
    <2>1. CASE BleConnect
      BY <1>3, <2>1 DEF BleConnectStep, BleConnect, Numbers
    <2>2. CASE BleDiscoverFails
      BY <1>3, <2>2 DEF BleConnectStep, BleDiscoverFails
    <2>3. CASE BleDiscover
      BY <1>3, <2>3 DEF BleConnectStep, BleDiscover
    <2>4. CASE BleRegister
      BY <1>3, <2>4 DEF BleConnectStep, BleRegister
    <2>5. CASE BleConnected
      BY <1>3, <2>5 DEF BleConnectStep, BleConnected
    <2> QED
      BY <1>3, <2>1, <2>2, <2>3, <2>4, <2>5 DEF BleConnectStep
  <1>4. CASE NoManData
    BY <1>4 DEF NoManData
  <1>5. CASE GetManData \/ ParseManData \/ UnknownMachine \/ LoadJoe \/ ClearAlerts
    <2>1. CASE GetManData
      BY <2>1 DEF GetManData
    <2>2. CASE ParseManData
      BY <2>2 DEF ParseManData
    <2>3. CASE UnknownMachine
      BY <2>3 DEF UnknownMachine
    <2>4. CASE LoadJoe
      BY <2>4 DEF LoadJoe
    <2>5. CASE ClearAlerts
      BY <2>5 DEF ClearAlerts
    <2> QED
      BY <1>5, <2>1, <2>2, <2>3, <2>4, <2>5
  <1>6. CASE Introduce
    BY <1>6 DEF Introduce
  <1>7. CASE StartHeartbeat
    <2>1. CASE heartbeatThread
      BY <1>7, <2>1 DEF StartHeartbeat
    <2>2. CASE ~heartbeatThread
      <3>1. /\ pc["app"] = "o_thread" /\ pc["app"]' = "c_true"
            /\ pc["ev"]' = pc["ev"]
            /\ UNCHANGED <<state, bleVars, gattVars>>
        BY <1>7, <2>2 DEF StartHeartbeat
      <3> QED
        BY <3>1
    <2> QED
      BY <2>1, <2>2
  <1>8. CASE ConnectReturns
    BY <1>8 DEF ConnectReturns
  <1>9. CASE EventStep
    <2>1. CASE BleOnDisconnected /\ UNCHANGED cmVars
      BY <2>1 DEF BleOnDisconnected
    <2>2. CASE BleClearConnection /\ UNCHANGED cmVars
      BY <2>2 DEF BleClearConnection
    <2>3. CASE OnDisconnected
      BY <2>3 DEF OnDisconnected
    <2> QED
      BY <1>9, <2>1, <2>2, <2>3 DEF EventStep
  <1>10. ASSUME NEW t \in {"app", "ev"}, DisconnectStep(t) PROVE LinkInOrder'
    <2>1. CASE DisconnectCheck(t)
      BY <2>1 DEF DisconnectCheck, DisconnectReturns
    <2>2. CASE DisconnectSet(t)
      BY <2>2 DEF DisconnectSet
    <2>3. CASE DisconnectWrite(t)
      BY <2>3 DEF DisconnectWrite, WriteFarewell
    <2>4. CASE DisconnectAssert(t)
      BY <2>4 DEF DisconnectAssert
    <2>5. CASE DisconnectJoin(t)
      BY <2>5 DEF DisconnectJoin
    <2>6. CASE DisconnectReset(t)
      BY <2>6 DEF DisconnectReset
    <2>7. CASE DisconnectDone(t)
      BY <2>7 DEF DisconnectDone, DisconnectReturns
    <2> QED
      BY <1>10, <2>1, <2>2, <2>3, <2>4, <2>5, <2>6, <2>7 DEF DisconnectStep
  <1>11. CASE HeartbeatStep
    <2>1. CASE HeartbeatLoop
      BY <2>1 DEF HeartbeatLoop
    <2>2. CASE HeartbeatCalls
      BY <2>2 DEF HeartbeatCalls
    <2>3. CASE HeartbeatSleep
      BY <2>3 DEF HeartbeatSleep
    <2>4. CASE StatusStep("hb", "h_status_use", "h_sleep")
      BY <2>4, HeartbeatStatus
    <2> QED
      BY <1>11, <2>1, <2>2, <2>3, <2>4 DEF HeartbeatStep
  <1>12. CASE LinkLost
    BY <1>12 DEF LinkLost, DropLink
  <1>13. CASE MakerTimesOut \/ HangUp
    <2>1. FALSE
      BY <1>13 DEF MakerTimesOut, HangUp, DropLink, MakerHangsUp
    <2> QED
      BY <2>1
  <1>14. CASE Deliver
    BY <1>14 DEF Deliver, DeliverDisconnect
  <1>15. CASE Ended
    BY <1>15 DEF Ended, vars
  <1> HIDE DEF LinkInOrder
  <1> QED
    BY <1>1, <1>2, <1>3, <1>4, <1>5, <1>6, <1>7, <1>8, <1>9, <1>10, <1>11, <1>12,
       <1>13, <1>14, <1>15
    DEF Next, CallStep, EvStep

LEMMA CallbackInOrderNext ==
  ASSUME Cautious, Typed, Owned, HandOver, Orderly, Next PROVE CallbackInOrder'
  <1> USE MaxSessionsAssumption, EnvironmentAssumption
      DEF Typed, Labels, Flags, Threads, Cautious, Orderly, ClientInOrder, LinkInOrder, Quiet,
              CallbackInOrder, BeatInOrder, Noticing, Leaving, Closing, Open, InConnect,
              ConnectLabels, OnConnectedLabels, DisconnectLabels,
              bleVars, gattVars, cmVars, Goto, At, Branch, Halt, TestConnected, UseConnection
  <1>1. CASE ClientStep \/ BeginConnect
    <2>1. CASE ClientConnect
      BY <2>1 DEF ClientConnect
    <2>2. CASE ClientDisconnect
      BY <2>2 DEF ClientDisconnect
    <2>3. CASE ClientRequest
      BY <2>3 DEF ClientRequest
    <2>4. CASE BeginConnect
      BY <2>4 DEF BeginConnect
    <2> QED
      BY <1>1, <2>1, <2>2, <2>3, <2>4 DEF ClientStep
  <1>2. CASE RequestTest \/ RequestUse \/ StatusStep("app", "r_use", "idle")
    <2>1. CASE RequestTest
      BY <2>1 DEF RequestTest
    <2>2. CASE RequestUse
      BY <2>2 DEF RequestUse
    <2>3. CASE StatusStep("app", "r_use", "idle")
      BY <2>3, ClientStatus
    <2> QED
      BY <1>2, <2>1, <2>2, <2>3
  <1>3. CASE BleConnectStep
    BY <1>3 DEF BleConnectStep, BleConnect, BleDiscoverFails, BleDiscover,
                BleRegister, BleConnected, Numbers
  <1>4. CASE NoManData
    BY <1>4 DEF NoManData
  <1>5. CASE GetManData \/ ParseManData \/ UnknownMachine \/ LoadJoe \/ ClearAlerts
    <2>1. CASE GetManData
      BY <2>1 DEF GetManData
    <2>2. CASE ParseManData
      BY <2>2 DEF ParseManData
    <2>3. CASE UnknownMachine
      BY <2>3 DEF UnknownMachine
    <2>4. CASE LoadJoe
      BY <2>4 DEF LoadJoe
    <2>5. CASE ClearAlerts
      BY <2>5 DEF ClearAlerts
    <2> QED
      BY <1>5, <2>1, <2>2, <2>3, <2>4, <2>5
  <1>6. CASE Introduce
    BY <1>6 DEF Introduce
  <1>7. CASE StartHeartbeat
    <2>1. CASE heartbeatThread
      BY <1>7, <2>1 DEF StartHeartbeat
    <2>2. CASE ~heartbeatThread
      <3>1. /\ pc["app"] = "o_thread" /\ pc["app"]' = "c_true"
            /\ pc["ev"]' = pc["ev"]
            /\ UNCHANGED <<state, bleVars, gattVars>>
        BY <1>7, <2>2 DEF StartHeartbeat
      <3> QED
        BY <3>1
    <2> QED
      BY <2>1, <2>2
  <1>8. CASE ConnectReturns
    BY <1>8 DEF ConnectReturns
  <1>9. CASE EventStep
    <2>1. CASE BleOnDisconnected /\ UNCHANGED cmVars
      BY <2>1 DEF BleOnDisconnected
    <2>2. CASE BleClearConnection /\ UNCHANGED cmVars
      BY <2>2 DEF BleClearConnection
    <2>3. CASE OnDisconnected
      BY <2>3 DEF OnDisconnected
    <2> QED
      BY <1>9, <2>1, <2>2, <2>3 DEF EventStep
  <1>10. ASSUME NEW t \in {"app", "ev"}, DisconnectStep(t) PROVE CallbackInOrder'
    <2>1. CASE DisconnectCheck(t)
      BY <2>1 DEF DisconnectCheck, DisconnectReturns
    <2>2. CASE DisconnectSet(t)
      BY <2>2 DEF DisconnectSet
    <2>3. CASE DisconnectWrite(t)
      <3>1. t = "ev" /\ ~connected
        BY <2>3 DEF DisconnectWrite, WriteFarewell
      <3>2. Goto("ev", "d_write", "d_assert") /\ UNCHANGED <<bleVars, gattVars, cmVars>>
        BY <2>3, <3>1 DEF DisconnectWrite, WriteFarewell
      <3> QED
        BY <3>1, <3>2
    <2>4. CASE DisconnectAssert(t)
      BY <2>4 DEF DisconnectAssert
    <2>5. CASE DisconnectJoin(t)
      BY <2>5 DEF DisconnectJoin
    <2>6. CASE DisconnectReset(t)
      BY <2>6 DEF DisconnectReset
    <2>7. CASE DisconnectDone(t)
      BY <2>7 DEF DisconnectDone, DisconnectReturns
    <2> QED
      BY <1>10, <2>1, <2>2, <2>3, <2>4, <2>5, <2>6, <2>7 DEF DisconnectStep
  <1>11. CASE HeartbeatStep
    <2>1. CASE HeartbeatLoop
      BY <2>1 DEF HeartbeatLoop
    <2>2. CASE HeartbeatCalls
      BY <2>2 DEF HeartbeatCalls
    <2>3. CASE HeartbeatSleep
      BY <2>3 DEF HeartbeatSleep
    <2>4. CASE StatusStep("hb", "h_status_use", "h_sleep")
      BY <2>4, HeartbeatStatus
    <2> QED
      BY <1>11, <2>1, <2>2, <2>3, <2>4 DEF HeartbeatStep
  <1>12. CASE LinkLost
    BY <1>12 DEF LinkLost, DropLink
  <1>13. CASE MakerTimesOut \/ HangUp
    <2>1. FALSE
      BY <1>13 DEF MakerTimesOut, HangUp, DropLink, MakerHangsUp
    <2> QED
      BY <2>1
  <1>14. CASE Deliver
    BY <1>14 DEF Deliver, DeliverDisconnect
  <1>15. CASE Ended
    BY <1>15 DEF Ended, vars
  <1> HIDE DEF CallbackInOrder
  <1> QED
    BY <1>1, <1>2, <1>3, <1>4, <1>5, <1>6, <1>7, <1>8, <1>9, <1>10, <1>11, <1>12,
       <1>13, <1>14, <1>15
    DEF Next, CallStep, EvStep

LEMMA BeatInOrderNext ==
  ASSUME Cautious, Typed, Owned, HandOver, Orderly, Next PROVE BeatInOrder'
  <1> USE MaxSessionsAssumption, EnvironmentAssumption
      DEF Typed, Labels, Flags, Threads, Cautious, Orderly, ClientInOrder, LinkInOrder, Quiet,
              CallbackInOrder, BeatInOrder, Noticing, Leaving, Closing, Open, InConnect,
              ConnectLabels, OnConnectedLabels, DisconnectLabels,
              bleVars, gattVars, cmVars, Goto, At, Branch, Halt, TestConnected, UseConnection
  <1>1. CASE ClientStep \/ BeginConnect
    <2>1. CASE ClientConnect
      BY <2>1 DEF ClientConnect
    <2>2. CASE ClientDisconnect
      BY <2>2 DEF ClientDisconnect
    <2>3. CASE ClientRequest
      BY <2>3 DEF ClientRequest
    <2>4. CASE BeginConnect
      BY <2>4 DEF BeginConnect
    <2> QED
      BY <1>1, <2>1, <2>2, <2>3, <2>4 DEF ClientStep
  <1>2. CASE RequestTest \/ RequestUse \/ StatusStep("app", "r_use", "idle")
    <2>1. CASE RequestTest
      BY <2>1 DEF RequestTest
    <2>2. CASE RequestUse
      BY <2>2 DEF RequestUse
    <2>3. CASE StatusStep("app", "r_use", "idle")
      BY <2>3, ClientStatus
    <2> QED
      BY <1>2, <2>1, <2>2, <2>3
  <1>3. CASE BleConnectStep
    BY <1>3 DEF BleConnectStep, BleConnect, BleDiscoverFails, BleDiscover,
                BleRegister, BleConnected, Numbers
  <1>4. CASE NoManData
    BY <1>4 DEF NoManData
  <1>5. CASE GetManData \/ ParseManData \/ UnknownMachine \/ LoadJoe \/ ClearAlerts
    <2>1. CASE GetManData
      BY <2>1 DEF GetManData
    <2>2. CASE ParseManData
      BY <2>2 DEF ParseManData
    <2>3. CASE UnknownMachine
      BY <2>3 DEF UnknownMachine
    <2>4. CASE LoadJoe
      BY <2>4 DEF LoadJoe
    <2>5. CASE ClearAlerts
      BY <2>5 DEF ClearAlerts
    <2> QED
      BY <1>5, <2>1, <2>2, <2>3, <2>4, <2>5
  <1>6. CASE Introduce
    BY <1>6 DEF Introduce
  <1>7. CASE StartHeartbeat
    BY <1>7 DEF StartHeartbeat
  <1>8. CASE ConnectReturns
    BY <1>8 DEF ConnectReturns
  <1>9. CASE EventStep
    <2>1. CASE BleOnDisconnected /\ UNCHANGED cmVars
      BY <2>1 DEF BleOnDisconnected
    <2>2. CASE BleClearConnection /\ UNCHANGED cmVars
      BY <2>2 DEF BleClearConnection
    <2>3. CASE OnDisconnected
      BY <2>3 DEF OnDisconnected
    <2> QED
      BY <1>9, <2>1, <2>2, <2>3 DEF EventStep
  <1>10. ASSUME NEW t \in {"app", "ev"}, DisconnectStep(t) PROVE BeatInOrder'
    <2>1. CASE DisconnectCheck(t)
      BY <2>1 DEF DisconnectCheck, DisconnectReturns
    <2>2. CASE DisconnectSet(t)
      BY <2>2 DEF DisconnectSet
    <2>3. CASE DisconnectWrite(t)
      <3>1. t = "ev" /\ ~connected
        BY <2>3 DEF DisconnectWrite, WriteFarewell
      <3>2. Goto("ev", "d_write", "d_assert") /\ UNCHANGED <<bleVars, gattVars, cmVars>>
        BY <2>3, <3>1 DEF DisconnectWrite, WriteFarewell
      <3> QED
        BY <3>1, <3>2
    <2>4. CASE DisconnectAssert(t)
      BY <2>4 DEF DisconnectAssert
    <2>5. CASE DisconnectJoin(t)
      BY <2>5 DEF DisconnectJoin
    <2>6. CASE DisconnectReset(t)
      BY <2>6 DEF DisconnectReset
    <2>7. CASE DisconnectDone(t)
      BY <2>7 DEF DisconnectDone, DisconnectReturns
    <2> QED
      BY <1>10, <2>1, <2>2, <2>3, <2>4, <2>5, <2>6, <2>7 DEF DisconnectStep
  <1>11. CASE HeartbeatStep
    <2>1. CASE HeartbeatLoop
      BY <2>1 DEF HeartbeatLoop
    <2>2. CASE HeartbeatCalls
      BY <2>2 DEF HeartbeatCalls
    <2>3. CASE HeartbeatSleep
      BY <2>3 DEF HeartbeatSleep
    <2>4. CASE StatusStep("hb", "h_status_use", "h_sleep")
      BY <2>4, HeartbeatStatus
    <2> QED
      BY <1>11, <2>1, <2>2, <2>3, <2>4 DEF HeartbeatStep
  <1>12. CASE LinkLost \/ MakerTimesOut \/ HangUp \/ Deliver \/ Ended
    BY <1>12 DEF LinkLost, MakerTimesOut, HangUp, Ended, vars, DropLink,
                 MakerHangsUp, Deliver, DeliverDisconnect
  <1> HIDE DEF BeatInOrder
  <1> QED
    BY <1>1, <1>2, <1>3, <1>4, <1>5, <1>6, <1>7, <1>8, <1>9, <1>10, <1>11, <1>12
    DEF Next, CallStep, EvStep

LEMMA AssertionsNext ==
  ASSUME Typed, Owned, HandOver, Orderly, Next PROVE AssertionsHold'
  <1> USE DEF AssertionsHold, Orderly, bleVars, gattVars, cmVars, Goto, At, Branch, Halt,
              TestConnected, UseConnection
  <1>1. CASE ClientStep \/ BeginConnect \/ RequestTest \/ RequestUse
             \/ StatusStep("app", "r_use", "idle")
    BY <1>1 DEF ClientStep, ClientConnect, ClientDisconnect, ClientRequest,
                BeginConnect, RequestTest, RequestUse, StatusStep, ReadStatus, StoreAlerts
  <1>2. CASE BleConnectStep
    \* No handle is left when the next one is opened.
    BY <1>2 DEF BleConnectStep, BleConnect, BleDiscoverFails, BleDiscover,
                BleRegister, BleConnected, LinkInOrder, Quiet
  <1>3. CASE NoManData \/ GetManData \/ ParseManData \/ UnknownMachine \/ LoadJoe
             \/ ClearAlerts \/ Introduce
    BY <1>3 DEF NoManData, GetManData, ParseManData, UnknownMachine, LoadJoe,
                ClearAlerts, Introduce
  <1>4. CASE StartHeartbeat
    BY <1>4 DEF StartHeartbeat, HandOver, Connecting, ClientInOrder, ConnectLabels,
                OnConnectedLabels
  <1>5. CASE ConnectReturns
    BY <1>5 DEF ConnectReturns
  <1>6. CASE EventStep
    BY <1>6 DEF EventStep, BleOnDisconnected, BleClearConnection, OnDisconnected
  <1>7. ASSUME NEW t \in {"app", "ev"}, DisconnectStep(t) PROVE AssertionsHold'
    <2>1. CASE DisconnectAssert(t) \/ DisconnectJoin(t)
      \* Only the event thread comes here, and the heartbeat is still there.
      BY <2>1 DEF DisconnectAssert, DisconnectJoin, ClientInOrder, BeatInOrder,
                  DisconnectLabels, Owned, HeartbeatOwned
    <2>2. CASE DisconnectCheck(t) \/ DisconnectSet(t) \/ DisconnectWrite(t)
               \/ DisconnectReset(t) \/ DisconnectDone(t)
      BY <2>2 DEF DisconnectCheck, DisconnectSet, DisconnectWrite, DisconnectReset,
                  DisconnectDone, DisconnectReturns, WriteFarewell
    <2> QED
      BY <1>7, <2>1, <2>2 DEF DisconnectStep
  <1>8. CASE HeartbeatStep
    BY <1>8 DEF HeartbeatStep, HeartbeatLoop, HeartbeatCalls, StatusStep, ReadStatus,
                StoreAlerts, HeartbeatSleep
  <1>9. CASE LinkLost \/ MakerTimesOut \/ HangUp \/ Deliver \/ Ended
    BY <1>9 DEF LinkLost, MakerTimesOut, HangUp, Ended, vars, DropLink,
                MakerHangsUp, Deliver, DeliverDisconnect
  <1> HIDE DEF AssertionsHold
  <1> QED
    BY <1>1, <1>2, <1>3, <1>4, <1>5, <1>6, <1>7, <1>8, <1>9 DEF Next, CallStep, EvStep

LEMMA OrderlyStep ==
  ASSUME Cautious, Typed, Owned, HandOver, Orderly, [Next]_vars PROVE Orderly'
  <1>1. CASE Next
    <2>1. ClientInOrder' /\ LinkInOrder' /\ CallbackInOrder' /\ BeatInOrder'
      BY <1>1, ClientInOrderNext, LinkInOrderNext, CallbackInOrderNext, BeatInOrderNext
    <2>2. AssertionsHold'
      BY <1>1, AssertionsNext
    <2> QED
      BY <2>1, <2>2 DEF Orderly
  <1>2. CASE UNCHANGED vars
    BY <1>2 DEF Orderly, ClientInOrder, LinkInOrder, CallbackInOrder, BeatInOrder,
                AssertionsHold, Quiet, Open, vars, bleVars, gattVars, cmVars
  <1> QED
    BY <1>1, <1>2

(* The order in which a connection is built up, its loss is noticed and it *)
(* is taken down again.                                                    *)
THEOREM OrderlyCorrect == ASSUME Cautious PROVE Spec => []Orderly
  <1> DEFINE I == Typed /\ Owned /\ HandOver /\ Orderly
  <1>1. Init => I
    BY TypedInit, OwnedInit, HandOverInit, OrderlyInit
  <1>2. I /\ [Next]_vars => I'
    BY Cautious, TypedNext, OwnedStep, HandOverStep, OrderlyStep
  <1> QED
    BY <1>1, <1>2, PTL DEF Spec

(* A coffee maker that is announced as connected is kept awake.            *)
COROLLARY ConnectedIsKeptAwakeCorrect ==
  ASSUME Cautious PROVE Spec => []ConnectedIsKeptAwake
  <1>1. Orderly => ConnectedIsKeptAwake
    BY DEF Orderly, BeatInOrder, ConnectedIsKeptAwake
  <1> QED
    BY Cautious, <1>1, OrderlyCorrect, PTL

(* No assertion of connect() or disconnect() fails, and disconnect() joins *)
(* a thread that is there.                                                 *)
COROLLARY AssertionsHoldCorrect == ASSUME Cautious PROVE Spec => []AssertionsHold
  <1>1. Orderly => AssertionsHold
    BY DEF Orderly
  <1> QED
    BY Cautious, <1>1, OrderlyCorrect, PTL

-----------------------------------------------------------------------------
(* The connection implements ConnectionLifecycle.                          *)

LEMMA LifecycleInit == Init => Lifecycle!Init
  BY DEF Init, Lifecycle!Init, Threads

LEMMA LifecycleStep ==
  ASSUME Typed, Owned, HandOver, Orderly, [Next]_vars
  PROVE  [Lifecycle!Next]_<<state, pc["hb"] # "none">>
  <1> DEFINE Stutter == UNCHANGED <<state, pc["hb"] # "none">>
  <1> SUFFICES Lifecycle!Next \/ Stutter
    OBVIOUS
  <1> USE DEF Typed, Labels, Threads, Orderly, bleVars, gattVars, cmVars, Goto, At,
              Branch, Halt, TestConnected, UseConnection
  <1>1. CASE ClientStep \/ BeginConnect
    BY <1>1 DEF ClientStep, ClientConnect, ClientDisconnect, ClientRequest,
                BeginConnect, ClientInOrder, BeatInOrder, ConnectLabels,
                Lifecycle!Next, Lifecycle!Begin
  <1>2. CASE RequestTest \/ RequestUse \/ Introduce \/ StatusStep("app", "r_use", "idle")
    BY <1>2 DEF RequestTest, RequestUse, Introduce, StatusStep, ReadStatus, StoreAlerts
  <1>3. CASE BleConnectStep
    BY <1>3 DEF BleConnectStep, BleConnect, BleDiscoverFails, BleDiscover,
                BleRegister, BleConnected
  <1>4. CASE NoManData \/ GetManData \/ ParseManData \/ UnknownMachine \/ LoadJoe
             \/ ClearAlerts
    BY <1>4 DEF NoManData, GetManData, ParseManData, UnknownMachine, LoadJoe,
                ClearAlerts
  <1>5. CASE StartHeartbeat
    BY <1>5 DEF StartHeartbeat, ClientInOrder, BeatInOrder, ConnectLabels,
                OnConnectedLabels, Lifecycle!Next, Lifecycle!StartBeating
  <1>6. CASE ConnectReturns
    BY <1>6 DEF ConnectReturns, ClientInOrder, BeatInOrder, ConnectLabels,
                Lifecycle!Next, Lifecycle!Announce, Lifecycle!Fail
  <1>7. CASE EventStep
    BY <1>7 DEF EventStep, BleOnDisconnected, BleClearConnection, OnDisconnected
  <1>8. ASSUME NEW t \in {"app", "ev"}, DisconnectStep(t)
        PROVE  Lifecycle!Next \/ Stutter
    <2>1. CASE DisconnectCheck(t)
      BY <2>1 DEF DisconnectCheck, DisconnectReturns
    <2>2. CASE DisconnectSet(t)
      BY <2>2 DEF DisconnectSet, ClientInOrder, CallbackInOrder, DisconnectLabels,
                  Noticing, Lifecycle!Next, Lifecycle!BeginClose
    <2>3. CASE DisconnectWrite(t)
      BY <2>3 DEF DisconnectWrite, WriteFarewell
    <2>4. CASE DisconnectAssert(t) \/ DisconnectReset(t)
      BY <2>4 DEF DisconnectAssert, DisconnectReset
    <2>5. CASE DisconnectJoin(t)
      BY <2>5 DEF DisconnectJoin, ClientInOrder, CallbackInOrder, DisconnectLabels,
                  Leaving, Lifecycle!Next, Lifecycle!StopBeating
    <2>6. CASE DisconnectDone(t)
      BY <2>6 DEF DisconnectDone, DisconnectReturns, ClientInOrder, CallbackInOrder,
                  BeatInOrder, DisconnectLabels, Leaving, Closing,
                  Lifecycle!Next, Lifecycle!Close
    <2> QED
      BY <1>8, <2>1, <2>2, <2>3, <2>4, <2>5, <2>6 DEF DisconnectStep
  <1>9. CASE HeartbeatStep
    BY <1>9 DEF HeartbeatStep, HeartbeatLoop, HeartbeatCalls, StatusStep, ReadStatus,
                StoreAlerts, HeartbeatSleep
  <1>10. CASE LinkLost \/ MakerTimesOut \/ HangUp \/ Deliver \/ Ended \/ UNCHANGED vars
    BY <1>10 DEF LinkLost, MakerTimesOut, HangUp, Ended, vars, DropLink,
                 MakerHangsUp, Deliver, DeliverDisconnect
  <1> HIDE DEF Stutter
  <1> QED
    BY <1>1, <1>2, <1>3, <1>4, <1>5, <1>6, <1>7, <1>8, <1>9, <1>10
    DEF Next, CallStep, EvStep

(* get_state() walks the cycle that ConnectionLifecycle promises, however  *)
(* the three threads and the radio interleave.                             *)
THEOREM LifecycleCorrect == ASSUME Cautious PROVE Spec => LifecycleSpec
  <1> DEFINE I == Typed /\ Owned /\ HandOver /\ Orderly
  <1>1. Init => I
    BY TypedInit, OwnedInit, HandOverInit, OrderlyInit
  <1>2. I /\ [Next]_vars => I'
    BY Cautious, TypedNext, OwnedStep, HandOverStep, OrderlyStep
  <1>3. I /\ [Next]_vars => [Lifecycle!Next]_<<state, pc["hb"] # "none">>
    BY LifecycleStep
  <1> QED
    BY <1>1, <1>2, <1>3, LifecycleInit, PTL DEF Spec, LifecycleSpec, Lifecycle!Spec
=============================================================================
