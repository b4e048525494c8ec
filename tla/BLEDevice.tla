------------------------------ MODULE BLEDevice ------------------------------
(***************************************************************************)
(* The Bluetooth device wrapper (src/bt/BLEDevice.cpp) and the part of     *)
(* gattlib and of the coffee maker's radio that it drives.                 *)
(*                                                                         *)
(* Three threads run the code: the client's thread "app", gattlib's event  *)
(* thread "ev", which delivers the disconnect callback, and the heartbeat  *)
(* thread "hb".  pc[t] is the point thread t has reached; the labels are   *)
(* listed in CoffeeMaker, which sequences these steps with its own.        *)
(* Fields shared by the threads are read and written in single steps: none *)
(* is atomic in the C++, but each access is separated from the next by a   *)
(* call the compiler cannot see through.                                   *)
(***************************************************************************)
EXTENDS Naturals

CONSTANT MaxSessions    \* bound on the gattlib handles opened in a behaviour

ASSUME MaxSessionsAssumption == MaxSessions \in Nat

VARIABLES
    pc,          \* the program point of every thread
    process,     \* "running", or what ended the process
    connection,  \* the gattlib handle, 0 for nullptr
    connected,   \* BLEDevice::connected
    session,     \* gattlib: number of handles opened so far
    link,        \* radio: the link of the latest handle is up
    registered,  \* gattlib: the latest handle has its disconnect callback
    signal,      \* gattlib: a disconnect callback waits for the event thread
    farewell     \* coffee maker: it has received the disconnect command

bleVars == <<connection, connected>>
gattVars == <<session, link, registered, signal, farewell>>

(* Ends the process: a failed assertion, exit() or a call on nullptr.      *)
Halt(why) == process' = why /\ UNCHANGED <<pc, bleVars, gattVars>>

(* Thread t is about to execute the step labelled l.                       *)
At(t, l) == process = "running" /\ pc[t] = l

Goto(t, from, to) == At(t, from) /\ pc' = [pc EXCEPT ![t] = to]

(* Thread t tests a condition and continues at yes or at no.               *)
Branch(t, from, test, yes, no) ==
    \/ test /\ Goto(t, from, yes)
    \/ ~test /\ Goto(t, from, no)

-----------------------------------------------------------------------------
(* BLEDevice::connect(), on the client's thread.                           *)

\* Mutant: a second handle is opened over the first.
BleConnectOver ==
    /\ Goto("app", "b_connect", "b_discover")
    /\ session' = session + 1
    /\ connection' = session + 1
    /\ link' = TRUE
    /\ registered' = FALSE
    /\ farewell' = FALSE
    /\ UNCHANGED <<process, connected, signal>>

(* The two assertions, then gattlib_connect(), which may fail.             *)
BleConnect ==
    /\ At("app", "b_connect")
    /\ \/ connection # 0 /\ Halt("assert(!connection)")
       \/ connection = 0 /\ connected /\ Halt("assert(!connected)")
       \/ /\ connection = 0 /\ ~connected
          /\ \/ /\ Goto("app", "b_connect", "c_false")
                /\ UNCHANGED <<bleVars, gattVars>>
             \/ /\ Goto("app", "b_connect", "b_discover")
                /\ session' = session + 1
                /\ connection' = session + 1
                /\ link' = TRUE
                /\ registered' = FALSE
                /\ farewell' = FALSE
                /\ UNCHANGED <<connected, signal>>
          /\ UNCHANGED process

(* Service discovery fails or finds nothing: the handle is given back.     *)
BleDiscoverFails ==
    /\ Goto("app", "b_discover", "c_false")
    /\ connection' = 0
    /\ link' = FALSE
    /\ UNCHANGED <<process, connected, session, registered, signal, farewell>>

BleDiscover ==
    /\ link
    /\ Goto("app", "b_discover", "b_register")
    /\ UNCHANGED <<process, bleVars, gattVars>>

(* From here on gattlib reports the loss of the link.                      *)
BleRegister ==
    /\ Goto("app", "b_register", "b_connected")
    /\ registered' = TRUE
    /\ UNCHANGED <<process, bleVars, session, link, signal, farewell>>

BleConnected ==
    /\ Goto("app", "b_connected", "on_connected")
    /\ connected' = TRUE
    /\ UNCHANGED <<process, connection, gattVars>>

-----------------------------------------------------------------------------
(* BLEDevice::on_disconnected(), on gattlib's event thread.                *)

(* The callback is dropped when the device is not marked as connected.     *)
BleOnDisconnected ==
    /\ Branch("ev", "v_check", connected, "v_clear", "idle")
    /\ connected' = FALSE
    /\ UNCHANGED <<process, connection, gattVars>>

\* Mutant: the handle is not forgotten.
BleClearConnectionNot ==
    /\ Goto("ev", "v_clear", "v_notify")
    /\ UNCHANGED <<process, bleVars, gattVars>>

BleClearConnection ==
    /\ Goto("ev", "v_clear", "v_notify")
    /\ connection' = 0
    /\ UNCHANGED <<process, connected, gattVars>>

-----------------------------------------------------------------------------
(* BLEDevice::read_characteristic() and write() test connected ...         *)
TestConnected(t, at, use, skip) ==
    /\ Branch(t, at, connected, use, skip)
    /\ UNCHANGED <<process, bleVars, gattVars>>

(* ... and then hand connection to gattlib.  gattlib does not say what it  *)
(* does with nullptr: it may fail the call or dereference it.              *)
UseConnection(t, at, next) ==
    /\ At(t, at)
    /\ \/ connection = 0 /\ Halt("nullptr")
       \/ /\ Goto(t, at, next)
          /\ UNCHANGED <<process, bleVars, gattVars>>

(* The write that carries the disconnect command: it may fail, and a       *)
(* failure is ignored.                                                     *)
WriteFarewell(t, at, next) ==
    /\ At(t, at)
    /\ \/ connection = 0 /\ Halt("nullptr")
       \/ /\ Goto(t, at, next)
          /\ \/ UNCHANGED farewell
             \/ connection = session /\ link /\ farewell' = TRUE
          /\ UNCHANGED <<process, bleVars, session, link, registered, signal>>

-----------------------------------------------------------------------------
(* gattlib and the radio.                                                  *)

(* The link goes down; gattlib queues the callback if there is one.        *)
DropLink ==
    /\ process = "running" /\ link
    /\ link' = FALSE
    /\ signal' = registered
    /\ UNCHANGED <<pc, process, bleVars, session, registered, farewell>>

(* The coffee maker obeys the disconnect command.                          *)
MakerHangsUp == farewell /\ DropLink

(* gattlib runs the queued callback on its event thread.                   *)
DeliverDisconnect ==
    /\ signal
    /\ Goto("ev", "idle", "v_check")
    /\ signal' = FALSE
    /\ UNCHANGED <<process, bleVars, session, link, registered, farewell>>

-----------------------------------------------------------------------------
BleInit ==
    /\ connection = 0
    /\ connected = FALSE
    /\ session = 0
    /\ link = FALSE
    /\ registered = FALSE
    /\ signal = FALSE
    /\ farewell = FALSE

BleTypeOK ==
    /\ connection \in 0..MaxSessions
    /\ connected \in BOOLEAN
    /\ session \in 0..MaxSessions
    /\ link \in BOOLEAN
    /\ registered \in BOOLEAN
    /\ signal \in BOOLEAN
    /\ farewell \in BOOLEAN
=============================================================================
