--------------------------------- MODULE Scan ---------------------------------
(***************************************************************************)
(* One call of scan_for_device() (src/bt/BLEHelper.cpp) on thread "scan",  *)
(* and on_device_discovered() on the threads that gattlib calls it from.   *)
(* The two share a ScanArgs with two mutexes: m orders the callbacks, and  *)
(* doneMutex is held from the start until a callback has found a device.   *)
(* A std::mutex must be unlocked by its owner, and doneMutex is not: the   *)
(* model has the effect of the pthread mutex it is built on, which does    *)
(* not check.                                                              *)
(***************************************************************************)
EXTENDS Naturals

CONSTANTS
    Callbacks,  \* the threads gattlib calls on_device_discovered() from
    Devices,    \* the devices that advertise
    Matching,   \* those whose name matches the regular expression
    NoDevice,   \* the empty string
    Cancelable  \* the caller may set *canceled

ASSUME ScanAssumption ==
    /\ Matching \subseteq Devices
    /\ NoDevice \notin Devices
    /\ "scan" \notin Callbacks
    /\ Cancelable \in BOOLEAN

VARIABLES
    pc,         \* the program point of every thread
    doneMutex,  \* ScanArgs::doneMutex is locked
    m,          \* the callback threads that hold ScanArgs::m
    success, name, addr,  \* of ScanArgs
    canceled,   \* what the caller's pointer points to
    adapter,    \* gattlib: the adapter is open
    scanning,   \* gattlib: discovery is on
    device      \* gattlib: the device each callback is called with

args == <<success, name, addr>>
vars == <<pc, doneMutex, m, args, canceled, adapter, scanning, device>>

Threads == {"scan"} \cup Callbacks

Init ==
    /\ pc = [t \in Threads |-> IF t = "scan" THEN "open" ELSE "idle"]
    /\ doneMutex = FALSE
    /\ m = {}
    /\ success = FALSE
    /\ name = NoDevice
    /\ addr = NoDevice
    /\ canceled = FALSE
    /\ adapter = FALSE
    /\ scanning = FALSE
    /\ device = [c \in Callbacks |-> NoDevice]

Goto(t, from, to) == pc[t] = from /\ pc' = [pc EXCEPT ![t] = to]

-----------------------------------------------------------------------------
(* scan_for_device().                                                      *)

(* The adapter is opened and doneMutex is locked.                          *)
OpenAdapter ==
    /\ \/ /\ Goto("scan", "open", "null")
          /\ UNCHANGED <<adapter, doneMutex>>
       \/ /\ Goto("scan", "open", "enable")
          /\ adapter' = TRUE
          /\ doneMutex' = TRUE
    /\ UNCHANGED <<m, args, canceled, scanning, device>>

\* Mutant: the adapter stays open when discovery cannot be started.
EnableScanLeaks ==
    /\ \/ Goto("scan", "enable", "null") /\ UNCHANGED <<adapter, scanning>>
       \/ Goto("scan", "enable", "poll") /\ scanning' = TRUE /\ UNCHANGED adapter
    /\ UNCHANGED <<doneMutex, m, args, canceled, device>>

EnableScan ==
    /\ \/ Goto("scan", "enable", "null") /\ adapter' = FALSE /\ UNCHANGED scanning
       \/ Goto("scan", "enable", "poll") /\ scanning' = TRUE /\ UNCHANGED adapter
    /\ UNCHANGED <<doneMutex, m, args, canceled, device>>

(* doneMutex.try_lock()                                                    *)
TryLock ==
    /\ \/ doneMutex /\ Goto("scan", "poll", "canceled") /\ UNCHANGED doneMutex
       \/ ~doneMutex /\ Goto("scan", "poll", "release") /\ doneMutex' = TRUE
    /\ UNCHANGED <<m, args, canceled, adapter, scanning, device>>

\* Mutant: *canceled is never read again.
TestCanceledNot ==
    /\ Goto("scan", "canceled", "poll")
    /\ UNCHANGED <<doneMutex, m, args, canceled, adapter, scanning, device>>

(* Without a cancellation the thread sleeps for 500 ms and tries again.    *)
TestCanceled ==
    /\ \/ ~canceled /\ Goto("scan", "canceled", "poll")
       \/ canceled /\ Goto("scan", "canceled", "stop")
    /\ UNCHANGED <<doneMutex, m, args, canceled, adapter, scanning, device>>

StopScan ==
    /\ Goto("scan", "stop", "wait")
    /\ scanning' = FALSE
    /\ UNCHANGED <<doneMutex, m, args, canceled, adapter, device>>

(* doneMutex.lock(), which blocks until a callback unlocks it.             *)
WaitForScan ==
    /\ ~doneMutex
    /\ Goto("scan", "wait", "release")
    /\ doneMutex' = TRUE
    /\ UNCHANGED <<m, args, canceled, adapter, scanning, device>>

Release ==
    /\ Goto("scan", "release", "close")
    /\ doneMutex' = FALSE
    /\ UNCHANGED <<m, args, canceled, adapter, scanning, device>>

(* The adapter is closed and args returned, or nullptr without a success.  *)
CloseAdapter ==
    /\ Goto("scan", "close", IF success THEN "found" ELSE "null")
    /\ adapter' = FALSE
    /\ UNCHANGED <<doneMutex, m, args, canceled, scanning, device>>

ScanStep ==
    OpenAdapter \/ EnableScan \/ TryLock \/ TestCanceled \/ StopScan
    \/ WaitForScan \/ Release \/ CloseAdapter

-----------------------------------------------------------------------------
(* on_device_discovered()                                                  *)

(* gattlib reports a device while discovery is on.                         *)
Discover(c) ==
    /\ scanning
    /\ Goto(c, "idle", "lock")
    /\ \E d \in Devices: device' = [device EXCEPT ![c] = d]
    /\ UNCHANGED <<doneMutex, m, args, canceled, adapter, scanning>>

\* Mutant: the callbacks do not exclude each other.
LockMShared(c) ==
    /\ Goto(c, "lock", "match")
    /\ m' = m \cup {c}
    /\ UNCHANGED <<doneMutex, args, canceled, adapter, scanning, device>>

LockM(c) ==
    /\ m = {}
    /\ Goto(c, "lock", "match")
    /\ m' = {c}
    /\ UNCHANGED <<doneMutex, args, canceled, adapter, scanning, device>>

\* Mutant: the scanning thread is told before the result is complete.
MatchSignalsFirst(c) ==
    /\ \/ /\ device[c] \in Matching
          /\ Goto(c, "match", "addr")
          /\ success' = TRUE
          /\ name' = device[c]
          /\ doneMutex' = FALSE
       \/ /\ device[c] \notin Matching
          /\ Goto(c, "match", "unlock")
          /\ UNCHANGED <<success, name, doneMutex>>
    /\ UNCHANGED <<m, addr, canceled, adapter, scanning, device>>

(* Without a name, or with another one, there is nothing to do.            *)
Match(c) ==
    /\ \/ /\ device[c] \in Matching
          /\ Goto(c, "match", "addr")
          /\ success' = TRUE
          /\ name' = device[c]
       \/ /\ device[c] \notin Matching
          /\ Goto(c, "match", "unlock")
          /\ UNCHANGED <<success, name>>
    /\ UNCHANGED <<doneMutex, m, addr, canceled, adapter, scanning, device>>

StoreAddr(c) ==
    /\ Goto(c, "addr", "disable")
    /\ addr' = device[c]
    /\ UNCHANGED <<doneMutex, m, success, name, canceled, adapter, scanning, device>>

DisableScan(c) ==
    /\ Goto(c, "disable", "done")
    /\ scanning' = FALSE
    /\ UNCHANGED <<doneMutex, m, args, canceled, adapter, device>>

\* Mutant: the scanning thread is not told.
SignalDoneNot(c) ==
    /\ Goto(c, "done", "unlock")
    /\ UNCHANGED <<doneMutex, m, args, canceled, adapter, scanning, device>>

SignalDone(c) ==
    /\ Goto(c, "done", "unlock")
    /\ doneMutex' = FALSE
    /\ UNCHANGED <<m, args, canceled, adapter, scanning, device>>

UnlockM(c) ==
    /\ Goto(c, "unlock", "idle")
    /\ m' = m \ {c}
    /\ UNCHANGED <<doneMutex, args, canceled, adapter, scanning, device>>

CallbackStep(c) ==
    LockM(c) \/ Match(c) \/ StoreAddr(c) \/ DisableScan(c) \/ SignalDone(c) \/ UnlockM(c)

-----------------------------------------------------------------------------
Cancel ==
    /\ Cancelable /\ ~canceled
    /\ canceled' = TRUE
    /\ UNCHANGED <<pc, doneMutex, m, args, adapter, scanning, device>>

Returned == pc["scan"] \in {"found", "null"}

Ended ==
    /\ Returned
    /\ \A c \in Callbacks: pc[c] = "idle"
    /\ UNCHANGED vars

Next ==
    \/ ScanStep
    \/ \E c \in Callbacks: Discover(c) \/ CallbackStep(c)
    \/ Cancel
    \/ Ended

Spec == Init /\ [][Next]_vars

(* The threads run; nobody has to advertise or to cancel.                  *)
FairSpec ==
    /\ Spec
    /\ WF_vars(ScanStep)
    /\ \A c \in Callbacks: WF_vars(CallbackStep(c))
=============================================================================
