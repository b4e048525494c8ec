---------------------------- MODULE ScanProperties ----------------------------
(***************************************************************************)
(* The properties of a scan.                                               *)
(***************************************************************************)
EXTENDS Scan

ScanLabels ==
    {"open", "enable", "poll", "canceled", "stop", "wait", "release", "close",
     "found", "null"}

CallbackLabels == {"idle", "lock", "match", "addr", "disable", "done", "unlock"}

(* Every variable has its type.                                            *)
TypeOK ==
    /\ pc \in [Threads -> ScanLabels \cup CallbackLabels]
    /\ pc["scan"] \in ScanLabels
    /\ \A c \in Callbacks: pc[c] \in CallbackLabels
    /\ m \in {{}} \cup {{c} : c \in Callbacks}
    /\ doneMutex \in BOOLEAN
    /\ success \in BOOLEAN
    /\ canceled \in BOOLEAN
    /\ adapter \in BOOLEAN
    /\ scanning \in BOOLEAN
    /\ name \in Devices \cup {NoDevice}
    /\ addr \in Devices \cup {NoDevice}
    /\ device \in [Callbacks -> Devices \cup {NoDevice}]

Found == success /\ name # NoDevice /\ addr # NoDevice

(* scan_for_device() reads success, and its caller name and addr, without  *)
(* the mutex m that the callback writes them under, and success is written *)
(* first: it is the unlocking of doneMutex after all three that keeps a    *)
(* scan, canceled or not, from returning half of a result.                 *)
FoundIsComplete == pc["scan"] = "found" => name # NoDevice /\ addr # NoDevice

(* With two matching devices reported at once, name and addr are never     *)
(* left as those of different devices: whenever no callback holds m, both  *)
(* are of the same device, or of none.                                     *)
NameAndAddrAgree == m = {} => name = addr

(* However the scan ends, the adapter has been closed and discovery is off.*)
ReturnsQuiet == Returned => ~adapter /\ ~scanning

(* A matching device ends the scan.                                        *)
FoundEndsScan ==
    \A c \in Callbacks: pc[c] = "match" /\ device[c] \in Matching ~> Returned

(* A cancellation turns discovery off.                                     *)
CancelStopsDiscovery == canceled /\ scanning ~> ~scanning

-----------------------------------------------------------------------------
(* Why: until the scan was told, doneMutex is locked, and the scan is told *)
(* after the callback has written everything and turned discovery off.     *)
(* (A scan that has got doneMutex was told: the wait of a canceled scan    *)
(* for doneMutex ends in no other way, see CanceledScanReturns.)           *)
Waiting == pc["scan"] \in {"poll", "canceled", "stop", "wait"}

NotYetOn ==
    /\ pc["scan"] = "open" => ~adapter
    /\ pc["scan"] = "enable" => doneMutex
    /\ pc["scan"] \in {"open", "enable"} =>
          ~scanning /\ \A c \in Callbacks: pc[c] = "idle"

ToldLast ==
    /\ NotYetOn /\ ReturnsQuiet
    /\ pc["scan"] \in {"release", "close", "found"} => Found
    /\ Waiting /\ ~doneMutex => Found /\ ~scanning
    /\ pc["scan"] \in {"release", "close"} => ~scanning
    /\ \A c \in Callbacks: /\ pc[c] # "idle" => device[c] # NoDevice
                           /\ pc[c] = "addr" => success /\ name # NoDevice
                           /\ pc[c] = "disable" => Found
                           /\ pc[c] = "done" => Found /\ ~scanning

Critical == {"match", "addr", "disable", "done", "unlock"}

(* Why name and addr agree: between the two writes the callback that makes *)
(* them holds m, and no other does.                                        *)
OneWriter ==
    /\ \A c \in Callbacks: pc[c] \in Critical => m = {c}
    /\ \A c \in Callbacks: pc[c] = "addr" => name = device[c]
    /\ (\A c \in Callbacks: pc[c] # "addr") => name = addr

Inductive == TypeOK /\ ToldLast /\ OneWriter
=============================================================================
