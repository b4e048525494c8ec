------------------------------ MODULE ScanProofs ------------------------------
(***************************************************************************)
(* Proofs of the safety properties of ScanProperties for any devices and   *)
(* any number of threads that gattlib calls back from.                     *)
(***************************************************************************)
EXTENDS ScanProperties, TLAPS

Labels ==
    /\ pc \in [Threads -> ScanLabels \cup CallbackLabels]
    /\ pc["scan"] \in ScanLabels
    /\ \A c \in Callbacks: pc[c] \in CallbackLabels

Flags ==
    /\ doneMutex \in BOOLEAN
    /\ success \in BOOLEAN
    /\ canceled \in BOOLEAN
    /\ adapter \in BOOLEAN
    /\ scanning \in BOOLEAN

Data ==
    /\ m \in {{}} \cup {{c} : c \in Callbacks}
    /\ name \in Devices \cup {NoDevice}
    /\ addr \in Devices \cup {NoDevice}
    /\ device \in [Callbacks -> Devices \cup {NoDevice}]

LEMMA TypeParts == TypeOK <=> Labels /\ Flags /\ Data
  BY DEF TypeOK, Labels, Flags, Data

LEMMA TypeInit == Init => TypeOK
  <1> SUFFICES ASSUME Init PROVE TypeOK
    OBVIOUS
  <1>1. Labels
    BY ScanAssumption DEF Init, Labels, Threads, ScanLabels, CallbackLabels
  <1>2. Flags
    BY Zenon DEF Init, Flags
  <1>3. Data
    BY DEF Init, Data
  <1> QED
    BY <1>1, <1>2, <1>3, TypeParts

\* A thread's step moves that thread only.
LEMMA LabelsNext == ASSUME Labels, [Next]_vars PROVE Labels'
  <1> USE ScanAssumption DEF Labels, Threads, Goto, ScanLabels, CallbackLabels
  <1>1. CASE ScanStep
    BY <1>1 DEF ScanStep, OpenAdapter, EnableScan, TryLock, TestCanceled, StopScan,
                WaitForScan, Release, CloseAdapter
  <1>2. ASSUME NEW c \in Callbacks, Discover(c) \/ CallbackStep(c) PROVE Labels'
    BY <1>2 DEF Discover, CallbackStep, LockM, Match, StoreAddr, DisableScan,
                SignalDone, UnlockM
  <1>3. CASE Cancel
    BY <1>3 DEF Cancel
  <1>4. CASE UNCHANGED vars
    BY <1>4 DEF vars
  <1> QED
    BY <1>1, <1>2, <1>3, <1>4 DEF Next, Ended

LEMMA FlagsNext == ASSUME Flags, [Next]_vars PROVE Flags'
  <1> USE DEF Flags, args
  <1>1. CASE ScanStep
    BY Zenon, <1>1 DEF ScanStep, OpenAdapter, EnableScan, TryLock, TestCanceled,
                       StopScan, WaitForScan, Release, CloseAdapter
  <1>2. ASSUME NEW c \in Callbacks, Discover(c) \/ CallbackStep(c) PROVE Flags'
    BY Zenon, <1>2 DEF Discover, CallbackStep, LockM, Match, StoreAddr, DisableScan,
                       SignalDone, UnlockM
  <1>3. CASE Cancel
    BY Zenon, <1>3 DEF Cancel
  <1>4. CASE UNCHANGED vars
    BY Zenon, <1>4 DEF vars
  <1> QED
    BY <1>1, <1>2, <1>3, <1>4 DEF Next, Ended

LEMMA DataNext == ASSUME Data, [Next]_vars PROVE Data'
  <1> USE DEF Data, args
  <1>1. CASE ScanStep
    BY <1>1 DEF ScanStep, OpenAdapter, EnableScan, TryLock, TestCanceled, StopScan,
                WaitForScan, Release, CloseAdapter
  <1>2. ASSUME NEW c \in Callbacks, Discover(c) \/ CallbackStep(c) PROVE Data'
    BY <1>2 DEF Discover, CallbackStep, LockM, Match, StoreAddr, DisableScan,
                SignalDone, UnlockM
  <1>3. CASE Cancel
    BY <1>3 DEF Cancel
  <1>4. CASE UNCHANGED vars
    BY <1>4 DEF vars
  <1> QED
    BY <1>1, <1>2, <1>3, <1>4 DEF Next, Ended

(* Every variable keeps its type.                                          *)
THEOREM ScanTypeCorrect == Spec => []TypeOK
  <1>1. Init => TypeOK
    BY TypeInit
  <1>2. TypeOK /\ [Next]_vars => TypeOK'
    BY TypeParts, LabelsNext, FlagsNext, DataNext DEF TypeOK, Labels, Flags, Data
  <1> QED
    BY <1>1, <1>2, PTL DEF Spec

-----------------------------------------------------------------------------
LEMMA ToldLastInit == Init => ToldLast
  BY ScanAssumption
  DEF Init, ToldLast, NotYetOn, Found, ReturnsQuiet, Returned, Waiting, Threads

LEMMA ToldLastNext == ASSUME TypeOK, ToldLast, [Next]_vars PROVE ToldLast'
  <1> USE ScanAssumption
      DEF TypeOK, Threads, ScanLabels, CallbackLabels, ToldLast, NotYetOn,
          ReturnsQuiet, Returned, Waiting, Found, Goto, args
  <1>1. CASE OpenAdapter
    BY <1>1 DEF OpenAdapter
  <1>2. CASE EnableScan
    <2>1. doneMutex /\ ~scanning /\ UNCHANGED doneMutex
      BY <1>2 DEF EnableScan
    <2>2. pc["scan"]' \in {"null", "poll"} /\ \A c \in Callbacks: pc[c]' = "idle"
      BY <1>2 DEF EnableScan
    <2>3. pc["scan"]' = "null" => ~adapter' /\ ~scanning'
      BY <1>2 DEF EnableScan
    <2> QED
      BY <2>1, <2>2, <2>3
  <1>3. CASE TryLock
    BY <1>3 DEF TryLock
  <1>4. CASE TestCanceled
    BY <1>4 DEF TestCanceled
  <1>5. CASE StopScan
    BY <1>5 DEF StopScan
  <1>6. CASE WaitForScan
    BY <1>6 DEF WaitForScan
  <1>7. CASE Release
    BY <1>7 DEF Release
  <1>8. CASE CloseAdapter
    BY <1>8 DEF CloseAdapter
  <1>9. ASSUME NEW c \in Callbacks, Discover(c) PROVE ToldLast'
    BY <1>9 DEF Discover
  <1>10. ASSUME NEW c \in Callbacks, LockM(c) PROVE ToldLast'
    BY <1>10 DEF LockM
  <1>11. ASSUME NEW c \in Callbacks, Match(c) PROVE ToldLast'
    BY <1>11 DEF Match
  <1>12. ASSUME NEW c \in Callbacks, StoreAddr(c) PROVE ToldLast'
    BY <1>12 DEF StoreAddr
  <1>13. ASSUME NEW c \in Callbacks, DisableScan(c) PROVE ToldLast'
    BY <1>13 DEF DisableScan
  <1>14. ASSUME NEW c \in Callbacks, SignalDone(c) PROVE ToldLast'
    BY <1>14 DEF SignalDone
  <1>15. ASSUME NEW c \in Callbacks, UnlockM(c) PROVE ToldLast'
    BY <1>15 DEF UnlockM
  <1>16. CASE Cancel
    BY <1>16 DEF Cancel
  <1>17. CASE UNCHANGED vars
    BY <1>17 DEF vars
  <1> QED
    BY <1>1, <1>2, <1>3, <1>4, <1>5, <1>6, <1>7, <1>8, <1>9, <1>10, <1>11, <1>12,
       <1>13, <1>14, <1>15, <1>16, <1>17
    DEF Next, ScanStep, CallbackStep, Ended

(* doneMutex is unlocked last: the inductive invariant behind the two      *)
(* theorems that follow.                                                   *)
THEOREM ToldLastCorrect == Spec => []ToldLast
  <1>1. Init => TypeOK /\ ToldLast
    BY TypeInit, ToldLastInit
  <1>2. TypeOK /\ ToldLast /\ [Next]_vars => ToldLast'
    BY ToldLastNext
  <1> QED
    BY <1>1, <1>2, ScanTypeCorrect, PTL DEF Spec

(* A scan never returns half of a result, although the scanning thread     *)
(* reads it without m.                                                     *)
THEOREM FoundIsCompleteCorrect == Spec => []FoundIsComplete
  <1>1. ToldLast => FoundIsComplete
    BY DEF ToldLast, Found, FoundIsComplete
  <1> QED
    BY <1>1, ToldLastCorrect, PTL

(* A scan that has returned has closed the adapter and left discovery off. *)
THEOREM ReturnsQuietCorrect == Spec => []ReturnsQuiet
  <1>1. ToldLast => ReturnsQuiet
    BY DEF ToldLast
  <1> QED
    BY <1>1, ToldLastCorrect, PTL

-----------------------------------------------------------------------------
(* One callback at a time writes the result.                               *)

LEMMA OneWriterInit == Init => OneWriter
  BY ScanAssumption DEF Init, OneWriter, Critical, Threads

LEMMA OneWriterNext == ASSUME TypeOK, OneWriter, [Next]_vars PROVE OneWriter'
  <1> USE ScanAssumption
      DEF TypeOK, Threads, ScanLabels, CallbackLabels, OneWriter, Critical, Goto, args
  <1>1. CASE ScanStep
    BY <1>1 DEF ScanStep, OpenAdapter, EnableScan, TryLock, TestCanceled, StopScan,
                WaitForScan, Release, CloseAdapter
  <1>2. ASSUME NEW c \in Callbacks, Discover(c) PROVE OneWriter'
    BY <1>2 DEF Discover
  <1>3. ASSUME NEW c \in Callbacks, LockM(c) PROVE OneWriter'
    BY <1>3 DEF LockM
  <1>4. ASSUME NEW c \in Callbacks, Match(c) PROVE OneWriter'
    <2>1. /\ pc[c] = "match" /\ m = {c} /\ m' = m /\ addr' = addr /\ device' = device
          /\ \A b \in Callbacks \ {c}: pc'[b] = pc[b] /\ pc[b] \notin Critical
      BY <1>4 DEF Match
    <2>2. CASE device[c] \in Matching
      <3>1. pc'[c] = "addr" /\ name' = device[c]
        BY <1>4, <2>2 DEF Match
      <3> QED
        BY <2>1, <3>1
    <2>3. CASE device[c] \notin Matching
      <3>1. pc'[c] = "unlock" /\ name' = name
        BY <1>4, <2>3 DEF Match
      <3> QED
        BY <2>1, <3>1
    <2> QED
      BY <2>2, <2>3
  <1>5. ASSUME NEW c \in Callbacks, StoreAddr(c) PROVE OneWriter'
    BY <1>5 DEF StoreAddr
  <1>6. ASSUME NEW c \in Callbacks, DisableScan(c) \/ SignalDone(c) PROVE OneWriter'
    BY <1>6 DEF DisableScan, SignalDone
  <1>7. ASSUME NEW c \in Callbacks, UnlockM(c) PROVE OneWriter'
    BY <1>7 DEF UnlockM
  <1>8. CASE Cancel \/ UNCHANGED vars
    BY <1>8 DEF Cancel, vars
  <1> QED
    BY <1>1, <1>2, <1>3, <1>4, <1>5, <1>6, <1>7, <1>8 DEF Next, CallbackStep, Ended

(* Between the two writes the callback that makes them holds m alone.      *)
THEOREM OneWriterCorrect == Spec => []OneWriter
  <1>1. Init => TypeOK /\ OneWriter
    BY TypeInit, OneWriterInit
  <1>2. TypeOK /\ OneWriter /\ [Next]_vars => OneWriter'
    BY OneWriterNext
  <1> QED
    BY <1>1, <1>2, ScanTypeCorrect, PTL DEF Spec

(* Whenever no callback holds m, name and addr are of the same device, on  *)
(* however many threads gattlib calls on_device_discovered().              *)
THEOREM NameAndAddrAgreeCorrect == Spec => []NameAndAddrAgree
  <1>1. TypeOK /\ OneWriter => NameAndAddrAgree
    BY DEF OneWriter, NameAndAddrAgree, Critical
  <1> QED
    BY <1>1, ScanTypeCorrect, OneWriterCorrect, PTL

(* All of it together is inductive, for any number of callback threads.    *)
THEOREM InductiveCorrect == Spec => []Inductive
  BY ScanTypeCorrect, ToldLastCorrect, OneWriterCorrect, PTL DEF Inductive
=============================================================================
