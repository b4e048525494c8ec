-------------------------------- MODULE MCScan --------------------------------
(***************************************************************************)
(* What TLC checks of Scan: the properties of ScanProperties and, below,   *)
(* what a comment of the code claims and the code does not keep.           *)
(***************************************************************************)
EXTENDS ScanProperties

(* A canceled scan finishes: "Wait for the scann to finish:"               *)
(* (BLEHelper.cpp:58).                                                     *)
CanceledScanReturns == canceled ~> Returned
=============================================================================
