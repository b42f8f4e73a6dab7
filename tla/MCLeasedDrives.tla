--------------------------- MODULE MCLeasedDrives ---------------------------
(***************************************************************************)
(* The instance of LeasedDrives for TLC: attempts at one run, posted with  *)
(* any request to a service with any settings.                             *)
(***************************************************************************)
EXTENDS LeasedDrivesProps

OneRun == [a \in Attempts |-> 1]

AnyRequest  == [stream : BOOLEAN, token : BOOLEAN, lease : {"complete", "partial", "absent"}]
AnySettings == [token : BOOLEAN, hostUrl : BOOLEAN]
=============================================================================
