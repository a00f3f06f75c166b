----------------------------- MODULE MCS3Upload -----------------------------
(***************************************************************************)
(* Instances of S3Upload.                                                  *)
(***************************************************************************)
EXTENDS S3Upload

CONSTANTS r1, r2, k1

SameKey == [r \in {r1, r2} |-> k1]

AllFaults == FaultKinds
=============================================================================
