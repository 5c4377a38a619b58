------------------------------ MODULE MCSemShm ------------------------------
(* The processes of the instance of SemShm that TLC checks. *)
EXTENDS SemShm
CONSTANTS s1, s2, c1, c2, c3
=============================================================================
