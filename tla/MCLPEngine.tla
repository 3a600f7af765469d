------------------------------ MODULE MCLPEngine ------------------------------
(* The sets of faults of the instances of LPEngine that TLC checks.            *)
EXTENDS LPEngine

AllFaults == FaultKinds
CrashOnly == {"crash"}
FailOnly == {"fail"}
=============================================================================
