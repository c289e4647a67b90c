--------------------------- MODULE MCAuditDispatch ---------------------------
(* One pull request, two commits: the second is pushed anywhere in the handling
   of the first.                                                             *)
EXTENDS AuditDispatch

MCAllFaults == FaultKinds
=============================================================================
