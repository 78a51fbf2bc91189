---------------------------- MODULE MCAuditTrail ----------------------------
(* Instance of AuditTrail for TLC.  Liveness is checked with safety, so    *)
(* requests, hosts and jobs are not declared symmetric.                    *)
EXTENDS AuditTrail
=============================================================================
