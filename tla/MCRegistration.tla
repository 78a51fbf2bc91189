--------------------------- MODULE MCRegistration ---------------------------
(* Instance of Registration for TLC.  Liveness is checked with safety, so  *)
(* the processes, though interchangeable, are not declared symmetric.      *)
EXTENDS Registration
=============================================================================
