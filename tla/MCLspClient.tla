----------------------------- MODULE MCLspClient -----------------------------
(* Instances of LspClient for TLC.  The threads are not interchangeable, for *)
(* the run checks liveness.                                                  *)
EXTENDS LspClient
=============================================================================
