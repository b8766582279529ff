---------------------------- MODULE MCStopProtocol ----------------------------
(* A worker and the other thread run the same protocol, so one of each is  *)
(* enough for the main thread to wait for several.                         *)
EXTENDS StopProtocol
=============================================================================
