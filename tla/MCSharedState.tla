--------------------------- MODULE MCSharedState ----------------------------
(* One App's shim and the daemon.  The sequence has four values, so that   *)
(* it wraps at every second write, and one write, one short of a lap, may  *)
(* begin between the two loads of an attempt.                              *)
EXTENDS SharedState

MCReaders   == {"shim"}
MCPadInputs == {1}
=============================================================================
