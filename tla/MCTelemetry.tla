---------------------------- MODULE MCTelemetry ----------------------------
(* A short queue and a few reports for TLC. *)
EXTENDS Telemetry, TLC
=============================================================================
