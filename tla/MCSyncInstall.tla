--------------------------- MODULE MCSyncInstall ---------------------------
(* Three versions, few starts and faults for TLC. *)
EXTENDS SyncInstall, TLC
=============================================================================
