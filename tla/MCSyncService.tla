---------------------------- MODULE MCSyncService ----------------------------
(* The instances of SyncService that TLC checks: a task with a handler, one *)
(* that outlasts the WriteTimeout and one without a handler.                *)
EXTENDS SyncService

CONSTANTS a, s, u
=============================================================================
