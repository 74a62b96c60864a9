---------------------------- MODULE MCSyncStream ----------------------------
(* Model-checking instance of SyncStream.                                  *)
EXTENDS SyncStream
=============================================================================
