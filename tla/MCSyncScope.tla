------------------------------ MODULE MCSyncScope ------------------------------
(* SyncScope with a directory of both scopes, a file of scope full, and a path *)
(* that is no default.  A filter sessions/* misses the file deep in sessions.  *)
EXTENDS SyncScope

CONSTANTS sessions, rules, notes

SomeFiles == [path : {sessions}, place : {"deep"}] \cup [path : {rules}, place : {"self"}]
=============================================================================
