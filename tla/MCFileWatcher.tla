---------------------------- MODULE MCFileWatcher ----------------------------
(***************************************************************************)
(* WatcherFaults for TLC: one tracked file and one that is not, and three  *)
(* outside processes that each write, remove or replace either file once.  *)
(***************************************************************************)
EXTENDS WatcherFaults

CONSTANTS main_rs, lib_rs, write1, write2, write3

MCPaths == {main_rs, lib_rs}
MCTracked == {main_rs}
MCExternalWrites == {write1, write2, write3}
AllExternalOps == {"write", "remove", "replace"}
==============================================================================
