----------------------------- MODULE MCCstClient -----------------------------
(***************************************************************************)
(* CstClient for TLC, with the instances of MCCstServer.                   *)
(***************************************************************************)
EXTENDS CstClient, MCCstServer
==============================================================================
