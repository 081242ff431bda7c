------------------------------- MODULE MCStartup -------------------------------
(* The server before and after an upgrade that brings migration 2, and the     *)
(* migrate command of the new version.                                         *)
EXTENDS Startup

CONSTANTS old, new, cli

MCSupported == [p \in Process |-> IF p = old THEN 1 ELSE 2]
=============================================================================
