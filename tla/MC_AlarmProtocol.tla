-------------------------- MODULE MC_AlarmProtocol --------------------------
(***************************************************************************)
(* The alarm protocol, with rebuilds that stay within the timer's interval *)
(* and with rebuilds that do not.                                          *)
(***************************************************************************)
EXTENDS AlarmProtocol

MCSlowRebuilds == BOOLEAN
=============================================================================
