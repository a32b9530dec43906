---------------------------- MODULE MCExitSwitch ----------------------------
(***************************************************************************)
(* ExitSwitch for TLC: one operator, a WireGuard and a mihomo exit, so     *)
(* that a switch can go from each kind to the other, with mihomo dying,    *)
(* commands killed and reboots at any moment, any number of times.         *)
(***************************************************************************)
EXTENDS ExitSwitch
=============================================================================
