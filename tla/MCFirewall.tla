----------------------------- MODULE MCFirewall ------------------------------
(***************************************************************************)
(* Firewall for TLC: of nftables.conf, a rule without ports, the one that  *)
(* SSH shares with other ports, and one for the proxied network.           *)
(***************************************************************************)
EXTENDS Firewall

ShippedRules ==
  <<[ports |-> {}, plain |-> FALSE], [ports |-> {"22/tcp", "8111/tcp"}, plain |-> TRUE],
    [ports |-> {"80/tcp", "443/tcp"}, plain |-> FALSE]>>
=============================================================================
