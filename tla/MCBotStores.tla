---------------------------- MODULE MCBotStores ------------------------------
(***************************************************************************)
(* What the bot asks for and the stores it changes, for TLC: the dialogs,  *)
(* the rules of the smart router, the firewall, the additional domains and *)
(* the address of the exit.                                                *)
(* They share no state, so a behaviour is one of one of them: the others   *)
(* rest where they began.                                                  *)
(***************************************************************************)
EXTENDS MCSmartRules, MCFirewall, BotDialog, GfwExtras, ExitIpCache

VARIABLE scene  \* the part that has steps

Scenes == {"dialog", "rules", "firewall", "domains", "address"}
vars == <<dialogVars, smartVars, firewallVars, gfwVars, exitIpVars, scene>>

\* One place to rest in is enough.
RestInit ==
  /\ scene # "rules" => ~ active
  /\ scene # "domains" => extra = {}

Init ==
  /\ scene \in Scenes
  /\ DialogInit /\ SmartInit /\ FirewallInit /\ GfwInit /\ ExitIpInit
  /\ RestInit

Next ==
  \/ scene = "dialog" /\ DialogNext /\ UNCHANGED <<smartVars, firewallVars, gfwVars, exitIpVars, scene>>
  \/ scene = "rules" /\ SmartNext /\ UNCHANGED <<dialogVars, firewallVars, gfwVars, exitIpVars, scene>>
  \/ scene = "firewall" /\ FirewallNext /\ UNCHANGED <<dialogVars, smartVars, gfwVars, exitIpVars, scene>>
  \/ scene = "domains" /\ GfwNext /\ UNCHANGED <<dialogVars, smartVars, firewallVars, exitIpVars, scene>>
  \/ scene = "address" /\ ExitIpNext /\ UNCHANGED <<dialogVars, smartVars, firewallVars, gfwVars, scene>>

Spec == Init /\ [][Next]_vars

\* Every part keeps to the values its code can give its state: a job writes
\* files of install.sh with the lock only, a dialog that asks for a target
\* has a type and a value, two rules of a chain never have one handle, the
\* update that has the lock is the one at work.
TypesOK == DialogTypeOK /\ SmartTypeOK /\ FirewallTypeOK /\ GfwTypeOK /\ ExitIpTypeOK
=============================================================================
