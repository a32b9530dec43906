---------------------------- MODULE RouterConfig -----------------------------
(***************************************************************************)
(* mihomo-router-config.py: from the lines of a rules file and the policy  *)
(* map to the configuration of the smart router, or to an error.           *)
(*                                                                         *)
(* A line is split into its type, its value and its policy, None where a   *)
(* field is missing; comments are gone. What a value means, and the two    *)
(* spellings of a name that differ in case, are left out: a flow is named  *)
(* by the value that describes it.                                         *)
(***************************************************************************)
EXTENDS Naturals, Sequences, FiniteSets

CONSTANTS
  Usable,   \* exits whose configuration can be loaded
  Names,    \* everything that is no word: exits, loadable or not, and categories
  BadUrls,  \* rule sets refused: .srs, not https, credentials, private address
  None

DirectWords == {"direct", "direct-out", "dir"}
RejectWords == {"block", "reject", "reject-drop"}
Words == DirectWords \cup RejectWords

ASSUME RouterAssumption ==
  /\ Usable \subseteq Names
  /\ Names \cap Words = {}
  /\ None \notin Names

MatcherTypes == {"DOMAIN", "DOMAIN-SUFFIX", "DOMAIN-KEYWORD", "IP-CIDR", "IP-CIDR6", "GEOSITE", "GEOIP"}
SetTypes == {"RULE-SET", "RULESET", "RULE-PROVIDER"}

\* A policy map gives a target to some of the names, None to the others.
Target(t) ==
  CASE t \in DirectWords -> "DIRECT"
    [] t \in RejectWords -> "REJECT"
    [] OTHER             -> t

\* The policy map comes before the exits, so that a name in it is a category
\* even when an exit has the name.
Resolve(t, policy) ==
  IF t \in Names /\ policy[t] # None THEN Target(policy[t]) ELSE Target(t)

PolicyOf(line) == IF line.typ = "FINAL" /\ line.pol = None THEN "direct" ELSE line.pol

\* The line makes the generator die, whatever the policy map says.
Refused(line) ==
  /\ line.typ # "FINAL"
  /\ \/ line.pol = None
     \/ line.typ \notin MatcherTypes \cup SetTypes
     \/ line.typ \in SetTypes /\ line.val \in BadUrls

UsedExits(lines, policy) ==
  {Resolve(PolicyOf(lines[i]), policy) : i \in DOMAIN lines} \ {"DIRECT", "REJECT"}

RouteRule(line, policy) ==
  [typ |-> CASE line.typ = "FINAL"     -> "MATCH"
             [] line.typ = "IP-CIDR6"  -> "IP-CIDR"
             [] line.typ \in SetTypes  -> "RULE-SET"
             [] OTHER                  -> line.typ,
   val |-> line.val,
   target |-> Resolve(PolicyOf(line), policy)]

Generates(lines, policy) ==
  /\ \A i \in DOMAIN lines : ~ Refused(lines[i])
  /\ UsedExits(lines, policy) \subseteq Usable

Generate(lines, policy) ==
  [proxies |-> UsedExits(lines, policy),
   rules |-> [i \in DOMAIN lines |-> RouteRule(lines[i], policy)]]

\* What mihomo does with a configuration: the first rule that fits decides,
\* and a flow that none fits goes out directly.
Fits(rule, flow) == rule.typ = "MATCH" \/ rule.val = flow
Route(conf, flow) ==
  LET fitting == {i \in DOMAIN conf.rules : Fits(conf.rules[i], flow)}
  IN  IF fitting = {} THEN "DIRECT"
      ELSE conf.rules[CHOOSE i \in fitting : \A j \in fitting : i <= j].target
=============================================================================
