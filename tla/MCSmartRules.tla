---------------------------- MODULE MCSmartRules -----------------------------
(***************************************************************************)
(* SmartRules for TLC: two exits, two domains, and two categories, one of  *)
(* which has a name that ends with that of the other.                      *)
(***************************************************************************)
EXTENDS SmartRules

Line(typ, val, pol) == [typ |-> typ, val |-> val, pol |-> pol]
Raw(typ, val, pol) == [typ |-> typ, val |-> val, pol |-> pol, members |-> <<>>]
Pair(typ, pol) == [typ |-> typ, val |-> None, pol |-> pol,
                   members |-> <<[typ |-> "DOMAIN", val |-> "d1"], [typ |-> "SRC-IP", val |-> "d2"]>>]

MCBare == ("AI" :> "AI") @@ ("*ads" :> "ads") @@ ("*" :> None) @@ ("hk" :> "hk")
MCDefault == <<Line("RULE-SET", "speedtest", "Speedtest")>>
MCFirst == <<Line("DOMAIN", "d1", "AI")>>

\* Lists with what the importer has to treat: a FINAL that is not last, two of
\* them, an OR, an AND, types of DROP, a policy of symbols.
RawLists ==
  {<<Raw("FINAL", None, "AI"), Raw("DOMAIN", "d1", "hk")>>,
   <<Raw("FINAL", None, "AI"), Pair("OR", "*ads"), Raw("FINAL", None, None)>>,
   <<Pair("AND", "hk"), Raw("IP-CIDR6", "d1", "AI"), Raw("DOMAIN", "d2", "*")>>,
   <<Raw("SRC-IP", "d1", "AI")>>}

MCOps ==
  {[kind |-> "add", line |-> Line("DOMAIN", "d2", "hk")],
   [kind |-> "add", line |-> Line("RULE-SET", "srs", "AI")],
   [kind |-> "del", n |-> 1], [kind |-> "final", pol |-> "hk"],
   [kind |-> "proxy", line |-> Line("DOMAIN-SUFFIX", "d1", "hk")],
   [kind |-> "policy", cat |-> "AI", pol |-> "jp"], [kind |-> "nopolicy", cat |-> "AI"],
   [kind |-> "rename", old |-> "AI", new |-> "OpenAI"], [kind |-> "regen"]}
    \cup {[kind |-> "import", raws |-> l] : l \in RawLists}

MCEndings == {<<"OpenAI", "AI">>}

\* What a user of the bot asks for who picks the exit of a rule.
AddOps == {[kind |-> "add", line |-> Line("DOMAIN", "d1", x)] : x \in {"hk", "jp"}}
=============================================================================
