----------------------------- MODULE BotDialog ------------------------------
(***************************************************************************)
(* handle_message and handle_callback of tgbot.py for one chat: what a     *)
(* press or a text does to the dialog of the chat, which operation it asks *)
(* for and with which arguments.                                           *)
(*                                                                         *)
(* A message stays in the chat, so every button can be pressed at any      *)
(* time, in the middle of any dialog and long after its panel was drawn.   *)
(* What operations and other programs do to the rules, the policy map and  *)
(* the exits is Elsewhere: anything, at any time.                          *)
(***************************************************************************)
EXTENDS Naturals, Sequences, FiniteSets, SequencesExt, Places

CONSTANTS
  Exits,         \* names of exits other than local and smart
  Categories,    \* categories of the policy map
  RuleTexts,     \* rules a line of rules.conf can hold
  Comment,       \* a comment or blank line
  MaxLines,      \* bound: lines of rules.conf
  Ports,         \* keys of ports, 22/tcp among them
  SSH,           \* 22/tcp
  Values,        \* domains, addresses and keywords
  Types,         \* RULE_TYPES
  MaxDialogs,    \* bound: dialogs begun
  NoValue

VARIABLES
  ruleLines,  \* lines of rules.conf
  policies,   \* the categories of policy-map.conf, in order
  exits,      \* parse_exit_names without local and smart
  pending,    \* PENDING[chat_id]
  lastFailed, \* LAST_FAILED_DOT_DOMAIN[chat_id]
  trying,     \* domains whose set_dot_domain runs in the pool
  opened,     \* dialogs begun so far
  asked,      \* the operation the last press or text asked for
  spent       \* spent[d]: operations asked for in dialog d

dialogVars == <<ruleLines, policies, exits, pending, lastFailed, trying, opened, asked, spent>>
world == <<ruleLines, policies, exits>>
dot == <<lastFailed, trying>>

Dialogs == 1..MaxDialogs
LineSeqs == UNION {[1..n -> RuleTexts \cup {Comment}] : n \in 0..MaxLines}
PolicySeqs == {s \in UNION {[1..n -> Categories] : n \in 0..Cardinality(Categories)} : IsInjective(s)}

\* The buttons that begin a dialog, and the action they leave in PENDING.
Starts ==
  [rules_set |-> "rules_set", rules_add |-> "rules_add", exit_add |-> "add_exit_link",
   dot_domain |-> "dot_domain", dot_dns_remote |-> "dot_dns_remote", dot_dns_local |-> "dot_dns_local",
   fw_add |-> "fw_add", gfwl_add |-> "gfwl_add",
   rules_import_set |-> "rule_import_url", gfwl_import_set |-> "gfwl_set_url"]

\* The dialogs whose only text is the argument of an operation.
OneText == {Starts[b] : b \in DOMAIN Starts} \ {"dot_domain"}
Actions == OneText \cup {"dot_domain", "rules_del", "fw_note_text", "rule_value", "rule_target"}

ASSUME BotDialogAssumption ==
  /\ Comment \notin RuleTexts
  /\ SSH \in Ports
  /\ NoValue \notin Values \cup Types \cup Ports \cup Actions \cup {"op_add_rule", "op_del_rule"}
  /\ IsFiniteSet(Categories)
  /\ MaxLines \in Nat /\ MaxDialogs \in Nat

Pendings == [action : Actions \cup {NoValue}, id : 0..MaxDialogs, typ : Types \cup {NoValue},
             value : Values \cup {NoValue}, from : 0..MaxDialogs, listed : LineSeqs,
             port : Ports \cup {NoValue}]
NoDialog == [action |-> NoValue, id |-> 0, typ |-> NoValue, value |-> NoValue, from |-> 0,
             listed |-> <<>>, port |-> NoValue]
NewDialog(action) == [NoDialog EXCEPT !.action = action, !.id = opened + 1]

\* An operation asked for: its name, its argument, and the dialogs that the
\* parts of its argument come from.
NoOp == [name |-> NoValue, arg |-> <<>>, from |-> {}]

DialogTypeOK ==
  /\ ruleLines \in LineSeqs
  /\ policies \in PolicySeqs
  /\ exits \subseteq Exits
  /\ pending \in Pendings
  /\ pending.action = "rule_target" => pending.typ # NoValue /\ pending.value # NoValue
  /\ lastFailed \in Values \cup {NoValue}
  /\ trying \subseteq Values
  /\ opened \in 0..MaxDialogs
  /\ spent \in [Dialogs -> Nat]

DialogInit ==
  /\ ruleLines = <<>>
  /\ policies = <<>>
  /\ exits = {}
  /\ pending = NoDialog
  /\ lastFailed = NoValue
  /\ trying = {}
  /\ opened = 0
  /\ asked = NoOp
  /\ spent = [d \in Dialogs |-> 0]

\* What the jobs of the bot, the command line and the imports change.
Elsewhere ==
  /\ \/ ruleLines' \in LineSeqs /\ UNCHANGED <<policies, exits>>
     \/ policies' \in PolicySeqs /\ UNCHANGED <<ruleLines, exits>>
     \/ exits' \in SUBSET Exits /\ UNCHANGED <<ruleLines, policies>>
  /\ asked' = NoOp
  /\ UNCHANGED <<pending, dot, opened, spent>>

\* Nothing is asked for.
Quiet == asked' = NoOp /\ UNCHANGED spent

Ask(name, arg) == asked' = [name |-> name, arg |-> arg, from |-> {}] /\ UNCHANGED spent

\* The operation of the dialog that is under way.
AskOf(name, arg, from) ==
  /\ asked' = [name |-> name, arg |-> arg, from |-> from]
  /\ spent' = [spent EXCEPT ![pending.id] = @ + 1]

ValidRuleTarget(t) == t \in {"direct", "block"} \cup exits
Targets == {"direct", "block", "local", "smart"} \cup Exits

-----------------------------------------------------------------------------
(* Presses.                                                                *)

\* Only the main menu gives the dialog up; every other panel is drawn from
\* what there is and leaves the dialog alone.
PressMain ==
  /\ pending' = NoDialog
  /\ Quiet /\ UNCHANGED <<world, dot, opened>>

\* The buttons whose operation has no argument: status, refresh, check,
\* update_rules, renew, restart, enable, ios, logs.
PressPlain ==
  /\ Ask("plain", <<>>)
  /\ UNCHANGED <<world, pending, dot, opened>>

\* A dialog begins, in the place of the one that was under way.
Start(dialog) ==
  /\ opened < MaxDialogs
  /\ opened' = opened + 1
  /\ pending' = dialog
  /\ Quiet /\ UNCHANGED <<world, dot>>

PressStart(b) == Start(NewDialog(Starts[b]))

\* The rules are listed with their numbers, comments left out.
PressDelRule == Start([NewDialog("rules_del") EXCEPT !.listed = ruleLines])

PressNote(p) == Start([NewDialog("fw_note_text") EXCEPT !.port = p])

\* What a bug would do: change the type of the dialog that is under way.
PressTypeInPlace(t) ==
  IF pending.action \in {"rule_value", "rule_target"}
  THEN Start([pending EXCEPT !.typ = t, !.id = opened + 1])
  ELSE Start([NewDialog("rule_value") EXCEPT !.typ = t])

\* rt: the type of a rule; its value comes next.
PressType(t) == Start([NewDialog("rule_value") EXCEPT !.typ = t])

\* What a bug would do: leave the dialog open.
PressTargetAgain(t) ==
  /\ pending.action = "rule_target"
  /\ ValidRuleTarget(t)
  /\ AskOf("op_add_rule", <<pending.typ, pending.value, t>>, {pending.id, pending.from})
  /\ UNCHANGED <<world, pending, dot, opened>>

\* rta: the target of the rule whose type and value the dialog has.
PressTarget(t) ==
  /\ pending.action = "rule_target"
  /\ ValidRuleTarget(t)
  /\ AskOf("op_add_rule", <<pending.typ, pending.value, t>>, {pending.id, pending.from})
  /\ pending' = NoDialog
  /\ UNCHANGED <<world, dot, opened>>

\* The dialog has expired, or the exit is gone: the message says so.
PressTargetRefused(t) ==
  /\ pending.action # "rule_target" \/ ~ ValidRuleTarget(t)
  /\ Quiet /\ UNCHANGED <<world, pending, dot, opened>>

\* fin:, exit: and exitdel: carry a name, looked up again when pressed.
PressNamed(op, t) ==
  /\ CASE op = "op_set_final" -> ValidRuleTarget(t)
       [] op = "op_set_exit"  -> t \in {"local", "smart"} \cup exits
       [] op = "op_del_exit"  -> t \in exits
  /\ Ask(op, <<t>>)
  /\ UNCHANGED <<world, pending, dot, opened>>

\* ps: carries a position, and sets the category that has it by now.
PressPolicyTarget(idx, t) ==
  /\ idx \in DOMAIN policies /\ ValidRuleTarget(t)
  /\ Ask("op_set_policy", <<policies[idx], t>>)
  /\ UNCHANGED <<world, pending, dot, opened>>

\* fw_del:, except of 22/tcp. The port of another button's message will do.
PressClosePort(p) ==
  /\ p # SSH
  /\ Ask("op_firewall_del_port_key", <<p>>)
  /\ UNCHANGED <<world, pending, dot, opened>>

\* dot:force_domain forces the domain that failed last, whatever domain the
\* message of the button is about; a success forgets it.
PressForce ==
  /\ lastFailed # NoValue
  /\ Ask("op_force_set_dot_domain", <<lastFailed>>)
  /\ lastFailed' \in {NoValue, lastFailed}
  /\ UNCHANGED <<world, pending, trying, opened>>

-----------------------------------------------------------------------------
(* Texts.                                                                  *)

\* /cancel and every other command give the dialog up.
TextCommand ==
  /\ pending' = NoDialog
  /\ Quiet /\ UNCHANGED <<world, dot, opened>>

\* No dialog, or a text that does not end it: one that is no exit for
\* add_exit_link, an empty one for rule_value.
TextKept ==
  /\ pending.action \in {NoValue, "add_exit_link", "rule_value"}
  /\ Quiet /\ UNCHANGED <<world, pending, dot, opened>>

\* A text that is no port, no number of a rule, or that came where a button
\* was expected: the dialog ends.
TextRefused ==
  /\ pending.action \in {"fw_add", "rules_del", "rule_target"}
  /\ pending' = NoDialog
  /\ Quiet /\ UNCHANGED <<world, dot, opened>>

TextAnswer ==
  /\ pending.action \in OneText
  /\ AskOf(pending.action, <<>>, {pending.id})
  /\ pending' = NoDialog
  /\ UNCHANGED <<world, dot, opened>>

TextNote ==
  /\ pending.action = "fw_note_text"
  /\ AskOf("op_firewall_set_note", <<pending.port>>, {pending.id})
  /\ pending' = NoDialog
  /\ UNCHANGED <<world, dot, opened>>

\* The positions of the rules among the lines: _rule_entries.
RulePlaces(lines) == {i \in DOMAIN lines : lines[i] # Comment}
Entries(lines) == InOrder(RulePlaces(lines))

\* What a bug would do: take the number of a rule for that of its line.
TextDelRuleByLine(n) ==
  /\ pending.action = "rules_del"
  /\ n \in DOMAIN Entries(ruleLines)
  /\ AskOf("op_del_rule", <<n, RemoveAt(ruleLines, n)>>, {pending.id})
  /\ pending' = NoDialog
  /\ UNCHANGED <<world, dot, opened>>

\* op_del_rule: the n-th rule there is now goes from the lines.
TextDelRule(n) ==
  /\ pending.action = "rules_del"
  /\ n \in DOMAIN Entries(ruleLines)
  /\ AskOf("op_del_rule", <<n, RemoveAt(ruleLines, Entries(ruleLines)[n])>>, {pending.id})
  /\ pending' = NoDialog
  /\ UNCHANGED <<world, dot, opened>>

TextRuleValue(v) ==
  /\ pending.action = "rule_value"
  /\ pending' = [pending EXCEPT !.action = "rule_target", !.value = v, !.from = pending.id]
  /\ Quiet /\ UNCHANGED <<world, dot, opened>>

\* The job of op_set_dot_domain runs in the background for a minute or two.
TextDotDomain(v) ==
  /\ pending.action = "dot_domain"
  /\ AskOf("op_set_dot_domain", <<v>>, {pending.id})
  /\ trying' = trying \cup {v}
  /\ pending' = NoDialog
  /\ UNCHANGED <<world, lastFailed, opened>>

\* Its end: a failure offers to force the domain, a success forgets the last
\* failure, of this domain or another.
DotDomainEnds(v) ==
  /\ v \in trying
  /\ trying' = trying \ {v}
  /\ lastFailed' \in {v, NoValue}
  /\ Quiet /\ UNCHANGED <<world, pending, opened>>

-----------------------------------------------------------------------------
Press ==
  \/ PressMain \/ PressPlain \/ PressDelRule \/ PressForce
  \/ \E b \in DOMAIN Starts : PressStart(b)
  \/ \E p \in Ports : PressNote(p) \/ PressClosePort(p)
  \/ \E t \in Types : PressType(t)
  \/ \E t \in Targets :
       \/ PressTarget(t) \/ PressTargetRefused(t)
       \/ \E op \in {"op_set_final", "op_set_exit", "op_del_exit"} : PressNamed(op, t)
       \/ \E idx \in DOMAIN policies : PressPolicyTarget(idx, t)

Text ==
  \/ TextCommand \/ TextKept \/ TextRefused \/ TextAnswer \/ TextNote
  \/ \E n \in 1..MaxLines : TextDelRule(n)
  \/ \E v \in Values : TextRuleValue(v) \/ TextDotDomain(v)

DialogNext == Elsewhere \/ Press \/ Text \/ \E v \in Values : DotDomainEnds(v)

DialogSpec == DialogInit /\ [][DialogNext]_dialogVars

-----------------------------------------------------------------------------
(* Properties.                                                             *)

\* A rule added with the buttons has its type and its value from one dialog,
\* the one its target was asked in, however many were begun and left before.
RuleFromOneDialog == asked.name = "op_add_rule" => Cardinality(asked.from) = 1

\* A dialog asks for one operation at most, however often the buttons of its
\* messages are pressed and whatever is typed.
OneOperationPerDialog == \A d \in Dialogs : spent[d] <= 1

RulesOf(lines) == KeptAt(lines, RulePlaces(lines))

\* The rule deleted by its number is the one the list showed under it, and no
\* other rule and no comment goes, unless the rules changed since the list.
DeletesListedRule ==
  [][(asked'.name = "op_del_rule" /\ ruleLines = pending.listed)
       => LET n == asked'.arg[1]
              left == asked'.arg[2]
          IN  /\ RulesOf(left) = RemoveAt(RulesOf(pending.listed), n)
              /\ Len(left) = Len(pending.listed) - 1]_dialogVars
=============================================================================
