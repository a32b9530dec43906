-------------------------- MODULE BotDialog_proofs ---------------------------
(***************************************************************************)
(* A dialog asks for one operation, whose parts are all its own, and the   *)
(* rule that is deleted by its number is the one that was listed: for any  *)
(* number of dialogs, rules, lines, exits and ports.                       *)
(*                                                                         *)
(* The first two properties speak of what was asked; DialogInv says why:   *)
(* the dialog in PENDING is one that was begun, it has asked for nothing   *)
(* yet, and if it waits for a target, its value was typed in it. The last  *)
(* one is about lists with comments between the rules; the k-th rule is    *)
(* the line whose place has rank k.                                        *)
(***************************************************************************)
EXTENDS BotDialog, FiniteSetTheorems, SequenceTheorems, TLAPS

DialogShape ==
  /\ ruleLines \in LineSeqs
  /\ pending \in Pendings
  /\ opened \in 0..MaxDialogs
  /\ spent \in [Dialogs -> Nat]

Unspent ==
  /\ pending.action # NoValue => pending.id \in 1..opened /\ spent[pending.id] = 0
  /\ \A d \in Dialogs : d > opened => spent[d] = 0

OwnValue == pending.action = "rule_target" => pending.from = pending.id

DialogInv == DialogShape /\ Unspent /\ OwnValue /\ RuleFromOneDialog /\ OneOperationPerDialog

\* The actions that PENDING can have, by name.
LEMMA DialogActions ==
  /\ \A b \in DOMAIN Starts : Starts[b] \in Actions /\ Starts[b] # "rule_target"
  /\ OneText \subseteq Actions
  /\ "op_add_rule" \notin OneText /\ "rule_target" \notin OneText
  /\ {"rules_del", "fw_note_text", "rule_value", "rule_target", "dot_domain"} \subseteq Actions
<1>1. DOMAIN Starts = {"rules_set", "rules_add", "exit_add", "dot_domain", "dot_dns_remote",
                       "dot_dns_local", "fw_add", "gfwl_add", "rules_import_set", "gfwl_import_set"}
  BY DEF Starts
<1>2. \A b \in DOMAIN Starts :
        Starts[b] \in {"rules_set", "rules_add", "add_exit_link", "dot_domain", "dot_dns_remote",
                       "dot_dns_local", "fw_add", "gfwl_add", "rule_import_url", "gfwl_set_url"}
  BY <1>1 DEF Starts
<1>3. \A b \in DOMAIN Starts : Starts[b] \in Actions
  BY DEF OneText, Actions
<1> QED
  BY <1>2, <1>3 DEF OneText, Actions

LEMMA NoDialogShape == NoDialog \in Pendings /\ NoDialog.action = NoValue
<1>1. <<>> \in LineSeqs
  <2>1. <<>> \in [1..0 -> RuleTexts \cup {Comment}]
    OBVIOUS
  <2> QED
    BY <2>1, BotDialogAssumption DEF BotDialogAssumption, LineSeqs
<1> QED
  BY <1>1, BotDialogAssumption DEF BotDialogAssumption, NoDialog, Pendings

LEMMA DialogInitInv == DialogInit => DialogInv
<1> SUFFICES ASSUME DialogInit PROVE DialogInv
  OBVIOUS
<1> USE BotDialogAssumption DEF BotDialogAssumption
<1>1. DialogShape
  <2>1. <<>> \in LineSeqs
    BY NoDialogShape DEF NoDialog, Pendings
  <2> QED
    BY <2>1, NoDialogShape DEF DialogInit, DialogShape, Dialogs
<1>2. Unspent /\ OwnValue /\ OneOperationPerDialog
  BY NoDialogShape, DialogActions
  DEF DialogInit, Unspent, OwnValue, OneOperationPerDialog, Dialogs
<1>3. RuleFromOneDialog
  BY DEF DialogInit, RuleFromOneDialog, NoOp
<1> QED
  BY <1>1, <1>2, <1>3 DEF DialogInv

\* The dialog of the chat, and what every dialog asked for, are left alone.
Same ==
  /\ ruleLines' \in LineSeqs
  /\ asked'.name # "op_add_rule"
  /\ UNCHANGED <<pending, opened, spent>>

LEMMA SameInv == DialogInv /\ Same => DialogInv'
  BY DEF Same, DialogInv, DialogShape, Unspent, OwnValue, RuleFromOneDialog, OneOperationPerDialog

\* /cancel, the main menu and texts that are no answer.
LEMMA ClearedInv ==
  ASSUME DialogInv, pending' = NoDialog, Quiet, UNCHANGED <<ruleLines, opened>>
  PROVE  DialogInv'
<1> USE BotDialogAssumption DEF BotDialogAssumption
<1>1. (DialogShape /\ Unspent /\ OneOperationPerDialog)'
  BY NoDialogShape DEF DialogInv, DialogShape, Unspent, OneOperationPerDialog, Quiet
<1>2. (OwnValue /\ RuleFromOneDialog)'
  BY NoDialogShape, DialogActions DEF OwnValue, RuleFromOneDialog, Quiet, NoOp
<1> QED
  BY <1>1, <1>2 DEF DialogInv

\* A button that begins a dialog takes the place of the one there was.
LEMMA StartedInv ==
  ASSUME DialogInv, NEW dialog \in [action : Actions \ {"rule_target"}, id : {opened + 1},
                                    typ : Types \cup {NoValue}, value : {NoValue}, from : {0},
                                    listed : LineSeqs, port : Ports \cup {NoValue}],
         Start(dialog), UNCHANGED ruleLines
  PROVE  DialogInv'
<1> USE BotDialogAssumption DEF BotDialogAssumption
<1>1. opened' \in 1..MaxDialogs /\ opened' = opened + 1 /\ opened \in Nat
  BY DEF DialogInv, DialogShape, Start
<1>2. DialogShape'
  BY <1>1 DEF DialogInv, DialogShape, Start, Quiet, Pendings
<1>3. Unspent'
  BY <1>1 DEF DialogInv, DialogShape, Unspent, Start, Quiet, Dialogs
<1>4. OwnValue'
  BY DEF OwnValue, Start
<1>5. (RuleFromOneDialog /\ OneOperationPerDialog)'
  BY DEF DialogInv, RuleFromOneDialog, OneOperationPerDialog, Start, Quiet, NoOp
<1> QED
  BY <1>2, <1>3, <1>4, <1>5 DEF DialogInv

\* The dialog under way has what it needs, asks, and ends.
LEMMA AnsweredInv ==
  ASSUME DialogInv, pending.action # NoValue, pending' = NoDialog,
         NEW name, NEW arg, NEW from, AskOf(name, arg, from),
         name = "op_add_rule" => from = {pending.id},
         UNCHANGED <<ruleLines, opened>>
  PROVE  DialogInv'
<1> USE BotDialogAssumption DEF BotDialogAssumption
<1>1. pending.id \in Dialogs /\ pending.id <= opened /\ spent[pending.id] = 0
  BY DEF DialogInv, DialogShape, Unspent, Dialogs
<1>2. /\ spent' \in [Dialogs -> Nat]
      /\ spent'[pending.id] = 1
      /\ \A d \in Dialogs \ {pending.id} : spent'[d] = spent[d]
  BY <1>1 DEF DialogInv, DialogShape, AskOf
<1>3. DialogShape'
  BY <1>2, NoDialogShape DEF DialogInv, DialogShape
<1>4. Unspent'
  <2>1. \A d \in Dialogs : d > opened => d # pending.id
    BY <1>1 DEF DialogInv, DialogShape, Dialogs
  <2> QED
    BY <1>2, <2>1, NoDialogShape DEF DialogInv, Unspent
<1>5. OwnValue'
  BY NoDialogShape, DialogActions DEF OwnValue
<1>6. RuleFromOneDialog'
  BY FS_Singleton DEF AskOf, RuleFromOneDialog
<1>7. OneOperationPerDialog'
  BY <1>2 DEF DialogInv, OneOperationPerDialog
<1> QED
  BY <1>3, <1>4, <1>5, <1>6, <1>7 DEF DialogInv

\* Presses of handle_callback that leave the dialog alone.
LEMMA PressSame ==
  ASSUME DialogInv,
         \/ Elsewhere \/ PressPlain \/ PressForce \/ TextKept
         \/ \E p \in Ports : PressClosePort(p)
         \/ \E t \in Targets : PressTargetRefused(t)
         \/ \E t \in Targets, op \in {"op_set_final", "op_set_exit", "op_del_exit"} : PressNamed(op, t)
         \/ \E t \in Targets, idx \in DOMAIN policies : PressPolicyTarget(idx, t)
         \/ \E v \in Values : DotDomainEnds(v)
         \/ UNCHANGED dialogVars
  PROVE  DialogInv'
<1> USE BotDialogAssumption DEF BotDialogAssumption
<1>1. ruleLines \in LineSeqs
  BY DEF DialogInv, DialogShape
<1>2. CASE UNCHANGED dialogVars
  BY <1>2 DEF dialogVars, DialogInv, DialogShape, Unspent, OwnValue, RuleFromOneDialog,
     OneOperationPerDialog
<1>3. CASE Elsewhere
  BY <1>1, <1>3, SameInv DEF Elsewhere, Same, NoOp
<1>4. CASE PressPlain \/ PressForce \/ \E p \in Ports : PressClosePort(p)
  BY <1>1, <1>4, SameInv DEF PressPlain, PressForce, PressClosePort, Ask, Same, world
<1>5. CASE TextKept \/ (\E t \in Targets : PressTargetRefused(t)) \/ (\E v \in Values : DotDomainEnds(v))
  BY <1>1, <1>5, SameInv DEF TextKept, PressTargetRefused, DotDomainEnds, Quiet, NoOp, Same, world
<1>6. CASE \E t \in Targets, op \in {"op_set_final", "op_set_exit", "op_del_exit"} : PressNamed(op, t)
  BY <1>1, <1>6, SameInv DEF PressNamed, Ask, Same, world
<1>7. CASE \E t \in Targets, idx \in DOMAIN policies : PressPolicyTarget(idx, t)
  BY <1>1, <1>7, SameInv DEF PressPolicyTarget, Ask, Same, world
<1> QED
  BY <1>2, <1>3, <1>4, <1>5, <1>6, <1>7

\* Presses that begin a dialog: those of Starts, the number of a rule to
\* delete, a note, the type of a rule.
LEMMA PressStarts ==
  ASSUME DialogInv,
         \/ \E b \in DOMAIN Starts : PressStart(b)
         \/ PressDelRule
         \/ \E p \in Ports : PressNote(p)
         \/ \E t \in Types : PressType(t)
  PROVE  DialogInv'
<1> DEFINE Begun == [action : Actions \ {"rule_target"}, id : {opened + 1}, typ : Types \cup {NoValue},
                     value : {NoValue}, from : {0}, listed : LineSeqs, port : Ports \cup {NoValue}]
<1>1. <<>> \in LineSeqs /\ ruleLines \in LineSeqs
  BY NoDialogShape DEF DialogInv, DialogShape, NoDialog, Pendings
<1>2. \A b \in DOMAIN Starts : NewDialog(Starts[b]) \in Begun
  BY <1>1, DialogActions DEF NewDialog, NoDialog
<1>3. [NewDialog("rules_del") EXCEPT !.listed = ruleLines] \in Begun
  BY <1>1, DialogActions DEF NewDialog, NoDialog
<1>4. \A p \in Ports : [NewDialog("fw_note_text") EXCEPT !.port = p] \in Begun
  BY <1>1, DialogActions DEF NewDialog, NoDialog
<1>5. \A t \in Types : [NewDialog("rule_value") EXCEPT !.typ = t] \in Begun
  BY <1>1, DialogActions DEF NewDialog, NoDialog
<1>6. \A dialog \in Begun : Start(dialog) => DialogInv'
  BY StartedInv DEF Start, world
<1> QED
  BY <1>2, <1>3, <1>4, <1>5, <1>6 DEF PressStart, PressDelRule, PressNote, PressType

\* Texts that answer, and the button of a target.
LEMMA Answers ==
  ASSUME DialogInv,
         \/ TextAnswer \/ TextNote
         \/ \E n \in 1..MaxLines : TextDelRule(n)
         \/ \E v \in Values : TextDotDomain(v)
         \/ \E t \in Targets : PressTarget(t)
  PROVE  DialogInv'
<1> USE BotDialogAssumption DEF BotDialogAssumption
<1>1. CASE TextAnswer
  BY <1>1, AnsweredInv, DialogActions DEF TextAnswer, world
<1>2. CASE TextNote
  <2>1. pending.action # NoValue /\ "op_firewall_set_note" # "op_add_rule"
    BY <1>2, DialogActions DEF TextNote
  <2> QED
    BY <1>2, <2>1, AnsweredInv DEF TextNote, world
<1>3. ASSUME NEW n \in 1..MaxLines, TextDelRule(n)
      PROVE  DialogInv'
  <2>1. pending.action # NoValue /\ "op_del_rule" # "op_add_rule"
    BY <1>3, DialogActions DEF TextDelRule
  <2> QED
    BY <1>3, <2>1, AnsweredInv DEF TextDelRule, world
<1>4. ASSUME NEW v \in Values, TextDotDomain(v)
      PROVE  DialogInv'
  <2>1. pending.action # NoValue /\ "op_set_dot_domain" # "op_add_rule"
    BY <1>4, DialogActions DEF TextDotDomain
  <2> QED
    BY <1>4, <2>1, AnsweredInv DEF TextDotDomain, world
<1>5. ASSUME NEW t \in Targets, PressTarget(t)
      PROVE  DialogInv'
  <2>1. pending.action # NoValue /\ {pending.id, pending.from} = {pending.id}
    BY <1>5, DialogActions DEF PressTarget, DialogInv, OwnValue
  <2> QED
    BY <1>5, <2>1, AnsweredInv DEF PressTarget, world
<1> QED
  BY <1>1, <1>2, <1>3, <1>4, <1>5

\* The value of a rule is kept with its type, in the same dialog.
LEMMA ValueTyped ==
  ASSUME DialogInv, NEW v \in Values, TextRuleValue(v)
  PROVE  DialogInv'
<1> USE BotDialogAssumption DEF BotDialogAssumption
<1>1. /\ pending' \in Pendings
      /\ pending'.action = "rule_target" /\ pending'.id = pending.id /\ pending'.from = pending.id
  BY DialogActions DEF DialogInv, DialogShape, TextRuleValue, Pendings
<1>2. pending.action # NoValue
  BY DialogActions DEF TextRuleValue
<1>3. DialogShape'
  BY <1>1 DEF DialogInv, DialogShape, TextRuleValue, Quiet, world
<1>4. Unspent'
  BY <1>1, <1>2 DEF DialogInv, Unspent, TextRuleValue, Quiet
<1>5. (OwnValue /\ RuleFromOneDialog /\ OneOperationPerDialog)'
  BY <1>1 DEF DialogInv, OwnValue, RuleFromOneDialog, OneOperationPerDialog, TextRuleValue, Quiet, NoOp
<1> QED
  BY <1>3, <1>4, <1>5 DEF DialogInv

\* Every press, text and job keeps DialogInv.
LEMMA DialogNextInv == DialogInv /\ [DialogNext]_dialogVars => DialogInv'
<1> SUFFICES ASSUME DialogInv, [DialogNext]_dialogVars PROVE DialogInv'
  OBVIOUS
<1>1. CASE PressMain \/ TextCommand \/ TextRefused
  BY <1>1, ClearedInv DEF PressMain, TextCommand, TextRefused, world
<1>2. CASE Press
  BY <1>1, <1>2, PressSame, PressStarts, Answers DEF Press
<1>3. CASE Text
  BY <1>1, <1>3, PressSame, Answers, ValueTyped DEF Text
<1> QED
  BY <1>2, <1>3, PressSame DEF DialogNext

\* A rule added with the buttons has its type, its value and its target from
\* one dialog, in every run of handle_callback and handle_message.
THEOREM RulesFromOneDialog == DialogSpec => []RuleFromOneDialog
<1>1. DialogInv => RuleFromOneDialog
  BY DEF DialogInv
<1> QED
  BY <1>1, DialogInitInv, DialogNextInv, PTL DEF DialogSpec

\* A dialog that handle_message or handle_callback has answered is gone: it
\* never asks for a second operation.
THEOREM OneOperationEach == DialogSpec => []OneOperationPerDialog
<1>1. DialogInv => OneOperationPerDialog
  BY DEF DialogInv
<1> QED
  BY <1>1, DialogInitInv, DialogNextInv, PTL DEF DialogSpec

-----------------------------------------------------------------------------
(* The type of the dialog and of what it is about.                         *)

\* Only a dialog that has the type of a rule, by the button that began it,
\* asks for a value, and only one that has both asks for a target.
TypeInv ==
  /\ DialogTypeOK
  /\ pending.action = "rule_value" => pending.typ # NoValue

LEMMA TypeInitInv == DialogInit => TypeInv
<1> SUFFICES ASSUME DialogInit PROVE TypeInv
  OBVIOUS
<1>1. DialogShape
  BY DialogInitInv DEF DialogInv
<1>2. policies \in PolicySeqs
  <2>1. <<>> \in [1..0 -> Categories] /\ IsInjective(<<>>)
    BY DEF IsInjective
  <2>2. Cardinality(Categories) \in Nat
    BY BotDialogAssumption, FS_CardinalityType DEF BotDialogAssumption
  <2>3. 0 \in 0..Cardinality(Categories)
    BY <2>2
  <2> QED
    BY <2>1, <2>3 DEF DialogInit, PolicySeqs
<1>3. pending.action = NoValue
  BY NoDialogShape DEF DialogInit
<1>4. NoValue \notin {"rule_target", "rule_value"}
  BY DialogActions, BotDialogAssumption DEF BotDialogAssumption
<1> QED
  BY <1>1, <1>2, <1>3, <1>4 DEF TypeInv, DialogTypeOK, DialogShape, DialogInit

\* A step of the dialog, but for what it leaves in PENDING.
LEMMA TypeKept ==
  ASSUME TypeInv, DialogShape', policies' \in PolicySeqs, exits' \subseteq Exits,
         lastFailed' \in Values \cup {NoValue}, trying' \subseteq Values,
         pending'.action \in {"rule_value", "rule_target"} => pending'.typ # NoValue,
         pending'.action = "rule_target" => pending'.value # NoValue
  PROVE  TypeInv'
BY DEF TypeInv, DialogTypeOK, DialogShape

LEMMA TypeNextInv == DialogInv /\ TypeInv /\ [DialogNext]_dialogVars => TypeInv'
<1> SUFFICES ASSUME DialogInv, TypeInv, [DialogNext]_dialogVars PROVE TypeInv'
  OBVIOUS
<1> USE BotDialogAssumption DEF BotDialogAssumption
<1>1. DialogShape'
  BY DialogNextInv DEF DialogInv
<1>2. /\ policies \in PolicySeqs /\ exits \subseteq Exits
      /\ lastFailed \in Values \cup {NoValue} /\ trying \subseteq Values
      /\ pending.action \in {"rule_value", "rule_target"} => pending.typ # NoValue
      /\ pending.action = "rule_target" => pending.value # NoValue
  BY DEF TypeInv, DialogTypeOK
<1>3. NoDialog.action \notin {"rule_value", "rule_target"}
  BY NoDialogShape, DialogActions
<1>4. CASE Elsewhere
  BY <1>1, <1>2, <1>4, TypeKept DEF Elsewhere, dot
<1>5. CASE Press
  <2>1. policies' = policies /\ exits' = exits /\ trying' = trying /\ lastFailed' \in {NoValue, lastFailed}
    BY <1>5
    DEF Press, PressMain, PressPlain, PressStart, PressDelRule, PressNote, PressType, Start, PressTarget,
        PressTargetRefused, PressNamed, PressPolicyTarget, PressClosePort, PressForce, world, dot
  <2>2. /\ pending'.action \in {"rule_value", "rule_target"} => pending'.typ # NoValue
        /\ pending'.action = "rule_target" => pending'.value # NoValue
    <3>1. CASE pending' = pending \/ pending' = NoDialog
      BY <1>2, <1>3, <3>1
    <3>2. ASSUME NEW b \in DOMAIN Starts, PressStart(b)
          PROVE  pending'.action \notin {"rule_value", "rule_target"}
      <4>1. pending'.action = Starts[b]
        BY <3>2 DEF PressStart, Start, NewDialog, NoDialog
      <4>2. Starts[b] # "rule_value" /\ Starts[b] # "rule_target"
        BY DEF Starts
      <4> QED
        BY <4>1, <4>2
    <3>3. CASE PressDelRule \/ \E p \in Ports : PressNote(p)
      BY <3>3 DEF PressDelRule, PressNote, Start, NewDialog, NoDialog
    <3>4. ASSUME NEW t \in Types, PressType(t)
          PROVE  pending'.action = "rule_value" /\ pending'.typ = t
      BY <3>4 DEF PressType, Start, NewDialog, NoDialog
    <3>5. \/ pending' = pending \/ pending' = NoDialog
          \/ \E b \in DOMAIN Starts : PressStart(b)
          \/ PressDelRule \/ \E p \in Ports : PressNote(p)
          \/ \E t \in Types : PressType(t)
      BY <1>5
      DEF Press, PressMain, PressPlain, PressTarget, PressTargetRefused, PressNamed,
          PressPolicyTarget, PressClosePort, PressForce
    <3> QED
      BY <3>1, <3>2, <3>3, <3>4, <3>5
  <2> QED
    BY <1>1, <1>2, <2>1, <2>2, TypeKept
<1>6. CASE Text
  <2>1. policies' = policies /\ exits' = exits /\ lastFailed' = lastFailed /\ trying' \subseteq Values
    BY <1>2, <1>6
    DEF Text, TextCommand, TextKept, TextRefused, TextAnswer, TextNote, TextDelRule, TextRuleValue,
        TextDotDomain, world, dot
  <2>2. CASE pending' = pending \/ pending' = NoDialog
    BY <1>1, <1>2, <1>3, <2>1, <2>2, TypeKept
  <2>3. ASSUME NEW v \in Values, TextRuleValue(v)
        PROVE  pending'.action = "rule_target" /\ pending'.typ = pending.typ /\ pending'.value = v
               /\ pending.action = "rule_value"
    BY <2>3 DEF DialogInv, DialogShape, Pendings, TextRuleValue
  <2>4. \/ pending' = pending \/ pending' = NoDialog
        \/ \E v \in Values : TextRuleValue(v)
    BY <1>6 DEF Text, TextCommand, TextKept, TextRefused, TextAnswer, TextNote, TextDelRule, TextDotDomain
  <2> QED
    BY <1>1, <1>2, <2>1, <2>2, <2>3, <2>4, TypeKept
<1>7. CASE \E v \in Values : DotDomainEnds(v)
  BY <1>1, <1>2, <1>7, TypeKept DEF DotDomainEnds, world
<1>8. CASE UNCHANGED dialogVars
  BY <1>1, <1>2, <1>8, TypeKept DEF dialogVars
<1> QED
  BY <1>4, <1>5, <1>6, <1>7, <1>8 DEF DialogNext

\* handle_message and handle_callback keep a dialog, a list of rules and a
\* policy map of their type, and the button of a target never finds a rule
\* without its type or its value.
THEOREM DialogTypeCorrect == DialogSpec => []DialogTypeOK
<1>1. TypeInv => DialogTypeOK
  BY DEF TypeInv
<1>2. DialogInit => DialogInv /\ TypeInv
  BY DialogInitInv, TypeInitInv
<1>3. DialogInv /\ TypeInv /\ [DialogNext]_dialogVars => (DialogInv /\ TypeInv)'
  BY DialogNextInv, TypeNextInv
<1> QED
  BY <1>1, <1>2, <1>3, PTL DEF DialogSpec

-----------------------------------------------------------------------------
(* The rule with a number, and the lines without it. Two places of a set   *)
(* never have one rank, and there are as many ranks as places, so the k-th *)
(* place is the one of rank k (PlaceOfRank). When a line goes, the places  *)
(* behind it move up by one, and so do their ranks (RankOfRest).           *)

LEMMA RankRange ==
  ASSUME NEW P \in SUBSET Nat, IsFiniteSet(P)
  PROVE  /\ Cardinality(P) \in Nat
         /\ \A i \in P : Rank(P, i) \in 1..Cardinality(P)
         /\ \A i, j \in P : i < j => Rank(P, i) < Rank(P, j)
<1> DEFINE Upto(i) == {j \in P : j <= i}
<1>1. \A i \in P : IsFiniteSet(Upto(i)) /\ Cardinality(Upto(i)) \in Nat
                   /\ Cardinality(Upto(i)) <= Cardinality(P)
  <2> SUFFICES ASSUME NEW i \in P
               PROVE  IsFiniteSet(Upto(i)) /\ Cardinality(Upto(i)) \in Nat
                      /\ Cardinality(Upto(i)) <= Cardinality(P)
    OBVIOUS
  <2> DEFINE T == Upto(i)
  <2>1. T \in SUBSET P
    OBVIOUS
  <2> HIDE DEF T
  <2>2. IsFiniteSet(T) /\ Cardinality(T) \in Nat /\ Cardinality(T) <= Cardinality(P)
    BY <2>1, FS_Subset, FS_CardinalityType
  <2> QED
    BY <2>2 DEF T
<1>2. Cardinality(P) \in Nat
  BY FS_CardinalityType
<1>3. \A i \in P : Cardinality(Upto(i)) # 0
  <2> SUFFICES ASSUME NEW i \in P PROVE Cardinality(Upto(i)) # 0
    OBVIOUS
  <2> DEFINE T == Upto(i)
  <2>1. i \in T /\ IsFiniteSet(T)
    BY <1>1
  <2> HIDE DEF T
  <2>2. Cardinality(T) # 0
    BY <2>1, FS_EmptySet
  <2> QED
    BY <2>2 DEF T
<1>4. ASSUME NEW i \in P, NEW j \in P, i < j
      PROVE  Cardinality(Upto(i)) < Cardinality(Upto(j))
  <2> DEFINE S == Upto(i)
             T == Upto(j)
  <2>1. S \in SUBSET T /\ j \in T /\ j \notin S
    <3>1. i \in Nat /\ j \in Nat /\ P \subseteq Nat
      OBVIOUS
    <3>2. \A l \in P : l <= i => l <= j
      BY <1>4, <3>1
    <3>3. S = {l \in P : l <= i} /\ T = {l \in P : l <= j}
      OBVIOUS
    <3> HIDE DEF S, T
    <3>4. j \in T /\ j \notin S
      BY <1>4, <3>1, <3>3
    <3> QED
      BY <3>2, <3>3, <3>4
  <2>2. IsFiniteSet(T) /\ Cardinality(T) \in Nat /\ Cardinality(S) \in Nat
    BY <1>1
  <2> HIDE DEF S, T
  <2>3. Cardinality(S) <= Cardinality(T) /\ Cardinality(S) # Cardinality(T)
    BY <2>1, <2>2, FS_Subset
  <2>4. Cardinality(S) < Cardinality(T)
    BY <2>2, <2>3
  <2> QED
    BY <2>4 DEF S, T
<1>5. \A i \in P : Rank(P, i) = Cardinality(Upto(i))
  BY DEF Rank
<1> HIDE DEF Upto
<1>6. \A i \in P : Rank(P, i) \in 1..Cardinality(P)
  BY <1>1, <1>2, <1>3, <1>5
<1> QED
  BY <1>2, <1>4, <1>5, <1>6

\* Every rank is that of one place.
LEMMA PlaceOfRank ==
  ASSUME NEW P \in SUBSET Nat, IsFiniteSet(P)
  PROVE  /\ \A k \in 1..Cardinality(P) : PlaceOf(P, k) \in P /\ Rank(P, PlaceOf(P, k)) = k
         /\ \A i \in P : PlaceOf(P, Rank(P, i)) = i
<1> DEFINE n == Cardinality(P)
           f == [i \in P |-> Rank(P, i)]
<1>1. /\ n \in Nat
      /\ \A i \in P : Rank(P, i) \in 1..n
      /\ \A i, j \in P : i < j => Rank(P, i) < Rank(P, j)
  BY RankRange
<1>2. f \in Injection(P, 1..n)
  <2>1. f \in [P -> 1..n]
    BY <1>1
  <2>2. ASSUME NEW i \in P, NEW j \in P, f[i] = f[j] PROVE i = j
    <3>1. i \in Nat /\ j \in Nat /\ Rank(P, i) = Rank(P, j) /\ Rank(P, i) \in 1..n
      BY <1>1, <2>2
    <3>2. ~ (i < j) /\ ~ (j < i)
      BY <1>1, <3>1
    <3> QED
      BY <3>1, <3>2
  <2> HIDE DEF f
  <2> QED
    BY <2>1, <2>2 DEF Injection, IsInjective
<1>3. IsFiniteSet(1..n) /\ Cardinality(1..n) = n
  BY <1>1, FS_Interval
<1>4. f \in Surjection(P, 1..n)
  <2> HIDE DEF f
  <2> QED
    BY <1>2, <1>3, FS_Injection
<1>5. ASSUME NEW k \in 1..n PROVE \E i \in P : Rank(P, i) = k
  BY <1>4 DEF Surjection
<1>6. ASSUME NEW i \in P, NEW j \in P, Rank(P, i) = Rank(P, j) PROVE i = j
  BY <1>2, <1>6 DEF Injection, IsInjective
<1> HIDE DEF f, n
<1>7. ASSUME NEW k \in 1..n PROVE PlaceOf(P, k) \in P /\ Rank(P, PlaceOf(P, k)) = k
  BY <1>5, <1>7 DEF PlaceOf
<1>8. ASSUME NEW i \in P PROVE PlaceOf(P, Rank(P, i)) = i
  <2>1. Rank(P, i) \in 1..n
    BY <1>1
  <2>2. PlaceOf(P, Rank(P, i)) \in P /\ Rank(P, PlaceOf(P, Rank(P, i))) = Rank(P, i)
    BY <1>7, <2>1
  <2> QED
    BY <1>6, <2>2
<1> QED
  BY <1>7, <1>8 DEF n

\* The places that are left when the line at place e goes.
LeftOf(P, e) == {IF i < e THEN i ELSE i - 1 : i \in P \ {e}}

\* Places and those left of them, up to one of them, are as many.
LEMMA LeftAsMany ==
  ASSUME NEW P \in SUBSET (Nat \ {0}), IsFiniteSet(P), NEW e \in Nat, e \notin P
  PROVE  Cardinality(LeftOf(P, e)) = Cardinality(P) /\ IsFiniteSet(LeftOf(P, e))
<1> DEFINE f == [i \in P |-> IF i < e THEN i ELSE i - 1]
           Q == LeftOf(P, e)
<1>1. \A i \in P : i \in Nat /\ i # e /\ i # 0
  OBVIOUS
<1>2. /\ \A i \in P : f[i] \in Q
      /\ \A q \in Q : \E i \in P : f[i] = q
  BY <1>1 DEF LeftOf
<1>3. \A i, j \in P : f[i] = f[j] => i = j
  BY <1>1
<1>4. f \in [P -> Q]
  BY <1>2
<1> HIDE DEF f, Q
<1>5. f \in Surjection(P, Q) /\ f \in Injection(P, Q)
  BY <1>2, <1>3, <1>4 DEF Surjection, Injection, IsInjective
<1>6. IsFiniteSet(Q) /\ Cardinality(Q) = Cardinality(P)
  BY <1>5, FS_Surjection
<1> QED
  BY <1>6 DEF Q

\* The rank of what is left of a place.
LEMMA RankOfRest ==
  ASSUME NEW P \in SUBSET (Nat \ {0}), IsFiniteSet(P), NEW e \in P, NEW i \in P, i # e
  PROVE  LET q == IF i < e THEN i ELSE i - 1
         IN  /\ q \in LeftOf(P, e)
             /\ Rank(LeftOf(P, e), q) = IF i < e THEN Rank(P, i) ELSE Rank(P, i) - 1
<1> DEFINE q == IF i < e THEN i ELSE i - 1
           Q == LeftOf(P, e)
           Upto == {j \in P : j <= i}
           Others == Upto \ {e}
<1>1. \A j \in P : j \in Nat /\ j # 0
  OBVIOUS
<1>2. q \in Q
  BY DEF LeftOf
<1>3. IsFiniteSet(Upto) /\ Others \in SUBSET (Nat \ {0}) /\ e \notin Others
  <2>1. Upto \in SUBSET P
    OBVIOUS
  <2> HIDE DEF Upto
  <2> QED
    BY <2>1, FS_Subset
<1>4. {j \in Q : j <= q} = LeftOf(Others, e)
  <2>1. ASSUME NEW j \in P, j # e
        PROVE  (IF j < e THEN j ELSE j - 1) <= q <=> j <= i
    BY <1>1, <2>1
  <2>2. LeftOf(Others, e) = {IF j < e THEN j ELSE j - 1 : j \in Others}
    BY <1>3 DEF LeftOf
  <2> HIDE DEF q
  <2>3. ASSUME NEW x \in {j \in Q : j <= q} PROVE x \in LeftOf(Others, e)
    <3>1. PICK j \in P \ {e} : x = IF j < e THEN j ELSE j - 1
      BY DEF LeftOf
    <3>2. j \in Others
      BY <2>1, <3>1
    <3> QED
      BY <2>2, <3>1, <3>2
  <2>4. ASSUME NEW x \in LeftOf(Others, e) PROVE x \in {j \in Q : j <= q}
    <3>1. PICK j \in Others : x = IF j < e THEN j ELSE j - 1
      BY <2>2
    <3>2. x \in Q
      BY <3>1 DEF LeftOf
    <3> QED
      BY <2>1, <3>1, <3>2
  <2> QED
    BY <2>3, <2>4
<1>5. Rank(Q, q) = Cardinality(Others)
  <2>1. IsFiniteSet(Others)
    BY <1>3, FS_RemoveElement
  <2> HIDE DEF Others, Q, q
  <2> QED
    BY <1>1, <1>3, <1>4, <2>1, LeftAsMany DEF Rank
<1>6. Cardinality(Others) = IF e \in Upto THEN Cardinality(Upto) - 1 ELSE Cardinality(Upto)
  <2> HIDE DEF Upto
  <2> QED
    BY <1>3, FS_RemoveElement
<1>7. e \in Upto <=> ~ (i < e)
  BY <1>1
<1>8. Cardinality(Upto) = Rank(P, i)
  BY DEF Rank
<1> QED
  BY <1>2, <1>5, <1>6, <1>7, <1>8

\* The places that are left, by their number.
LEMMA RestOfPlaces ==
  ASSUME NEW P \in SUBSET (Nat \ {0}), IsFiniteSet(P), NEW n \in 1..Cardinality(P),
         NEW k \in 1..Cardinality(P) - 1
  PROVE  LET e == PlaceOf(P, n)
             i == PlaceOf(P, IF k < n THEN k ELSE k + 1)
         IN  /\ e \in P /\ i \in P /\ i # e
             /\ i < e <=> k < n
             /\ PlaceOf(LeftOf(P, e), k) = IF i < e THEN i ELSE i - 1
<1> DEFINE e == PlaceOf(P, n)
           m == IF k < n THEN k ELSE k + 1
           i == PlaceOf(P, m)
           q == IF i < e THEN i ELSE i - 1
           Q == LeftOf(P, e)
<1>1. P \in SUBSET Nat /\ Cardinality(P) \in Nat
  BY FS_CardinalityType
<1>2. m \in 1..Cardinality(P) /\ m # n /\ (m < n <=> k < n)
  BY <1>1
<1> HIDE DEF m
<1>3. e \in P /\ Rank(P, e) = n /\ i \in P /\ Rank(P, i) = m
  BY <1>1, <1>2, PlaceOfRank
<1> HIDE DEF e, i
<1>4. e \in Nat /\ i \in Nat /\ e # i
  BY <1>1, <1>2, <1>3
<1>5. i < e <=> k < n
  <2>1. i < e => m < n
    BY <1>1, <1>3, RankRange
  <2>2. e < i => n < m
    BY <1>1, <1>3, RankRange
  <2> QED
    BY <1>1, <1>2, <1>4, <2>1, <2>2
<1>6. q \in Q /\ Rank(Q, q) = IF i < e THEN m ELSE m - 1
  BY <1>3, <1>4, RankOfRest
<1>7. Rank(Q, q) = k
  BY <1>1, <1>5, <1>6 DEF m
<1>8. IsFiniteSet(Q) /\ Q \in SUBSET Nat
  <2>1. IsFiniteSet(P \ {e}) /\ P \ {e} \in SUBSET (Nat \ {0}) /\ e \notin P \ {e}
    BY FS_RemoveElement
  <2>2. LeftOf(P \ {e}, e) = Q
    BY DEF LeftOf
  <2>3. Q \in SUBSET Nat
    BY <1>1, <1>4 DEF LeftOf
  <2> HIDE DEF Q
  <2> QED
    BY <1>4, <2>1, <2>2, <2>3, LeftAsMany
<1> HIDE DEF q, Q
<1>9. PlaceOf(Q, k) = q
  BY <1>6, <1>7, <1>8, PlaceOfRank
<1> QED
  BY <1>3, <1>4, <1>5, <1>9 DEF e, i, m, q, Q

\* What RemoveAt leaves.
LEMMA RemovedAt ==
  ASSUME NEW S, NEW s \in Seq(S), NEW n \in 1..Len(s)
  PROVE  /\ RemoveAt(s, n) \in Seq(S) /\ Len(RemoveAt(s, n)) = Len(s) - 1
         /\ \A k \in 1..Len(s) - 1 : RemoveAt(s, n)[k] = IF k < n THEN s[k] ELSE s[k + 1]
<1> DEFINE a == SubSeq(s, 1, n - 1)
           b == SubSeq(s, n + 1, Len(s))
           t == a \o b
<1>1. Len(s) \in Nat
  OBVIOUS
<1>2. a \in Seq(S) /\ Len(a) = n - 1 /\ \A k \in 1..n - 1 : a[k] = s[k]
  BY <1>1
<1>3. b \in Seq(S) /\ Len(b) = Len(s) - n /\ \A k \in 1..Len(s) - n : b[k] = s[n + k]
  <2> HIDE DEF a, t
  <2>1. b \in Seq(S)
    BY <1>1
  <2>2. Len(b) = IF n + 1 <= Len(s) THEN Len(s) - (n + 1) + 1 ELSE 0
    BY <1>1
  <2>3. Len(b) = Len(s) - n
    BY <1>1, <2>2
  <2>4. ASSUME NEW k \in 1..Len(s) - n PROVE b[k] = s[n + k]
    BY <1>1
  <2> QED
    BY <2>1, <2>3, <2>4
<1>4. t = RemoveAt(s, n)
  BY DEF RemoveAt
<1> HIDE DEF a, b
<1>5. /\ t \in Seq(S) /\ Len(t) = Len(a) + Len(b)
      /\ \A k \in 1..Len(a) + Len(b) : t[k] = IF k <= Len(a) THEN a[k] ELSE b[k - Len(a)]
  BY <1>2, <1>3, ConcatProperties
<1> HIDE DEF t
<1>6. Len(t) = Len(s) - 1
  BY <1>1, <1>2, <1>3, <1>5
<1>7. ASSUME NEW k \in 1..Len(s) - 1 PROVE t[k] = IF k < n THEN s[k] ELSE s[k + 1]
  <2>1. t[k] = IF k <= n - 1 THEN a[k] ELSE b[k - (n - 1)]
    BY <1>1, <1>2, <1>3, <1>5
  <2>2. CASE k < n
    BY <1>1, <1>2, <2>1, <2>2
  <2>3. CASE ~ (k < n)
    <3>1. k - (n - 1) \in 1..Len(s) - n /\ n + (k - (n - 1)) = k + 1
      BY <1>1, <2>3
    <3> QED
      BY <1>1, <1>3, <2>1, <2>3, <3>1
  <2> QED
    BY <2>2, <2>3
<1> QED
  BY <1>4, <1>5, <1>6, <1>7

\* op_del_rule: the rules of the lines without the n-th rule are the rules
\* without the n-th.
LEMMA DeletedRule ==
  ASSUME NEW lines \in LineSeqs, NEW n \in DOMAIN Entries(lines)
  PROVE  LET left == RemoveAt(lines, Entries(lines)[n])
         IN  /\ RulesOf(left) = RemoveAt(RulesOf(lines), n)
             /\ Len(left) = Len(lines) - 1
<1> DEFINE S == RuleTexts \cup {Comment}
           P == RulePlaces(lines)
           e == PlaceOf(P, n)
           left == RemoveAt(lines, e)
           L == Len(lines)
           R == RulePlaces(left)
<1>1. lines \in Seq(S) /\ L \in Nat /\ DOMAIN lines = 1..L
  <2>1. PICK l \in 0..MaxLines : lines \in [1..l -> S]
    BY DEF LineSeqs
  <2>2. lines \in Seq(S)
    BY <2>1, BotDialogAssumption, SeqDef DEF BotDialogAssumption
  <2> QED
    BY <2>2, LenProperties
<1> HIDE DEF S
<1>2. P \in SUBSET (1..L) /\ P = {i \in 1..L : lines[i] # Comment}
  BY <1>1 DEF RulePlaces
<1>3. P \in SUBSET (Nat \ {0}) /\ P \in SUBSET Nat /\ IsFiniteSet(P)
  <2>1. IsFiniteSet(1..L)
    BY <1>1, FS_Interval
  <2> HIDE DEF P
  <2>2. IsFiniteSet(P)
    BY <1>2, <2>1, FS_Subset
  <2>3. \A i \in 1..L : i \in Nat /\ i # 0
    BY <1>1
  <2> QED
    BY <1>2, <2>2, <2>3
<1> HIDE DEF P
<1>4. Cardinality(P) \in Nat
  BY <1>3, FS_CardinalityType
<1>5. DOMAIN Entries(lines) = 1..Cardinality(P) /\ Entries(lines)[n] = e
  BY DEF Entries, InOrder, P
<1>6. n \in 1..Cardinality(P)
  BY <1>5
<1>7. e \in P /\ e \in 1..L
  BY <1>2, <1>3, <1>6, PlaceOfRank
<1> HIDE DEF e
<1>8. /\ left \in Seq(S) /\ Len(left) = L - 1 /\ DOMAIN left = 1..L - 1
      /\ \A k \in 1..L - 1 : left[k] = IF k < e THEN lines[k] ELSE lines[k + 1]
  <2>1. /\ left \in Seq(S) /\ Len(left) = L - 1
        /\ \A k \in 1..L - 1 : left[k] = IF k < e THEN lines[k] ELSE lines[k + 1]
    BY <1>1, <1>7, RemovedAt
  <2> HIDE DEF left
  <2> QED
    BY <2>1, LenProperties
<1> HIDE DEF left, L
<1>9. R = LeftOf(P, e)
  <2>1. R = {k \in 1..L - 1 : left[k] # Comment}
    BY <1>8 DEF RulePlaces
  <2>2. LeftOf(P, e) = {IF i < e THEN i ELSE i - 1 : i \in P \ {e}}
    BY DEF LeftOf
  <2> HIDE DEF R
  <2>3. ASSUME NEW k \in R PROVE k \in LeftOf(P, e)
    <3> DEFINE i == IF k < e THEN k ELSE k + 1
    <3>1. k \in 1..L - 1 /\ left[k] # Comment
      BY <2>1
    <3>2. i \in 1..L /\ lines[i] # Comment /\ i # e
      BY <1>1, <1>7, <1>8, <3>1
    <3>3. i \in P \ {e} /\ k = IF i < e THEN i ELSE i - 1
      BY <1>1, <1>2, <1>7, <3>1, <3>2
    <3> HIDE DEF i
    <3> QED
      BY <2>2, <3>3
  <2>4. ASSUME NEW i \in P \ {e} PROVE (IF i < e THEN i ELSE i - 1) \in R
    <3>1. i \in 1..L /\ i # e /\ lines[i] # Comment
      BY <1>2
    <3>2. CASE i < e
      BY <1>1, <1>7, <1>8, <2>1, <3>1, <3>2
    <3>3. CASE ~ (i < e)
      <4>1. i - 1 \in 1..L - 1 /\ ~ (i - 1 < e) /\ (i - 1) + 1 = i
        BY <1>1, <1>7, <3>1, <3>3
      <4> QED
        BY <1>8, <2>1, <3>1, <3>3, <4>1
    <3> QED
      BY <3>2, <3>3
  <2> QED
    BY <2>2, <2>3, <2>4
<1>10. Cardinality(R) = Cardinality(P) - 1
  <2>1. /\ IsFiniteSet(P \ {e}) /\ P \ {e} \in SUBSET (Nat \ {0}) /\ e \notin P \ {e}
        /\ Cardinality(P \ {e}) = Cardinality(P) - 1
    BY <1>3, <1>7, FS_RemoveElement
  <2>2. LeftOf(P \ {e}, e) = LeftOf(P, e)
    BY DEF LeftOf
  <2> HIDE DEF R
  <2> QED
    BY <1>1, <1>7, <1>9, <2>1, <2>2, LeftAsMany
<1> DEFINE rules == RulesOf(lines)
           c == Cardinality(P)
<1>11. /\ RulesOf(left) = [k \in 1..c - 1 |-> left[PlaceOf(R, k)]]
       /\ rules = [k \in 1..c |-> lines[PlaceOf(P, k)]]
  BY <1>10 DEF RulesOf, KeptAt, P
<1> HIDE DEF R, rules
<1>12. rules \in Seq(S) /\ Len(rules) = c
  <2>1. \A k \in 1..c : PlaceOf(P, k) \in 1..L
    BY <1>2, <1>3, PlaceOfRank
  <2>2. \A i \in 1..L : lines[i] \in S
    BY <1>1, ElementOfSeq
  <2>3. rules \in [1..c -> S]
    BY <1>11, <2>1, <2>2
  <2> QED
    BY <1>4, <1>11, <2>3, SeqDef, LenProperties
<1> HIDE DEF c
<1> DEFINE rest == RemoveAt(rules, n)
<1>13. /\ rest \in Seq(S) /\ Len(rest) = c - 1
       /\ \A k \in 1..c - 1 : rest[k] = IF k < n THEN rules[k] ELSE rules[k + 1]
  BY <1>6, <1>12, RemovedAt DEF c
<1> HIDE DEF rest
<1>14. ASSUME NEW k \in 1..c - 1 PROVE left[PlaceOf(R, k)] = rest[k]
  <2> DEFINE m == IF k < n THEN k ELSE k + 1
             i == PlaceOf(P, m)
  <2>1. /\ i \in P /\ i # e /\ (i < e <=> k < n)
        /\ PlaceOf(R, k) = IF i < e THEN i ELSE i - 1
    BY <1>3, <1>6, <1>9, RestOfPlaces DEF e, c
  <2>2. m \in 1..c
    BY <1>4, <1>6 DEF c
  <2>3. rest[k] = rules[m]
    BY <1>13
  <2> HIDE DEF m
  <2>4. rest[k] = lines[i]
    BY <1>11, <2>2, <2>3
  <2> HIDE DEF i
  <2>5. i \in 1..L /\ i # e
    BY <1>2, <2>1
  <2>6. CASE i < e
    BY <1>1, <1>7, <1>8, <2>1, <2>4, <2>5, <2>6
  <2>7. CASE ~ (i < e)
    <3>1. i - 1 \in 1..L - 1 /\ ~ (i - 1 < e) /\ (i - 1) + 1 = i
      BY <1>1, <1>7, <2>5, <2>7
    <3> QED
      BY <1>8, <2>1, <2>4, <2>7, <3>1
  <2> QED
    BY <2>6, <2>7
<1>15. RulesOf(left) = rest
  <2>1. rest = [k \in 1..c - 1 |-> rest[k]]
    BY <1>13, LenProperties
  <2> QED
    BY <1>11, <1>14, <2>1 DEF c
<1> QED
  BY <1>5, <1>8, <1>15 DEF rest, rules, L, left, e

\* Only the answer to the list of rules asks for op_del_rule.
LEMMA WhoDeletes ==
  ASSUME DialogNext, asked'.name = "op_del_rule"
  PROVE  \E n \in 1..MaxLines : TextDelRule(n)
<1> USE BotDialogAssumption DEF BotDialogAssumption
<1>1. "op_del_rule" \notin OneText /\ NoValue # "op_del_rule"
  <2>1. \A b \in DOMAIN Starts : Starts[b] # "op_del_rule"
    BY DEF Starts
  <2> QED
    BY <2>1 DEF OneText
<1>2. CASE Elsewhere \/ \E v \in Values : DotDomainEnds(v)
  BY <1>1, <1>2 DEF Elsewhere, DotDomainEnds, Quiet, NoOp
<1>3. CASE Press
  BY <1>1, <1>3
  DEF Press, PressMain, PressPlain, PressStart, PressDelRule, PressNote, PressType, Start, PressTarget,
      PressTargetRefused, PressNamed, PressPolicyTarget, PressClosePort, PressForce, Quiet, Ask, AskOf, NoOp
<1>4. CASE Text
  <2>1. asked' = NoOp => FALSE
    BY <1>1 DEF NoOp
  <2>2. TextAnswer => FALSE
    BY <1>1 DEF TextAnswer, AskOf
  <2>3. (TextNote \/ \E v \in Values : TextDotDomain(v)) => FALSE
    BY DEF TextNote, TextDotDomain, AskOf
  <2>4. TextCommand \/ TextKept \/ TextRefused \/ (\E v \in Values : TextRuleValue(v)) => asked' = NoOp
    BY DEF TextCommand, TextKept, TextRefused, TextRuleValue, Quiet
  <2> QED
    BY <1>4, <2>1, <2>2, <2>3, <2>4 DEF Text
<1> QED
  BY <1>2, <1>3, <1>4 DEF DialogNext

\* op_del_rule takes out the rule that the list showed under its number, and
\* no other rule and no comment, if the rules are those that were listed: for
\* lists of rules and comments of any length.
THEOREM DeletesWhatWasListed == DialogSpec => DeletesListedRule
<1> DEFINE Deletes ==
      (asked'.name = "op_del_rule" /\ ruleLines = pending.listed)
        => LET n == asked'.arg[1]
               left == asked'.arg[2]
           IN  /\ RulesOf(left) = RemoveAt(RulesOf(pending.listed), n)
               /\ Len(left) = Len(pending.listed) - 1
<1>1. DialogInv /\ [DialogNext]_dialogVars => [Deletes]_dialogVars
  <2> SUFFICES ASSUME DialogInv, DialogNext, asked'.name = "op_del_rule", ruleLines = pending.listed
               PROVE  LET n == asked'.arg[1]
                          left == asked'.arg[2]
                      IN  /\ RulesOf(left) = RemoveAt(RulesOf(ruleLines), n)
                          /\ Len(left) = Len(ruleLines) - 1
    BY DEF dialogVars
  <2>1. PICK n \in 1..MaxLines : TextDelRule(n)
    BY WhoDeletes
  <2> DEFINE gone == RemoveAt(ruleLines, Entries(ruleLines)[n])
  <2>2. n \in DOMAIN Entries(ruleLines) /\ ruleLines \in LineSeqs
    BY <2>1 DEF TextDelRule, DialogInv, DialogShape
  <2>3. asked'.arg = <<n, gone>>
    BY <2>1 DEF TextDelRule, AskOf
  <2>4. RulesOf(gone) = RemoveAt(RulesOf(ruleLines), n) /\ Len(gone) = Len(ruleLines) - 1
    BY <2>2, DeletedRule
  <2> HIDE DEF gone
  <2> QED
    BY <2>3, <2>4
<1> QED
  BY <1>1, DialogInitInv, DialogNextInv, PTL DEF DialogSpec, DeletesListedRule
=============================================================================
