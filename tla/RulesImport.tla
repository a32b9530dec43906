---------------------------- MODULE RulesImport ------------------------------
(***************************************************************************)
(* rules-import.py: from a rule list as clients use them to the lines of   *)
(* rules.conf. A raw line has its type, its value, its policy and, where   *)
(* the type is OR, its members; a field that is not there is None, and so  *)
(* is the policy where only modifiers follow the value.                    *)
(***************************************************************************)
EXTENDS Naturals, Sequences, SequencesExt, Places

CONSTANTS
  Keep,      \* PGW_KEEP_CATEGORIES, {} for none
  Forced,    \* PGW_DIRECT_CATEGORIES
  Hostile,   \* categories named for what they block: advert, hijack, privacy...
  Bare,      \* Bare[p]: policy p without quotes and leading symbols, None if nothing is left
  Nothing    \* a field that is not there

\* What is not there is none of the categories that others fall together in.
ASSUME ImportAssumption == Nothing \notin {"direct", "block", "Proxy"}

KeepTypes == {"DOMAIN", "DOMAIN-SUFFIX", "DOMAIN-KEYWORD", "IP-CIDR", "IP-CIDR6",
              "RULE-SET", "GEOIP", "GEOSITE"}
NormCategory(p) == IF Bare[p] = Nothing THEN "Proxy" ELSE Bare[p]

\* Without categories to keep every one stays; else the others fall together.
CategoryOf(p) ==
  LET cat == NormCategory(p)
      merged == IF cat \in {"dir", "direct", "china", "lan", "domestic"} THEN "direct"
                ELSE IF cat \in Hostile THEN "block" ELSE "Proxy"
  IN  IF cat \in Forced THEN "direct"
      ELSE IF Keep = {} \/ cat \in Keep THEN cat ELSE merged

Emit(typ, val, p) ==
  [typ |-> IF typ = "IP-CIDR6" THEN "IP-CIDR" ELSE typ, val |-> val, pol |-> CategoryOf(p)]

\* A member of an OR that is no matcher, or has no value, is left out.
Members(raw) ==
  KeptAt(raw.members, {i \in DOMAIN raw.members : raw.members[i].typ \in KeepTypes
                                                  /\ raw.members[i].val # Nothing})

\* What a bug would do: take the members of an AND for alternatives.
EmittedAnd(raw) ==
  CASE raw.typ \in {"OR", "AND"} /\ raw.pol # Nothing ->
         [i \in DOMAIN Members(raw) |-> Emit(Members(raw)[i].typ, Members(raw)[i].val, raw.pol)]
    [] raw.typ \in KeepTypes /\ raw.pol # Nothing -> <<Emit(raw.typ, raw.val, raw.pol)>>
    [] OTHER -> <<>>

\* The members of an OR become lines of their own; an AND, whose members
\* would be alternatives then, is dropped like every other type that is not
\* kept, those of DROP among them.
Emitted(raw) ==
  CASE raw.typ = "OR" /\ raw.pol # Nothing ->
         [i \in DOMAIN Members(raw) |-> Emit(Members(raw)[i].typ, Members(raw)[i].val, raw.pol)]
    [] raw.typ \in KeepTypes /\ raw.pol # Nothing -> <<Emit(raw.typ, raw.val, raw.pol)>>
    [] OTHER -> <<>>

\* The last FINAL decides, and it comes last whatever its place was.
Finals(raws) == {i \in DOMAIN raws : raws[i].typ = "FINAL"}
Final(raws) ==
  IF Finals(raws) = {} \/ raws[Max(Finals(raws))].pol = Nothing THEN <<>>
  ELSE <<[typ |-> "FINAL", val |-> Nothing, pol |-> CategoryOf(raws[Max(Finals(raws))].pol)]>>

Convert(raws) == FlattenSeq([i \in DOMAIN raws |-> Emitted(raws[i])]) \o Final(raws)
=============================================================================
