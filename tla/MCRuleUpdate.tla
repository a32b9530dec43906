---------------------------- MODULE MCRuleUpdate ----------------------------
(***************************************************************************)
(* RuleUpdate for TLC: two runs of the script, a good and a broken GFWList *)
(* and ChinaLists of up to two chunks. The runs are interchangeable, but   *)
(* symmetry is not sound for the liveness property.                        *)
(***************************************************************************)
EXTENDS RuleUpdate
=============================================================================
