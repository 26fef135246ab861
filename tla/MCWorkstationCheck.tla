------------------------- MODULE MCWorkstationCheck --------------------------
(* Instances of WorkstationCheck for TLC: the names are PC1, PC10 (in which a *)
(* search for PC1 succeeds), one whose text is no regular expression, a       *)
(* whitelisted and a blocked one; root is bound by an expression for PC1 and  *)
(* PC10.                                                                      *)
EXTENDS WorkstationCheck, TLC

CONSTANTS root, guest, pc1, pc10, odd, white, dash, rootExpr

MCUsers == {root, guest}
MCNames == {pc1, pc10, odd, white, dash}
MCExpressions == MCNames \cup {rootExpr}
MCMatches ==
  {<<pc1, pc1>>, <<pc1, pc10>>, <<pc10, pc10>>, <<white, white>>, <<dash, dash>>,
   <<rootExpr, pc1>>, <<rootExpr, pc10>>}
MCConfigBinds == root :> rootExpr
Symmetry == Permutations(RuleNames)
=============================================================================
