----------------------------- MODULE MCKeyspace -----------------------------
(***************************************************************************)
(* Small instances of Keyspace.                                            *)
(***************************************************************************)
EXTENDS Keyspace, TLC

CONSTANTS k1, k2, str, empty, full

Sizes == str :> 1 @@ empty :> 1 @@ full :> 2
View == <<store, now, target, due, drift>>
Symmetry == Permutations(Keys)
=============================================================================
