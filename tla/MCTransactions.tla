--------------------------- MODULE MCTransactions ---------------------------
(***************************************************************************)
(* Small instances of Transactions: one shard with two connections, and    *)
(* two shards with a connection each, where k1 belongs to s1 and k2 to s2. *)
(***************************************************************************)
EXTENDS Transactions, TLC

CONSTANTS c1, c2, k1, k2, s1, s2

OneShardHome == c1 :> s1 @@ c2 :> s1
OneShardOwner == k1 :> s1
TwoShardHome == c1 :> s1 @@ c2 :> s2
TwoShardOwner == k1 :> s1 @@ k2 :> s2
OneShardSymmetry == Permutations(Conns)
=============================================================================
