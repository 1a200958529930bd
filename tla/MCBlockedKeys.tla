---------------------------- MODULE MCBlockedKeys ----------------------------
(***************************************************************************)
(* Small instances of BlockedKeys: two keys, and requests that block on    *)
(* one key, on both, move between the keys in both directions, and pop     *)
(* sorted-set members.                                                     *)
(***************************************************************************)
EXTENDS BlockedKeys, TLC

CONSTANTS k1, k2

Pop(keys, side) ==
  [keys |-> keys, op |-> [kind |-> "Pop", side |-> side, dstSide |-> side,
                          dest |-> None, count |-> 1]]
Move(src, dst) ==
  [keys |-> <<src>>, op |-> [kind |-> "Move", side |-> "back", dstSide |-> "front",
                             dest |-> dst, count |-> 1]]
MPop(keys) ==
  [keys |-> keys, op |-> [kind |-> "MPop", side |-> "front", dstSide |-> "front",
                          dest |-> None, count |-> 2]]
ZPop(kind, keys) ==
  [keys |-> keys, op |-> [kind |-> kind, side |-> "front", dstSide |-> "front",
                          dest |-> None, count |-> IF kind = "ZMPop" THEN 2 ELSE 1]]

MCKeys == {k1, k2}
ListRequests == {Pop(<<k1, k2>>, "front"), Move(k1, k2), Move(k2, k1), MPop(<<k2>>)}
ZSetRequests == {ZPop("ZPop", <<k1, k2>>), ZPop("ZMPop", <<k2>>), Pop(<<k1>>, "back")}
PopRequests == {Pop(<<k1, k2>>, "front"), Pop(<<k2>>, "front"), Pop(<<k1>>, "back")}
MCSymmetry == Permutations(Conns)
=============================================================================
