----------------------------- MODULE MCKVStore -----------------------------
(***************************************************************************)
(* Four pairs for the kvstore tests to draw from: one key with two values, *)
(* which makes a later transaction overwrite an earlier one, and two keys  *)
(* more, so that three transactions may have a key each.                   *)
(***************************************************************************)
EXTENDS KVStore

CONSTANTS k1, k2, k3, v1, v2

Pair(key, val) == [k |-> key, v |-> val]
MCDraws == {Pair(k1, v1), Pair(k1, v2), Pair(k2, v1), Pair(k3, v1)}

=============================================================================
