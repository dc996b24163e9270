----------------------------- MODULE MCKVStore -----------------------------
(* Model values for KVStore. *)
EXTENDS KVStore

CONSTANTS c1, c2

Two == {c1, c2}
One == {c1}

=============================================================================
