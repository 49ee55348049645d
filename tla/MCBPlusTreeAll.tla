--------------------------- MODULE MCBPlusTreeAll ---------------------------
(* Every tree that puts and deletes of a few keys can build, in any order.   *)
EXTENDS BPlusTree

Requests8 == {<<k, k>> : k \in 1..8} \cup {<<k, 0>> : k \in 1..8}

=============================================================================
