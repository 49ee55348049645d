----------------------------- MODULE KeyValueMap -----------------------------
(***************************************************************************)
(* What the tests of the B+ tree expect of it: the oracle of               *)
(* bplustree/tests/bplustree_coverage.c keeps the set of keys present and  *)
(* compares every return value of bplus_tree_put with it.  A put of a new  *)
(* key adds it and returns 0, a put of a present key changes nothing and   *)
(* returns -1, a put of 0 removes a present key (0) or fails (-1).         *)
(* The map changes when the call takes effect, the result comes no         *)
(* earlier, and no other call starts in between.                           *)
(***************************************************************************)
EXTENDS Integers

CONSTANT Requests

VARIABLES kv,      \* the stored pairs: key -> data
          busy,    \* a call took effect and has not returned
          ret      \* what the last call returned

vars == <<kv, busy, ret>>

Added(key, data) ==
    [k \in DOMAIN kv \cup {key} |-> IF k = key THEN data ELSE kv[k]]

Removed(key) == [k \in DOMAIN kv \ {key} |-> kv[k]]

Init == kv = <<>> /\ busy = FALSE /\ ret = 0

Finish(r) ==
    \/ busy' = FALSE /\ ret' = r
    \/ busy' = TRUE /\ r = 0 /\ ret' = ret

Put(key, data) ==
    /\ ~busy
    /\ \/ data # 0 /\ key \notin DOMAIN kv /\ kv' = Added(key, data) /\ Finish(0)
       \/ data # 0 /\ key \in DOMAIN kv /\ kv' = kv /\ busy' = FALSE /\ ret' = -1
       \/ data = 0 /\ key \in DOMAIN kv /\ kv' = Removed(key) /\ Finish(0)
       \/ data = 0 /\ key \notin DOMAIN kv /\ kv' = kv /\ busy' = FALSE /\ ret' = -1

Return ==
    /\ busy
    /\ busy' = FALSE
    /\ ret' = 0
    /\ UNCHANGED kv

Next == Return \/ \E r \in Requests : Put(r[1], r[2])

Spec == Init /\ [][Next]_vars

=============================================================================
