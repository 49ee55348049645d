----------------------------- MODULE MCBPlusTree -----------------------------
(* A client of the B+ tree: it first loads a tree in one of the orders of    *)
(* Loads, then issues at most Budget arbitrary requests.                     *)
EXTENDS BPlusTree

CONSTANTS Loads, Budget

VARIABLES load, budget

mcvars == <<vars, load, budget>>

Put(ks) == [i \in DOMAIN ks |-> <<ks[i], ks[i]>>]
Del(ks) == [i \in DOMAIN ks |-> <<ks[i], 0>>]
Up(n) == [i \in 1..n |-> i]
PutOrDelete(n) == ToSet(Put(Up(n))) \cup ToSet(Del(Up(n)))

MCInit == Init /\ load \in Loads /\ budget = Budget

\* The next request of the load, then any request while the budget lasts.
ClientNext ==
    /\ load # <<>> \/ budget > 0
    /\ \E r \in (IF load # <<>> THEN {Head(load)} ELSE Requests) :
          bplus_tree_put(r[1], r[2])
    /\ IF load # <<>> THEN load' = Tail(load) /\ UNCHANGED budget
                      ELSE budget' = budget - 1 /\ UNCHANGED load

ClimbNext == Climb /\ UNCHANGED <<load, budget>>

Done == load = <<>> /\ budget = 0 /\ Idle /\ UNCHANGED mcvars

MCNext == ClientNext \/ ClimbNext \/ Done

MCSpec == MCInit /\ [][MCNext]_mcvars /\ WF_mcvars(ClimbNext)

-----------------------------------------------------------------------------
\* Order 4: trees of height 2 and 3, loaded from either end, thinned out at
\* non-leaf level, and emptied and refilled so that freed blocks are reused.
Requests14 == PutOrDelete(14)
Loads14 ==
    {Put(Up(14)), Put(Reverse(Up(14))),
     Put(Up(14)) \o Del(<<3, 5>>), Put(Reverse(Up(14))) \o Del(<<12, 10>>),
     Put(Up(14)) \o Del(Reverse(Up(14))) \o Put(Up(11))}

=============================================================================
