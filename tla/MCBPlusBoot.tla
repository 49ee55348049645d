----------------------------- MODULE MCBPlusBoot -----------------------------
(* At most MaxSessions openings of one index file.                           *)
EXTENDS BPlusBoot

CONSTANT MaxSessions

VARIABLE sessions

MCInit == BootInit /\ sessions = 0

OpenNext ==
    /\ sessions < MaxSessions
    /\ \E size \in BlockSizes : bplus_tree_init(size)
    /\ sessions' = sessions + 1

UseNext == (bplus_tree_deinit \/ Use) /\ UNCHANGED sessions

Done == ~open /\ sessions = MaxSessions /\ UNCHANGED <<allVars, sessions>>

MCNext == OpenNext \/ UseNext \/ Done

MCSpec == MCInit /\ [][MCNext]_<<allVars, sessions>>

-----------------------------------------------------------------------------
Requests5 == {<<k, k>> : k \in 1..5} \cup {<<k, 0>> : k \in 1..5}
Requests6 == {<<k, k>> : k \in 1..6} \cup {<<k, 0>> : k \in 1..6}

=============================================================================
