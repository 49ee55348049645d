----------------------------- MODULE WorkloadGen -----------------------------
(***************************************************************************)
(* The two nested loops of workload_gen.cc that write random keys into one *)
(* file per thread, one action per pass.  Which keys they are is left out: *)
(* files counts them.  The module is there for WorkloadGenProofs: Init     *)
(* allows every number of keys and threads.                                *)
(***************************************************************************)
EXTENDS Integers

VARIABLES nkeys, nthreads, i, j, total, files

vars == <<nkeys, nthreads, i, j, total, files>>

\* The keys of a file, rounded up.
sz == (nkeys + (nthreads - 1)) \div nthreads

Init ==
    /\ nkeys \in Nat
    /\ nthreads \in Nat \ {0}
    /\ i = 0
    /\ j = 0
    /\ total = 0
    /\ files = [t \in 0..(nthreads - 1) |-> 0]

\* The condition of the inner loop.
more == j < sz /\ total < nkeys

WriteKey ==
    /\ i < nthreads
    /\ more
    /\ files' = [files EXCEPT ![i] = @ + 1]
    /\ j' = j + 1
    /\ total' = total + 1
    /\ UNCHANGED <<nkeys, nthreads, i>>

NextFile ==
    /\ i < nthreads
    /\ ~more
    /\ i' = i + 1
    /\ j' = 0
    /\ UNCHANGED <<nkeys, nthreads, total, files>>

Finished == i = nthreads /\ UNCHANGED vars

Next == WriteKey \/ NextFile \/ Finished

Spec == Init /\ [][Next]_vars

-----------------------------------------------------------------------------
(* Properties.                                                             *)

\* What file t is to hold: sz keys while there are enough, then the rest, then
\* none.
Share(t) ==
    IF (t + 1) * sz <= nkeys THEN sz
    ELSE IF t * sz <= nkeys THEN nkeys - t * sz
    ELSE 0

\* Every file that has been closed holds its share.
SharesAreExact == \A t \in 0..(nthreads - 1) : t < i => files[t] = Share(t)

\* When the loops have ended, as many keys as asked for have been written.
AllKeysWritten == i = nthreads => total = nkeys

=============================================================================
