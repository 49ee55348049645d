-------------------------- MODULE WorkloadGenProofs --------------------------
(***************************************************************************)
(* For every number of keys and threads, workload_gen.cc gives every       *)
(* thread its exact share and writes as many keys as asked for.            *)
(***************************************************************************)
EXTENDS WorkloadGen, TLAPS

\* What the variables are.
TypeOK ==
    /\ nkeys \in Nat
    /\ nthreads \in Nat \ {0}
    /\ i \in 0..nthreads
    /\ j \in 0..sz
    /\ total \in 0..nkeys
    /\ files \in [0..(nthreads - 1) -> Nat]

\* total is what the closed files and the open one hold: at the start of a file
\* the full files before it, or everything.
Progress ==
    /\ i < nthreads => files[i] = j
    /\ \A t \in 0..(nthreads - 1) : t > i => files[t] = 0
    /\ j > 0 => total = i * sz + j
    /\ j = 0 => total = IF i * sz <= nkeys THEN i * sz ELSE nkeys

Inv == TypeOK /\ Progress /\ SharesAreExact

\* Rounding up: the shares together are enough.
LEMMA SharesSuffice ==
    ASSUME nkeys \in Nat, nthreads \in Nat \ {0}
    PROVE  sz \in Nat /\ nthreads * sz >= nkeys
  <1>1. ASSUME NEW a \in Nat, NEW b \in Nat \ {0}
        PROVE  a \div b \in Nat /\ a = b * (a \div b) + (a % b) /\ a % b \in 0..(b - 1)
    BY <1>1
  <1> DEFINE a == nkeys + (nthreads - 1)
  <1>2. a \in Nat
    OBVIOUS
  <1>3. sz \in Nat /\ a = nthreads * sz + (a % nthreads) /\ a % nthreads \in 0..(nthreads - 1)
    BY <1>1, <1>2 DEF sz
  <1> HIDE DEF a
  <1>4. nthreads * sz \in Nat
    BY <1>3
  <1>5. a = nkeys + (nthreads - 1)
    BY DEF a
  <1> QED
    BY <1>3, <1>4, <1>5

\* The invariant holds when the loops start.
LEMMA InitInv == Init => Inv
  <1> SUFFICES ASSUME Init PROVE Inv
    OBVIOUS
  <1>1. nkeys \in Nat /\ nthreads \in Nat \ {0}
    BY DEF Init
  <1>2. sz \in Nat
    BY <1>1, SharesSuffice
  <1> HIDE DEF sz
  <1> QED
    BY <1>1, <1>2 DEF Init, Inv, TypeOK, Progress, SharesAreExact

\* Each pass of the loops keeps the invariant.
LEMMA StepInv == Inv /\ [Next]_vars => Inv'
  <1> SUFFICES ASSUME Inv, [Next]_vars PROVE Inv'
    OBVIOUS
  <1>1. nkeys \in Nat /\ nthreads \in Nat \ {0} /\ i \in Nat /\ j \in Nat
    BY DEF Inv, TypeOK, sz
  <1>2. sz \in Nat
    BY <1>1, SharesSuffice
  <1>3. ASSUME NEW t \in Nat PROVE t * sz \in Nat /\ (t + 1) * sz = t * sz + sz
    BY <1>2
  <1>4. UNCHANGED <<nkeys, nthreads>>
    BY DEF Next, vars, WriteKey, NextFile, Finished
  <1>5. sz' = sz
    BY <1>4 DEF sz
  <1>6. \A t \in 0..(nthreads - 1) : Share(t)' = Share(t)
    BY <1>4, <1>5 DEF Share
  <1>7. CASE WriteKey
    <2>1. i < nthreads /\ j < sz /\ total < nkeys
      BY <1>7 DEF WriteKey, more
    <2>2. /\ files' = [files EXCEPT ![i] = files[i] + 1] /\ j' = j + 1
          /\ total' = total + 1 /\ i' = i
      BY <1>7 DEF WriteKey
    <2>3. files \in [0..(nthreads - 1) -> Nat] /\ i \in 0..(nthreads - 1) /\ files[i] = j
      BY <2>1 DEF Inv, TypeOK, Progress
    <2>4. files' \in [0..(nthreads - 1) -> Nat] /\ files'[i] = j + 1
          /\ \A t \in 0..(nthreads - 1) : t # i => files'[t] = files[t]
      BY <2>2, <2>3
    <2>5. TypeOK'
      BY <1>1, <1>2, <1>4, <1>5, <2>1, <2>2, <2>4 DEF Inv, TypeOK
    <2>6. total = i * sz + j
      BY <1>1, <1>2, <1>3, <2>1 DEF Inv, Progress, TypeOK
    <2>7. Progress'
      BY <1>1, <1>2, <1>4, <1>5, <2>2, <2>4, <2>6 DEF Inv, Progress, TypeOK
    <2>8. SharesAreExact'
      BY <1>1, <1>4, <1>6, <2>2, <2>4 DEF Inv, SharesAreExact
    <2> QED
      BY <2>5, <2>7, <2>8 DEF Inv
  <1>8. CASE NextFile
    <2>1. i < nthreads /\ (j >= sz \/ total >= nkeys)
      BY <1>1, <1>2, <1>8 DEF NextFile, more, Inv, TypeOK
    <2>2. i' = i + 1 /\ j' = 0 /\ UNCHANGED <<total, files>>
      BY <1>8 DEF NextFile
    <2>3. TypeOK'
      BY <1>1, <1>2, <1>4, <1>5, <2>1, <2>2 DEF Inv, TypeOK
    <2>4. total \in Nat /\ total <= nkeys /\ j <= sz
      BY DEF Inv, TypeOK
    <2>5. i * sz \in Nat /\ (i + 1) * sz = i * sz + sz
      BY <1>1, <1>3
    <2>6. /\ j > 0 => total = i * sz + j
          /\ j = 0 => total = IF i * sz <= nkeys THEN i * sz ELSE nkeys
      BY DEF Inv, Progress
    <2>7. total = (IF (i + 1) * sz <= nkeys THEN (i + 1) * sz ELSE nkeys) /\ j = Share(i)
      BY <1>1, <1>2, <2>1, <2>4, <2>5, <2>6 DEF Share
    <2>8. Progress'
      BY <1>1, <1>4, <1>5, <2>2, <2>7 DEF Inv, Progress, TypeOK
    <2>9. SharesAreExact'
      <3> SUFFICES ASSUME NEW t \in 0..(nthreads - 1), t < i + 1 PROVE files[t] = Share(t)
        BY <1>4, <1>6, <2>2 DEF SharesAreExact
      <3>1. t < i \/ t = i
        BY <1>1
      <3> QED
        BY <3>1, <2>1, <2>7 DEF Inv, SharesAreExact, Progress
    <2> QED
      BY <2>3, <2>8, <2>9 DEF Inv
  <1>9. CASE UNCHANGED vars
    BY <1>9, <1>5, <1>6 DEF vars, Inv, TypeOK, Progress, SharesAreExact
  <1> QED
    BY <1>7, <1>8, <1>9 DEF Next, Finished

\* For every number of keys and threads, a file that has been closed holds
\* exactly its share.
THEOREM WorkloadShares == Spec => []SharesAreExact
  <1>1. Inv => SharesAreExact
    BY DEF Inv
  <1> QED
    BY <1>1, InitInv, StepInv, PTL DEF Spec

\* When the outer loop has ended, as many keys as asked for have been written.
THEOREM WorkloadTotal == Spec => []AllKeysWritten
  <1>1. Inv => AllKeysWritten
    <2> SUFFICES ASSUME Inv, i = nthreads PROVE total = nkeys
      BY DEF AllKeysWritten
    <2>1. nkeys \in Nat /\ nthreads \in Nat \ {0}
      BY DEF Inv, TypeOK
    <2>2. sz \in Nat /\ nthreads * sz >= nkeys
      BY <2>1, SharesSuffice
    <2>3. total <= nkeys /\ total \in Nat /\ j \in Nat
      BY <2>2 DEF Inv, TypeOK
    <2>4. nthreads * sz \in Nat
      BY <2>1, <2>2
    <2> QED
      BY <2>1, <2>2, <2>3, <2>4 DEF Inv, Progress
  <1> QED
    BY <1>1, InitInv, StepInv, PTL DEF Spec

=============================================================================
