------------------------------ MODULE KeySearch ------------------------------
(***************************************************************************)
(* key_binary_search of bplustree.c, one action per pass of its loop.  The *)
(* array is indexed from 0 as in the code; its length is at most MaxLen    *)
(* (_max_entries for a leaf, _max_order - 1 for a non-leaf) and may be 0.  *)
(***************************************************************************)
EXTENDS Integers, FiniteSets

CONSTANTS Key,       \* the values of key_t
          MaxLen     \* the most keys a node holds

ASSUME KeyAssumption == Key \subseteq Int
ASSUME MaxLenAssumption == MaxLen \in Nat

VARIABLES
    len, arr,        \* the node's keys
    target,
    low, high,       \* the loop's bounds
    done, result     \* whether the function returned, and what

vars == <<len, arr, target, low, high, done, result>>
input == <<len, arr, target>>

Sorted(a, n) == \A i, j \in 0..(n-1) : i < j => a[i] < a[j]

MidLinear == low + 1   \* faulty: a linear scan

Mid == low + (high - low) \div 2

Init ==
    /\ len \in 0..MaxLen
    /\ arr \in [0..(len-1) -> Key]
    /\ Sorted(arr, len)
    /\ target \in Key
    /\ low = -1
    /\ high = len
    /\ done = FALSE
    /\ result = 0

GoRightLoose ==   \* faulty: an equal key is skipped
    /\ low + 1 < high
    /\ target >= arr[Mid]
    /\ low' = Mid
    /\ UNCHANGED <<input, high, done, result>>

\* The two branches of the loop's body.
GoRight ==
    /\ low + 1 < high
    /\ target > arr[Mid]
    /\ low' = Mid
    /\ UNCHANGED <<input, high, done, result>>

GoLeft ==
    /\ low + 1 < high
    /\ target <= arr[Mid]
    /\ high' = Mid
    /\ UNCHANGED <<input, low, done, result>>

FoundUnchecked == IF high >= len THEN -high - 1 ELSE high   \* faulty: no comparison

Found == IF high >= len \/ arr[high] # target THEN -high - 1 ELSE high

Return ==
    /\ ~done
    /\ low + 1 >= high
    /\ done' = TRUE
    /\ result' = Found
    /\ UNCHANGED <<input, low, high>>

Next == GoRight \/ GoLeft \/ Return

Spec == Init /\ [][Next]_vars

-----------------------------------------------------------------------------
(* Properties.                                                             *)

\* Type invariant.
TypeOK ==
    /\ len \in 0..MaxLen
    /\ arr \in [0..(len-1) -> Key]
    /\ target \in Key
    /\ low \in -1..(len-1)
    /\ high \in 0..len
    /\ done \in BOOLEAN
    /\ result \in Int

\* The loop brackets the target: keys up to low are smaller, keys from high on
\* are not, and every mid it reads lies strictly inside the array.
Bracket ==
    /\ Sorted(arr, len)
    /\ low < high
    /\ \A i \in 0..(len-1) : i <= low => arr[i] < target
    /\ \A i \in 0..(len-1) : i >= high => target <= arr[i]
    /\ low + 1 < high => Mid \in (low + 1)..(high - 1)

\* The keys smaller than the target.
Smaller == {i \in 0..(len-1) : arr[i] < target}

\* The function returns the index of the target or, when it is absent,
\* -(number of smaller keys) - 1, from which the callers take the place to
\* insert or the child to follow.  This is the closed form BPlusTree uses.
ResultIsRank ==
    done => /\ IsFiniteSet(Smaller)
            /\ result = LET rank == Cardinality(Smaller)
                        IN  IF rank < len /\ arr[rank] = target THEN rank ELSE -rank - 1

\* Each pass of the loop at least halves the bracket, so a search of a node
\* takes logarithmically many reads.
Halves ==
    [][~done' => 2 * (high' - low') <= high - low + 1]_vars

=============================================================================
