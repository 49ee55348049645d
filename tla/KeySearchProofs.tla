--------------------------- MODULE KeySearchProofs ---------------------------
(* The binary search of a node is right for nodes of every size.             *)
EXTENDS KeySearch, FiniteSetTheorems, TLAPS

\* What the search returns is settled by where the bracket closed.
Returned == done => low + 1 >= high /\ result = Found

Inv == TypeOK /\ Bracket /\ Returned

\* The middle of a bracket that is still open lies strictly inside it, and
\* leaves at most half of it on either side.
LEMMA MidInside ==
    ASSUME low \in Int, high \in Int, low + 1 < high
    PROVE  /\ Mid \in (low + 1)..(high - 1)
           /\ 2 * (high - Mid) <= high - low + 1
           /\ 2 * (Mid - low) <= high - low + 1
BY DEF Mid

\* The variables are numbers within the array.
LEMMA Ranges ==
    ASSUME TypeOK
    PROVE  /\ len \in Nat /\ low \in Int /\ high \in Int /\ high <= len /\ -1 <= low
           /\ \A i \in 0..(len-1) : arr[i] \in Int
           /\ target \in Int
<1>1. len \in Nat /\ low \in Int /\ high \in Int /\ high <= len /\ -1 <= low
    BY MaxLenAssumption DEF TypeOK
<1>2. \A i \in 0..(len-1) : arr[i] \in Int
    BY KeyAssumption DEF TypeOK
<1>3. target \in Int
    BY KeyAssumption DEF TypeOK
<1> QED
    BY <1>1, <1>2, <1>3

LEMMA InitInv == Init => Inv
<1> SUFFICES ASSUME Init PROVE Inv
    OBVIOUS
<1>1. len \in Nat /\ low = -1 /\ high = len
    BY MaxLenAssumption DEF Init
<1>2. low + 1 < high => Mid \in (low + 1)..(high - 1)
    BY <1>1, MidInside
<1>3. TypeOK
    <2>1. low \in -1..(len-1) /\ high \in 0..len
        BY <1>1
    <2>2. done \in BOOLEAN
        BY Zenon DEF Init
    <2> QED
        BY <2>1, <2>2 DEF Init, TypeOK
<1>4. Bracket
    BY <1>1, <1>2 DEF Init, Bracket
<1> QED
    BY <1>3, <1>4 DEF Inv, Returned, Init

LEMMA GoRightInv == Inv /\ GoRight => Inv'
<1> SUFFICES ASSUME Inv, GoRight PROVE Inv'
    OBVIOUS
<1>1. /\ len \in Nat /\ low \in Int /\ high \in Int /\ high <= len /\ -1 <= low
      /\ \A i \in 0..(len-1) : arr[i] \in Int
      /\ target \in Int
    BY Ranges DEF Inv
<1>2. Mid \in (low + 1)..(high - 1)
    BY <1>1, MidInside DEF GoRight
<1>3. TypeOK'
    BY <1>1, <1>2 DEF Inv, TypeOK, GoRight, input
<1>4. \A i \in 0..(len-1) : i <= Mid => arr[i] < target
    BY <1>1, <1>2 DEF Inv, Bracket, Sorted, GoRight
<1>5. (low + 1 < high => Mid \in (low + 1)..(high - 1))'
    BY <1>1, <1>2 DEF GoRight, Mid
<1>6. Bracket'
    BY <1>1, <1>2, <1>4, <1>5 DEF Inv, Bracket, Sorted, GoRight, input
<1>7. Returned'
    BY <1>1 DEF Inv, Returned, GoRight
<1> QED
    BY <1>3, <1>6, <1>7 DEF Inv

LEMMA GoLeftInv == Inv /\ GoLeft => Inv'
<1> SUFFICES ASSUME Inv, GoLeft PROVE Inv'
    OBVIOUS
<1>1. /\ len \in Nat /\ low \in Int /\ high \in Int /\ high <= len /\ -1 <= low
      /\ \A i \in 0..(len-1) : arr[i] \in Int
      /\ target \in Int
    BY Ranges DEF Inv
<1>2. Mid \in (low + 1)..(high - 1)
    BY <1>1, MidInside DEF GoLeft
<1>3. TypeOK'
    BY <1>1, <1>2 DEF Inv, TypeOK, GoLeft, input
<1>4. \A i \in 0..(len-1) : i >= Mid => target <= arr[i]
    BY <1>1, <1>2 DEF Inv, Bracket, Sorted, GoLeft
<1>5. (low + 1 < high => Mid \in (low + 1)..(high - 1))'
    BY <1>1, <1>2 DEF GoLeft, Mid
<1>6. Bracket'
    BY <1>1, <1>2, <1>4, <1>5 DEF Inv, Bracket, Sorted, GoLeft, input
<1>7. Returned'
    BY <1>1 DEF Inv, Returned, GoLeft
<1> QED
    BY <1>3, <1>6, <1>7 DEF Inv

LEMMA ReturnInv == Inv /\ Return => Inv'
<1> SUFFICES ASSUME Inv, Return PROVE Inv'
    OBVIOUS
<1>1. Found \in Int
    BY DEF Inv, TypeOK, Found
<1>2. TypeOK'
    BY <1>1 DEF Inv, TypeOK, Return, input
<1>3. Bracket' /\ Returned'
    BY DEF Inv, Bracket, Returned, Sorted, Mid, Found, Return, input
<1> QED
    BY <1>2, <1>3 DEF Inv

LEMMA StepInv == Inv /\ [Next]_vars => Inv'
<1>1. Inv /\ UNCHANGED vars => Inv'
    BY DEF Inv, TypeOK, Bracket, Returned, Sorted, Mid, Found, vars
<1> QED
    BY <1>1, GoRightInv, GoLeftInv, ReturnInv DEF Next

\* The bracket and the types of the loop's variables, for every sorted array.
THEOREM SearchInvariant == Spec => [](TypeOK /\ Bracket)
<1>1. Spec => []Inv
    BY InitInv, StepInv, PTL DEF Spec
<1> QED
    BY <1>1, PTL DEF Inv

\* When the bracket has closed the smaller keys are exactly those below high.
LEMMA InvRank == Inv => ResultIsRank
<1> SUFFICES ASSUME Inv, done PROVE ResultIsRank
    BY DEF ResultIsRank
<1>1. /\ len \in Nat /\ low \in Int /\ high \in 0..len /\ low + 1 = high
      /\ \A i \in 0..(len-1) : arr[i] \in Int
      /\ target \in Int
    <2>1. low < high /\ low + 1 >= high /\ high \in 0..len
        BY DEF Inv, TypeOK, Bracket, Returned
    <2> QED
        BY <2>1, Ranges DEF Inv
<1>2. \A i \in 0..(len-1) : arr[i] < target <=> i <= high - 1
    BY <1>1 DEF Inv, Bracket
<1>3. Smaller = 0..(high - 1)
    BY <1>1, <1>2 DEF Smaller
<1>4. IsFiniteSet(Smaller) /\ Cardinality(Smaller) = high
    BY <1>1, <1>3, FS_Interval
<1>5. result = Found
    BY DEF Inv, Returned
<1> QED
    BY <1>1, <1>4, <1>5 DEF ResultIsRank, Found

\* For every node the code can hold, the loop computes the closed form by
\* which BPlusTree models it.
THEOREM SearchResult == Spec => []ResultIsRank
<1>1. Spec => []Inv
    BY InitInv, StepInv, PTL DEF Spec
<1> QED
    BY <1>1, InvRank, PTL

\* Every pass of the loop halves the bracket, whatever the size of the node.
THEOREM SearchHalves == Spec => Halves
<1>1. Inv /\ [Next]_vars => [~done' => 2 * (high' - low') <= high - low + 1]_vars
    <2> SUFFICES ASSUME Inv, Next, ~done'
                 PROVE  2 * (high' - low') <= high - low + 1
        BY DEF vars
    <2>1. low \in Int /\ high \in Int
        BY DEF Inv, TypeOK
    <2>2. CASE GoRight
        BY <2>1, <2>2, MidInside DEF GoRight
    <2>3. CASE GoLeft
        BY <2>1, <2>3, MidInside DEF GoLeft
    <2> QED
        BY <2>2, <2>3 DEF Next, Return
<1>2. Spec => []Inv
    BY InitInv, StepInv, PTL DEF Spec
<1> QED
    BY <1>1, <1>2, PTL DEF Spec, Halves

=============================================================================
