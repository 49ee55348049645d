-------------------------- MODULE BPlusCacheProofs --------------------------
(* Five node buffers are enough for a B+ tree of every height and order.     *)
EXTENDS BPlusCache, TLAPS

Inv == TypeOK /\ BuffersOK

\* Five slots cannot hold five different names out of four (or fewer).
LEMMA FreeSlot ==
    ASSUME NEW a, NEW b, NEW c, NEW d,
           \A i \in Slots : used[i] = Unused \/ used[i] \in {a, b, c, d},
           \A i, j \in Slots : used[i] = used[j] /\ used[i] # Unused => i = j
    PROVE  Holds(Unused)
<1>1. {0, 1, 2, 3, 4} \subseteq Slots
    BY CacheAssumption DEF Slots
<1>2. SUFFICES ASSUME \A i \in {0, 1, 2, 3, 4} : used[i] \in {a, b, c, d} /\ used[i] # Unused
               PROVE  FALSE
    BY <1>1 DEF Holds
<1>3. \A i, j \in {0, 1, 2, 3, 4} : used[i] = used[j] => i = j
    BY <1>1, <1>2
<1> QED
    BY <1>2, <1>3

\* A buffer taken: the slots hold what they held and the new name, once.
LEMMA Refer ==
    ASSUME NEW buf \in Names, TypeOK, cache_refer(buf)
    PROVE  /\ used' \in [Slots -> Names]
           /\ \A i \in Slots : used'[i] = used[i] \/ used'[i] = buf
           /\ (\A i \in Slots : used[i] # buf) /\
              (\A i, j \in Slots : used[i] = used[j] /\ used[i] # Unused => i = j)
              => (\A i, j \in Slots : used'[i] = used'[j] /\ used'[i] # Unused => i = j)
BY DEF TypeOK, cache_refer

LEMMA InitInv == Init => Inv
BY CacheAssumption DEF Init, Inv, TypeOK, BuffersOK, OnlyAt, Points, Names, Unused, Slots

LEMMA InsertInv == Inv /\ Insert => Inv'
<1> SUFFICES ASSUME Inv, Insert PROVE Inv'
    OBVIOUS
<1> USE DEF Inv, BuffersOK, OnlyAt, Unused, Names, Holds, Goto
<1>1. CASE NewRoot
    BY <1>1, Refer DEF NewRoot, TypeOK, Points
<1>2. CASE NewRootDone
    BY <1>2 DEF NewRootDone, Flush, TypeOK, Points
<1>3. CASE leaf_simple_insert
    BY <1>3 DEF leaf_simple_insert, Flush, TypeOK, Points
<1>4. CASE NewSibling
    <2>1. CASE pc = "leaf_insert"
        <3>1. \A i \in Slots : used[i] \in {Unused, "node"}
            BY <2>1
        <3> QED
            BY <1>4, <3>1, Refer DEF NewSibling, TypeOK, Points
    <2>2. CASE pc = "non_leaf_insert"
        BY <1>4, <2>2, Refer DEF NewSibling, TypeOK, Points
    <2> QED
        BY <1>4, <2>1, <2>2 DEF NewSibling
<1>5. CASE FetchNeighbour
    BY <1>5, Refer DEF FetchNeighbour, TypeOK, Points, node_fetch
<1>6. CASE SplitLeaf
    BY <1>6 DEF SplitLeaf, Flush, TypeOK, Points
<1>7. CASE SplitNonLeafLeft
    BY <1>7 DEF SplitNonLeafLeft, Flush, TypeOK, Points
<1>8. CASE SplitNonLeafRight
    BY <1>8 DEF SplitNonLeafRight, Flush, TypeOK, Points
<1>9. CASE SplitLeftDone
    BY <1>9 DEF SplitLeftDone, Flush, TypeOK, Points
<1>10. CASE SplitDone
    BY <1>10 DEF SplitDone, PassAs, TypeOK, Points
<1>11. CASE NewParent
    BY <1>11, Refer DEF NewParent, TypeOK, Points
<1>12. CASE NewParentDone
    BY <1>12 DEF NewParentDone, Flush, TypeOK, Points
<1>13. CASE FetchParent
    <2>1. \A i \in Slots : used[i] \in {Unused, "l_ch", "r_ch"}
        BY <1>13 DEF FetchParent
    <2>2. /\ used' \in [Slots -> Names]
          /\ \A i \in Slots : used'[i] \in {Unused, "l_ch", "r_ch", "node"}
          /\ \A i, j \in Slots : used'[i] = used'[j] /\ used'[i] # Unused => i = j
        BY <1>13, <2>1, Refer DEF FetchParent
    <2> QED
        BY <1>13, <2>2 DEF FetchParent, TypeOK, Points
<1>14. CASE non_leaf_simple_insert
    BY <1>14 DEF non_leaf_simple_insert, Flush, TypeOK, Points
<1> QED
    BY <1>1, <1>2, <1>3, <1>4, <1>5, <1>6, <1>7, <1>8, <1>9, <1>10, <1>11, <1>12, <1>13, <1>14 DEF Insert

LEMMA RemoveInv == Inv /\ Remove => Inv'
<1> SUFFICES ASSUME Inv, Remove PROVE Inv'
    OBVIOUS
<1> USE DEF Inv, BuffersOK, OnlyAt, Unused, Names, Holds, Goto
<1>1. CASE SimpleRemove
    BY <1>1 DEF SimpleRemove, Flush, TypeOK, Points
<1>2. CASE FetchNewRoot
    BY <1>2, Refer DEF FetchNewRoot, TypeOK, Points
<1>3. CASE ReplaceRoot
    BY <1>3 DEF ReplaceRoot, Flush, TypeOK, Points
<1>4. CASE FetchLeft
    BY <1>4, Refer DEF FetchLeft, TypeOK, Points, node_fetch
<1>5. CASE FetchRight
    BY <1>5, Refer DEF FetchRight, TypeOK, Points, node_fetch
<1>6. CASE FetchUnderParent
    BY <1>6, Refer DEF FetchUnderParent, TypeOK, Points
<1>7. CASE ShiftFromSibling
    BY <1>7 DEF ShiftFromSibling, TypeOK, Points
<1>8. CASE MergeIntoLeft
    BY <1>8 DEF MergeIntoLeft, TypeOK, Points
<1>9. CASE MergeFromRight
    BY <1>9 DEF MergeFromRight, TypeOK, Points
<1>10. CASE ShiftDone
    BY <1>10 DEF ShiftDone, Flush, TypeOK, Points
<1>11. CASE MergeLeftDone
    BY <1>11 DEF MergeLeftDone, Flush, TypeOK, Points
<1>12. CASE FetchRightRight
    BY <1>12, Refer DEF FetchRightRight, TypeOK, Points, node_fetch
<1>13. CASE MergeRightDone
    BY <1>13 DEF MergeRightDone, Flush, TypeOK, Points
<1>14. CASE TraceUpwards
    <2>1. \A i \in Slots : used[i] \in {Unused, "parent"}
        BY <1>14 DEF TraceUpwards
    <2>2. used' = [i \in Slots |-> IF used[i] = "parent" THEN "node" ELSE used[i]]
        BY <1>14 DEF TraceUpwards, PassAs
    <2> QED
        BY <1>14, <2>1, <2>2 DEF TraceUpwards, TypeOK, Points
<1> QED
    BY <1>1, <1>2, <1>3, <1>4, <1>5, <1>6, <1>7, <1>8, <1>9, <1>10, <1>11, <1>12, <1>13, <1>14 DEF Remove

LEMMA OtherInv == Inv /\ (Seek \/ SubFetch \/ SubFlush) => Inv'
<1> SUFFICES ASSUME Inv, (Seek \/ SubFetch \/ SubFlush) PROVE Inv'
    OBVIOUS
<1> USE DEF Inv, BuffersOK, OnlyAt, Unused, Names, Holds, Goto
<1>1. CASE Seek
    BY <1>1, Refer DEF Seek, TypeOK, Points
<1>2. CASE SubFetch
    BY <1>2, Refer DEF SubFetch, TypeOK, Points, SubLoops
<1>3. CASE SubFlush
    BY <1>3 DEF SubFlush, Flush, SubLoops, TypeOK, Points
<1> QED
    BY <1>1, <1>2, <1>3

LEMMA StepInv == Inv /\ [Next]_vars => Inv'
<1>1. Inv /\ UNCHANGED vars => Inv'
    BY DEF Inv, TypeOK, BuffersOK, OnlyAt, Holds, vars
<1> QED
    BY <1>1, InsertInv, RemoveInv, OtherInv DEF Next

\* The type invariant and the account of the live buffers hold in every
\* reachable state, whatever the number of buffers from five up.
THEOREM TypeCorrect == Spec => [](TypeOK /\ BuffersOK)
<1>1. Spec => []Inv
    BY InitInv, StepInv, PTL DEF Spec
<1> QED
    BY <1>1, PTL DEF Inv

\* At every point where the code asks for a buffer four of them at most are
\* taken, so a fifth one is unused.
LEMMA InvFree == Inv => CacheNeverExhausted
<1> SUFFICES ASSUME Inv,
                    pc \in Referring \/ (pc \in SubLoops /\ ~Holds("sub"))
             PROVE  Holds(Unused)
    BY DEF CacheNeverExhausted
<1> DEFINE Within(bufs) == \A i \in Slots : used[i] = Unused \/ used[i] \in bufs
<1>1. \A i, j \in Slots : used[i] = used[j] /\ used[i] # Unused => i = j
    BY DEF Inv, BuffersOK
<1>2. \/ Within({"node", "sibling", "l_ch", "r_ch"})
      \/ Within({"node", "l_sib", "r_sib", "parent"})
    BY DEF Inv, BuffersOK, OnlyAt, Referring, SubLoops, Holds
<1>3. CASE Within({"node", "sibling", "l_ch", "r_ch"})
    BY <1>1, <1>3, FreeSlot
<1>4. CASE Within({"node", "l_sib", "r_sib", "parent"})
    BY <1>1, <1>4, FreeSlot
<1> QED
    BY <1>2, <1>3, <1>4

\* The assert(0) at the end of cache_refer is never reached: for a tree of
\* every height and order, five buffers are enough for every put.
THEOREM CacheSuffices == Spec => []CacheNeverExhausted
<1>1. Spec => []Inv
    BY InitInv, StepInv, PTL DEF Spec
<1> QED
    BY <1>1, InvFree, PTL

\* Every put gives back all the buffers it took, on each of its paths.
THEOREM PutsReleaseBuffers == Spec => []NoBufferLeak
<1>1. Inv => NoBufferLeak
    BY DEF Inv, BuffersOK, OnlyAt, NoBufferLeak
<1>2. Spec => []Inv
    BY InitInv, StepInv, PTL DEF Spec
<1> QED
    BY <1>1, <1>2, PTL

=============================================================================
