----------------------------- MODULE BPlusCache -----------------------------
(***************************************************************************)
(* The node buffers of bplustree.c.  A tree owns MIN_CACHE_NUM buffers;    *)
(* cache_refer takes the first unused one and asserts if there is none,    *)
(* node_flush, node_delete and cache_defer give one back.  This module     *)
(* keeps the order in which every put takes and gives back buffers and     *)
(* leaves out what is in them: which siblings exist, whether a node is     *)
(* full, the root, or above its minimum, and how many children are         *)
(* rewritten are arbitrary, so it covers trees of every height and order.  *)
(***************************************************************************)
EXTENDS Naturals

CONSTANT MIN_CACHE_NUM

ASSUME CacheAssumption == MIN_CACHE_NUM \in Nat /\ MIN_CACHE_NUM >= 5

VARIABLES
    used,      \* slot -> the C variable whose buffer it is, or Unused
    pc,        \* the point of the code where the put stands
    atLeaf     \* the node being worked on is a leaf

vars == <<used, pc, atLeaf>>

Slots == 0..(MIN_CACHE_NUM - 1)
Unused == "unused"

Holds(buf) == \E i \in Slots : used[i] = buf

cache_refer(buf) ==
    \E i \in Slots :
        /\ used[i] = Unused
        /\ \A j \in Slots : j < i => used[j] # Unused
        /\ used' = [used EXCEPT ![i] = buf]

\* node_fetch of a sibling, NULL (no buffer) when its offset is INVALID_OFFSET.
node_fetch(buf) == cache_refer(buf) \/ UNCHANGED used

\* node_flush or cache_defer of the given buffers; node_flush(NULL) is nothing.
Flush(bufs) ==
    used' = [i \in Slots |-> IF used[i] \in bufs THEN Unused ELSE used[i]]

\* The same buffer under the name it has in the function called next.
PassAs(names) ==
    used' = [i \in Slots |-> IF used[i] \in DOMAIN names THEN names[used[i]] ELSE used[i]]

Goto(from, to) == pc = from /\ pc' = to /\ UNCHANGED atLeaf

-----------------------------------------------------------------------------
(* Insertion.                                                              *)

\* bplus_tree_insert into an empty tree: leaf_new, node_flush.
NewRoot == Goto("idle", "new_root") /\ cache_refer("root")
NewRootDone == Goto("new_root", "idle") /\ Flush({"root"})

\* node_seek leaves the leaf in the first unused buffer; leaf_insert and
\* leaf_remove mark that buffer used once they know the leaf will change.
Seek ==
    /\ pc = "idle"
    /\ pc' \in {"leaf_insert", "leaf_remove"}
    /\ cache_refer("node")
    /\ atLeaf' = TRUE

leaf_simple_insert == Goto("leaf_insert", "idle") /\ Flush({"node"})

\* leaf_new or non_leaf_new of the split, in leaf_insert or non_leaf_insert.
NewSibling ==
    /\ pc \in {"leaf_insert", "non_leaf_insert"}
    /\ pc' = "node_add"
    /\ cache_refer("sibling")
    /\ UNCHANGED atLeaf

\* left_node_add or right_node_add: fetch the old neighbour, relink, flush it.
FetchNeighbour == Goto("node_add", "node_added") /\ node_fetch("neighbour")

SplitLeaf ==
    /\ atLeaf
    /\ Goto("node_added", "split")
    /\ Flush({"neighbour"})

SplitNonLeafLeftKeeps ==   \* faulty: the neighbour is flushed too late
    /\ ~atLeaf
    /\ Goto("node_added", "split_left")
    /\ UNCHANGED used

\* non_leaf_split_left rewrites children before it flushes l_ch and r_ch,
\* non_leaf_split_right1 and _right2 after.
SplitNonLeafLeft ==
    /\ ~atLeaf
    /\ Goto("node_added", "split_left")
    /\ Flush({"neighbour"})

SplitNonLeafRight ==
    /\ ~atLeaf
    /\ Goto("node_added", "split")
    /\ Flush({"neighbour", "l_ch", "r_ch"})

SplitLeftDone ==
    /\ ~Holds("sub")
    /\ Goto("split_left", "split")
    /\ Flush({"l_ch", "r_ch"})

\* parent_node_build(node, sibling) or (sibling, node).
SplitDone ==
    /\ ~Holds("sub")
    /\ Goto("split", "parent_node_build")
    /\ PassAs([node |-> "l_ch", sibling |-> "r_ch"])

NewParentLeaks ==   \* faulty: r_ch is not flushed
    Goto("new_parent", "idle") /\ Flush({"l_ch", "parent"})

NewParent == Goto("parent_node_build", "new_parent") /\ cache_refer("parent")
NewParentDone == Goto("new_parent", "idle") /\ Flush({"l_ch", "r_ch", "parent"})

FetchParent ==
    /\ pc = "parent_node_build"
    /\ pc' = "non_leaf_insert"
    /\ cache_refer("node")
    /\ atLeaf' = FALSE

non_leaf_simple_insert ==
    Goto("non_leaf_insert", "idle") /\ Flush({"l_ch", "r_ch", "node"})

-----------------------------------------------------------------------------
(* Deletion; leaf_remove and non_leaf_remove take the same steps.          *)

\* The root or a node above its minimum, or the last node of the tree.
SimpleRemove ==
    /\ pc \in {"leaf_remove", "non_leaf_remove"}
    /\ pc' = "idle"
    /\ Flush({"node"})
    /\ UNCHANGED atLeaf

\* The root with two children is replaced by the first.
FetchNewRoot == Goto("non_leaf_remove", "new_root_remove") /\ cache_refer("root")
ReplaceRoot == Goto("new_root_remove", "idle") /\ Flush({"node", "root"})

FetchLeft ==
    /\ pc \in {"leaf_remove", "non_leaf_remove"}
    /\ pc' = "fetch_right"
    /\ node_fetch("l_sib")
    /\ UNCHANGED atLeaf

\* A node that is not the root has a sibling on one side at least.
FetchRight ==
    /\ Goto("fetch_right", "fetch_parent")
    /\ node_fetch("r_sib")
    /\ Holds("l_sib") \/ used' # used

FetchUnderParent == Goto("fetch_parent", "sibling_select") /\ cache_refer("parent")

\* The selected sibling is a child of the same parent, so it exists.
ShiftFromSibling ==
    /\ Holds("l_sib") \/ Holds("r_sib")
    /\ Goto("sibling_select", "shift")
    /\ UNCHANGED used

MergeIntoLeft ==
    /\ Holds("l_sib")
    /\ Goto("sibling_select", "merge_left")
    /\ UNCHANGED used

MergeFromRight ==
    /\ Holds("r_sib")
    /\ Goto("sibling_select", "merge_right")
    /\ UNCHANGED used

ShiftDone ==
    /\ ~Holds("sub")
    /\ Goto("shift", "idle")
    /\ Flush({"node", "l_sib", "r_sib", "parent"})

\* node_delete(node, l_sib, r_sib), then non_leaf_remove(parent).
MergeLeftDone ==
    /\ ~Holds("sub")
    /\ Goto("merge_left", "merged")
    /\ Flush({"node", "l_sib", "r_sib"})

FetchRightRight ==
    /\ ~Holds("sub")
    /\ Goto("merge_right", "delete_right")
    /\ node_fetch("rr_sib")

\* node_delete(r_sib, node, rr_sib), node_flush(l_sib), then upwards.
MergeRightDone ==
    /\ Goto("delete_right", "merged")
    /\ Flush({"rr_sib", "node", "r_sib", "l_sib"})

TraceUpwards ==
    /\ pc = "merged"
    /\ pc' = "non_leaf_remove"
    /\ PassAs([parent |-> "node"])
    /\ atLeaf' = FALSE

-----------------------------------------------------------------------------
\* The points where a non-leaf rewrites the parent offset of children that
\* moved: sub_node_flush fetches and flushes one at a time.
SubLoops == {"split_left", "split", "shift", "merge_left", "merge_right"}

SubFetch ==
    /\ pc \in SubLoops
    /\ ~atLeaf
    /\ ~Holds("sub")
    /\ cache_refer("sub")
    /\ UNCHANGED <<pc, atLeaf>>

SubFlush ==
    /\ pc \in SubLoops
    /\ Holds("sub")
    /\ Flush({"sub"})
    /\ UNCHANGED <<pc, atLeaf>>

Init == used = [i \in Slots |-> Unused] /\ pc = "idle" /\ atLeaf = TRUE

Insert ==
    \/ NewRoot \/ NewRootDone \/ leaf_simple_insert \/ NewSibling
    \/ FetchNeighbour \/ SplitLeaf \/ SplitNonLeafLeft \/ SplitNonLeafRight
    \/ SplitLeftDone \/ SplitDone \/ NewParent \/ NewParentDone
    \/ FetchParent \/ non_leaf_simple_insert

Remove ==
    \/ SimpleRemove \/ FetchNewRoot \/ ReplaceRoot \/ FetchLeft \/ FetchRight
    \/ FetchUnderParent \/ ShiftFromSibling \/ MergeIntoLeft \/ MergeFromRight
    \/ ShiftDone \/ MergeLeftDone \/ FetchRightRight \/ MergeRightDone
    \/ TraceUpwards

Next == Seek \/ Insert \/ Remove \/ SubFetch \/ SubFlush

Spec == Init /\ [][Next]_vars

-----------------------------------------------------------------------------
(* Properties.                                                             *)

Points ==
    {"idle", "new_root", "leaf_insert", "node_add", "node_added", "split_left",
     "split", "parent_node_build", "new_parent", "non_leaf_insert",
     "leaf_remove", "non_leaf_remove", "new_root_remove", "fetch_right",
     "fetch_parent", "sibling_select", "shift", "merge_left", "merge_right",
     "delete_right", "merged"}

Names ==
    {Unused, "root", "node", "sibling", "neighbour", "l_ch", "r_ch", "sub",
     "parent", "l_sib", "r_sib", "rr_sib"}

\* At these points no variable but those in bufs has a buffer.
OnlyAt(points, bufs) ==
    pc \in points => \A i \in Slots : used[i] = Unused \/ used[i] \in bufs

\* Type invariant.
TypeOK ==
    /\ pc \in Points
    /\ atLeaf \in BOOLEAN
    /\ used \in [Slots -> Names]

\* At every point of a put each buffer in use belongs to a variable that is
\* live there, no variable has two buffers, and a leaf split has no children
\* buffers (the inductive invariant behind the two properties below).
BuffersOK ==
    /\ OnlyAt({"idle"}, {})
    /\ OnlyAt({"new_root"}, {"root"})
    /\ OnlyAt({"leaf_insert", "leaf_remove", "non_leaf_remove"}, {"node"})
    /\ OnlyAt({"node_add"}, {"node", "sibling", "l_ch", "r_ch"})
    /\ OnlyAt({"node_added"}, {"node", "sibling", "l_ch", "r_ch", "neighbour"})
    /\ OnlyAt({"split_left"}, {"node", "sibling", "l_ch", "r_ch", "sub"})
    /\ OnlyAt({"split"}, {"node", "sibling", "sub"})
    /\ OnlyAt({"parent_node_build"}, {"l_ch", "r_ch"})
    /\ OnlyAt({"new_parent"}, {"l_ch", "r_ch", "parent"})
    /\ OnlyAt({"non_leaf_insert"}, {"l_ch", "r_ch", "node"})
    /\ OnlyAt({"new_root_remove"}, {"node", "root"})
    /\ OnlyAt({"fetch_right"}, {"node", "l_sib"})
    /\ OnlyAt({"fetch_parent"}, {"node", "l_sib", "r_sib"})
    /\ OnlyAt({"sibling_select"}, {"node", "l_sib", "r_sib", "parent"})
    /\ OnlyAt({"shift", "merge_left", "merge_right"},
              {"node", "l_sib", "r_sib", "parent", "sub"})
    /\ OnlyAt({"delete_right"}, {"node", "l_sib", "r_sib", "parent", "rr_sib"})
    /\ OnlyAt({"merged"}, {"parent"})
    /\ \A i, j \in Slots : used[i] = used[j] /\ used[i] # Unused => i = j
    /\ pc = "non_leaf_insert" => ~atLeaf
    /\ pc \in {"node_add", "node_added"} /\ atLeaf => ~Holds("l_ch") /\ ~Holds("r_ch")

\* The points where the code may call cache_refer.
Referring ==
    {"idle", "leaf_insert", "non_leaf_insert", "node_add", "parent_node_build",
     "leaf_remove", "non_leaf_remove", "fetch_right", "fetch_parent"}

\* assert(0) of cache_refer is never reached: whenever the code asks for a
\* buffer, one of the five is unused ("5 node caches are needed at least").
CacheNeverExhausted ==
    \/ pc \in Referring
    \/ pc \in SubLoops /\ ~Holds("sub")
    => Holds(Unused)

\* No buffer leaks: between puts all are unused.
NoBufferLeak == pc = "idle" => \A i \in Slots : used[i] = Unused

=============================================================================
