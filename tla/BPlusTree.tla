------------------------------ MODULE BPlusTree ------------------------------
(***************************************************************************)
(* The disk-resident B+ tree of bplustree/lib/bplustree.c.                 *)
(*                                                                         *)
(* disk maps the number of every live block (offset / _block_size) to the  *)
(* node last flushed there.  A put is a first step (descend, change the    *)
(* leaf level) followed by one step per call of the recursions that climb  *)
(* to the root, parent_node_build / non_leaf_insert and non_leaf_remove;   *)
(* frame holds the arguments of the pending call: node buffers that are    *)
(* newer than disk.  The content of a freed block is dropped, so a read    *)
(* through a dangling offset is an evaluation error, not stale data.       *)
(***************************************************************************)
EXTENDS Integers, FiniteSets, Sequences, SequencesExt

CONSTANTS
    Requests,        \* the <<key, data>> pairs clients put; data 0 deletes
    MaxOrder,        \* _max_order, children of a non-leaf
    MaxEntries,      \* _max_entries, entries of a leaf
    IntBits,         \* width of int (scaled; a long is wider)
    INVALID_OFFSET   \* a model value, or a number no block reaches

ASSUME OrderAssumption == MaxOrder \in Nat /\ MaxOrder > 3
ASSUME EntriesAssumption == MaxEntries \in Nat /\ MaxEntries > 2
ASSUME RequestsAssumption == Requests \subseteq Int \X Int
ASSUME IntBitsAssumption == IntBits \in Nat \ {0}

VARIABLES
    disk,            \* live blocks: block number -> node
    root, level,     \* tree->root, tree->level
    fileSize,        \* tree->file_size, in blocks
    freeBlocks,      \* tree->free_blocks, head first
    frame,           \* the pending recursive call
    ret              \* what the last bplus_tree_put returned

vars == <<disk, root, level, fileSize, freeBlocks, frame, ret>>
alloc == <<fileSize, freeBlocks>>

Keys == {r[1] : r \in Requests}
Datas == {r[2] : r \in Requests} \ {0}
Offset == Nat \cup {INVALID_OFFSET}

NoFrame == [fn |-> "none"]
Idle == frame = NoFrame

\* struct bplus_node: children is the length of data (leaf) or sub (non-leaf).
Leaf(self, key, data) ==
    [type |-> "leaf", self |-> self, parent |-> INVALID_OFFSET,
     prev |-> INVALID_OFFSET, next |-> INVALID_OFFSET,
     key |-> key, data |-> data, sub |-> <<>>]

NonLeaf(self, key, sub) ==
    [Leaf(self, key, <<>>) EXCEPT !.type = "non_leaf", !.sub = sub]

children(node) == IF node.type = "leaf" THEN Len(node.data) ELSE Len(node.sub)

\* What the loop of key_binary_search computes on a sorted array (KeySearch
\* proves it): the index of target, or -(insertion point) - 1.
key_binary_search(node, target) ==
    LET high == Cardinality({i \in DOMAIN node.key : node.key[i] < target})
    IN  IF high < Len(node.key) /\ node.key[high + 1] = target
        THEN high ELSE -high - 1

parent_key_index(parent, key) ==
    LET index == key_binary_search(parent, key)
    IN  IF index >= 0 THEN index ELSE -index - 2

-----------------------------------------------------------------------------
(* Blocks.                                                                 *)

node_flush(d, node) ==
    [o \in DOMAIN d \cup {node.self} |-> IF o = node.self THEN node ELSE d[o]]

\* Fetch a sibling, change one link, flush it; nothing when there is none.
Relink(d, off, link, target) ==
    IF off = INVALID_OFFSET THEN d ELSE [d EXCEPT ![off][link] = target]

sub_node_flush(d, parent, subs) ==
    [o \in DOMAIN d |-> IF o \in subs THEN [d[o] EXCEPT !.parent = parent] ELSE d[o]]

NewBlock == IF freeBlocks = <<>> THEN fileSize ELSE Head(freeBlocks)

new_node_append ==
    IF freeBlocks = <<>>
    THEN fileSize' = fileSize + 1 /\ UNCHANGED freeBlocks
    ELSE freeBlocks' = Tail(freeBlocks) /\ UNCHANGED fileSize

UnlinkLeftOnly(d, off, left, right) ==   \* faulty: right->prev is not set
    LET linked == Relink(d, left, "next", right)
    IN  [o \in DOMAIN d \ {off} |-> linked[o]]

\* Unlink node from between left and right (already flushed in d) and free it.
Unlink(d, off, left, right) ==
    LET linked == Relink(Relink(d, left, "next", right), right, "prev", left)
    IN  [o \in DOMAIN d \ {off} |-> linked[o]]

node_delete_leaks(d, off, left, right) ==   \* faulty: the block is not listed
    disk' = Unlink(d, off, left, right) /\ UNCHANGED alloc

node_delete(d, off, left, right) ==
    /\ disk' = Unlink(d, off, left, right)
    /\ freeBlocks' = Append(freeBlocks, off)
    /\ UNCHANGED fileSize

-----------------------------------------------------------------------------
(* Descent and reads.                                                      *)

SubForLeft(node, key) ==   \* faulty: an equal key leads to the left child
    LET i == key_binary_search(node, key)
    IN  node.sub[IF i >= 0 THEN i + 1 ELSE -i]

SubFor(node, key) ==
    LET i == key_binary_search(node, key)
    IN  node.sub[IF i >= 0 THEN i + 2 ELSE -i]

\* node_seek from the root: the block after n levels, stopping at the leaf.
Descend(key, n) ==
    LET at[i \in 0..n] ==
            IF i = 0 THEN root
            ELSE LET up == at[i-1]
                 IN  IF up = INVALID_OFFSET \/ disk[up].type = "leaf"
                     THEN up ELSE SubFor(disk[up], key)
    IN  at[n]

LeafFor(key) == Descend(key, Cardinality(DOMAIN disk))

\* Conversion of a long to int.
ToInt(n) == ((n + 2^(IntBits-1)) % 2^IntBits) - 2^(IntBits-1)

\* bplus_tree_get: the data passes through "int ret".
bplus_tree_get(key) ==
    IF root = INVALID_OFFSET THEN -1
    ELSE LET leaf == disk[LeafFor(key)]
             i    == key_binary_search(leaf, key)
         IN  IF i >= 0 THEN ToInt(leaf.data[i + 1]) ELSE -1

\* The <<key, data>> entries from leaf off to the end of the leaf chain.
Entries(off) ==
    LET N == Cardinality(DOMAIN disk)
        chain[i \in 0..N] ==
            IF i = 0 THEN <<off, <<>>>>
            ELSE LET read == chain[i-1]
                 IN  IF read[1] = INVALID_OFFSET THEN read
                     ELSE LET n == disk[read[1]]
                          IN  <<n.next, read[2] \o Zip(n.key, n.data)>>
    IN  chain[N][2]

ScanExclusive(entries, max, start) ==   \* faulty: stops at max
    LET stop == SelectInSeq(entries, LAMBDA e : e[1] >= max)
        n    == IF stop = 0 THEN Len(entries) ELSE stop - 1
    IN  IF n = 0 THEN start ELSE entries[n][2]

\* The inner loop of bplus_tree_get_range: the data of the last entry read.
Scan(entries, max, start) ==
    LET stop == SelectInSeq(entries, LAMBDA e : e[1] > max)
        n    == IF stop = 0 THEN Len(entries) ELSE stop - 1
    IN  IF n = 0 THEN start ELSE entries[n][2]

\* bplus_tree_get_range: the set of possible results.  When min is past the
\* last key of its leaf the scan moves to the next leaf but keeps i; if that
\* leaf has no entry i, what the slot holds is arbitrary.
bplus_tree_get_range(key1, key2) ==
    LET min  == IF key1 <= key2 THEN key1 ELSE key2
        max  == IF min = key1 THEN key2 ELSE key1
        From(off, i) == SubSeq(Entries(off), i + 1, Len(Entries(off)))
    IN  IF root = INVALID_OFFSET THEN {-1}
        ELSE LET leaf  == disk[LeafFor(min)]
                 found == key_binary_search(leaf, min)
                 i     == IF found >= 0 THEN found ELSE -found - 1
             IN  IF i < children(leaf) THEN {Scan(From(leaf.self, i), max, -1)}
                 ELSE IF leaf.next = INVALID_OFFSET THEN {-1}
                 ELSE IF i < children(disk[leaf.next])
                 THEN {Scan(From(leaf.next, i), max, -1)}
                 ELSE {-1} \cup {Scan(Entries(disk[leaf.next].next), max, d) : d \in Datas}

-----------------------------------------------------------------------------
(* Insertion.                                                              *)

Return(r) == frame' = NoFrame /\ ret' = r

\* A node was split into the parts left and right; the part the insertion
\* point falls in moves to a new block, linked in between node and its old
\* neighbour.  Nothing but that neighbour is flushed yet.
left_node_add(node, left, right) ==
    [l    |-> [left EXCEPT !.self = NewBlock, !.parent = INVALID_OFFSET,
                           !.prev = node.prev, !.next = node.self],
     r    |-> [right EXCEPT !.prev = NewBlock],
     disk |-> Relink(disk, node.prev, "next", NewBlock)]

right_node_add(node, left, right) ==
    [l    |-> [left EXCEPT !.next = NewBlock],
     r    |-> [right EXCEPT !.self = NewBlock, !.parent = INVALID_OFFSET,
                            !.prev = node.self, !.next = node.next],
     disk |-> Relink(disk, node.next, "prev", NewBlock)]

leaf_split(leaf, key, data, insert) ==
    LET split == (MaxEntries + 1) \div 2
        keys  == InsertAt(leaf.key, insert + 1, key)
        datas == InsertAt(leaf.data, insert + 1, data)
        left  == [leaf EXCEPT !.key = SubSeq(keys, 1, split),
                              !.data = SubSeq(datas, 1, split)]
        right == [leaf EXCEPT !.key = SubSeq(keys, split + 1, MaxEntries + 1),
                              !.data = SubSeq(datas, split + 1, MaxEntries + 1)]
    IN  IF insert < split THEN left_node_add(leaf, left, right)
                          ELSE right_node_add(leaf, left, right)

leaf_insert(leaf, key, data) ==
    LET found  == key_binary_search(leaf, key)
        insert == -found - 1
        s      == leaf_split(leaf, key, data, insert)
    IN  \/ /\ found >= 0
           /\ Return(-1)
           /\ UNCHANGED <<disk, root, level, alloc>>
        \/ /\ found < 0
           /\ children(leaf) < MaxEntries
           /\ disk' = node_flush(disk,
                  [leaf EXCEPT !.key = InsertAt(leaf.key, insert + 1, key),
                               !.data = InsertAt(leaf.data, insert + 1, data)])
           /\ Return(0)
           /\ UNCHANGED <<root, level, alloc>>
        \/ /\ found < 0
           /\ children(leaf) = MaxEntries
           /\ new_node_append
           /\ disk' = s.disk
           /\ frame' = [fn |-> "parent_node_build", l_ch |-> s.l, r_ch |-> s.r,
                        key |-> s.r.key[1]]
           /\ UNCHANGED <<root, level, ret>>

bplus_tree_insert(key, data) ==
    \/ /\ root = INVALID_OFFSET
       /\ new_node_append
       /\ disk' = node_flush(disk, Leaf(NewBlock, <<key>>, <<data>>))
       /\ root' = NewBlock
       /\ level' = 1
       /\ Return(0)
    \/ /\ root # INVALID_OFFSET
       /\ leaf_insert(disk[LeafFor(key)], key, data)

non_leaf_cut(insert) ==
    IF insert = MaxOrder \div 2 THEN MaxOrder \div 2 ELSE MaxOrder \div 2 + 1

\* non_leaf_split_left, _right1 and _right2: with the new child in place there
\* are MaxOrder + 1 children; the left part takes cut of them, and the key
\* between the parts goes up.  Both new children fall in the new node.
non_leaf_split(node, insert, key, l_ch, r_ch) ==
    LET split == MaxOrder \div 2
        cut   == non_leaf_cut(insert)
        keys  == InsertAt(node.key, insert + 1, key)
        subs  == InsertAt([node.sub EXCEPT ![insert + 1] = l_ch.self],
                          insert + 2, r_ch.self)
        left  == [node EXCEPT !.key = SubSeq(keys, 1, cut - 1),
                              !.sub = SubSeq(subs, 1, cut)]
        right == [node EXCEPT !.key = SubSeq(keys, cut + 1, MaxOrder),
                              !.sub = SubSeq(subs, cut + 1, MaxOrder + 1)]
        s     == IF insert < split THEN left_node_add(node, left, right)
                                   ELSE right_node_add(node, left, right)
        new   == IF insert < split THEN s.l ELSE s.r
        kids  == node_flush(node_flush(s.disk, l_ch), r_ch)
    IN  [l |-> s.l, r |-> s.r, key |-> keys[cut],
         disk |-> sub_node_flush(kids, NewBlock, ToSet(new.sub))]

non_leaf_insert(node, l_ch, r_ch, key) ==
    LET insert == -key_binary_search(node, key) - 1
        s      == non_leaf_split(node, insert, key, l_ch, r_ch)
        kids   == node_flush(node_flush(disk, l_ch), r_ch)
    IN  \/ /\ children(node) = MaxOrder
           /\ new_node_append
           /\ disk' = s.disk
           /\ frame' = [fn |-> "parent_node_build", l_ch |-> s.l, r_ch |-> s.r,
                        key |-> s.key]
           /\ UNCHANGED <<root, level, ret>>
        \/ /\ children(node) < MaxOrder
           /\ disk' = sub_node_flush(
                  node_flush(kids,
                      [node EXCEPT !.key = InsertAt(@, insert + 1, key),
                                   !.sub = InsertAt([@ EXCEPT ![insert + 1] = l_ch.self],
                                                    insert + 2, r_ch.self)]),
                  node.self, {l_ch.self, r_ch.self})
           /\ Return(0)
           /\ UNCHANGED <<root, level, alloc>>

new_parent_orphans_right(l_ch, r_ch, key) ==   \* faulty: r_ch->parent is not set
    LET parent == NonLeaf(NewBlock, <<key>>, <<l_ch.self, r_ch.self>>)
    IN  /\ new_node_append
        /\ root' = NewBlock
        /\ level' = level + 1
        /\ disk' = sub_node_flush(
               node_flush(node_flush(node_flush(disk, l_ch), r_ch), parent),
               NewBlock, {l_ch.self})
        /\ Return(0)

new_parent(l_ch, r_ch, key) ==
    LET parent == NonLeaf(NewBlock, <<key>>, <<l_ch.self, r_ch.self>>)
    IN  /\ new_node_append
        /\ root' = NewBlock
        /\ level' = level + 1
        /\ disk' = sub_node_flush(
               node_flush(node_flush(node_flush(disk, l_ch), r_ch), parent),
               NewBlock, {l_ch.self, r_ch.self})
        /\ Return(0)

\* The offset of the parent two split nodes go to.
ParentOfLeft(l_ch, r_ch) == l_ch.parent   \* faulty: l_ch may be the new node

ParentOf(l_ch, r_ch) ==
    IF r_ch.parent = INVALID_OFFSET THEN l_ch.parent ELSE r_ch.parent

parent_node_rebuild ==   \* faulty: recurses on the same nodes
    /\ frame.fn = "parent_node_build"
    /\ LET l  == frame.l_ch
           r  == frame.r_ch
           up == ParentOf(l, r)
       IN  \/ up = INVALID_OFFSET /\ new_parent(l, r, frame.key)
           \/ up # INVALID_OFFSET /\ UNCHANGED vars

parent_node_build ==
    /\ frame.fn = "parent_node_build"
    /\ LET l  == frame.l_ch
           r  == frame.r_ch
           up == ParentOf(l, r)
       IN  \/ /\ up = INVALID_OFFSET
              /\ new_parent(l, r, frame.key)
           \/ /\ up # INVALID_OFFSET
              /\ non_leaf_insert(disk[up], l, r, frame.key)

-----------------------------------------------------------------------------
(* Deletion.                                                               *)

\* i is the index of the key left of node in its parent, -1 for the first child.
sibling_select(node, i) ==
    CASE i = -1 -> "RIGHT_SIBLING"
      [] i = children(disk[node.parent]) - 2 -> "LEFT_SIBLING"
      [] OTHER -> IF children(disk[node.prev]) >= children(disk[node.next])
                  THEN "LEFT_SIBLING" ELSE "RIGHT_SIBLING"

\* non_leaf_remove is called next on the parent, for key i and child i + 1.
TraceUpwardsPastKey(parent, i) ==   \* faulty: the key after the right one
    /\ frame' = [fn |-> "non_leaf_remove", node |-> disk[parent], remove |-> i + 1]
    /\ UNCHANGED <<root, level, ret>>

TraceUpwards(parent, i) ==
    /\ frame' = [fn |-> "non_leaf_remove", node |-> disk[parent], remove |-> i]
    /\ UNCHANGED <<root, level, ret>>

\* Flush node, the sibling it borrowed from and the parent whose key i moved.
Borrowed(d, node, sib, i, sep) ==
    /\ disk' = node_flush(node_flush(node_flush(d, node), sib),
                          [d[node.parent] EXCEPT !.key[i + 1] = sep])
    /\ Return(0)
    /\ UNCHANGED <<root, level, alloc>>

leaf_simple_remove(leaf, remove) ==
    [leaf EXCEPT !.key = RemoveAt(@, remove + 1), !.data = RemoveAt(@, remove + 1)]

leaf_shift_from_left(leaf, left, i) ==
    Borrowed(disk,
             [leaf EXCEPT !.key = <<Last(left.key)>> \o @, !.data = <<Last(left.data)>> \o @],
             [left EXCEPT !.key = Front(@), !.data = Front(@)], i, Last(left.key))

leaf_shift_from_right_late(leaf, right, i) ==   \* faulty: borrows after the shift
    Borrowed(disk,
             [leaf EXCEPT !.key = Append(@, right.key[1]), !.data = Append(@, right.data[2])],
             [right EXCEPT !.key = Tail(@), !.data = Tail(@)], i, right.key[2])

leaf_shift_from_right_stale(leaf, right, i) ==   \* faulty: parent key set too early
    Borrowed(disk,
             [leaf EXCEPT !.key = Append(@, right.key[1]), !.data = Append(@, right.data[1])],
             [right EXCEPT !.key = Tail(@), !.data = Tail(@)], i, right.key[1])

leaf_shift_from_right(leaf, right, i) ==
    Borrowed(disk,
             [leaf EXCEPT !.key = Append(@, right.key[1]), !.data = Append(@, right.data[1])],
             [right EXCEPT !.key = Tail(@), !.data = Tail(@)], i, right.key[2])

\* leaf_merge_into_left and leaf_merge_from_right: right joins left and goes.
leaf_merge(parent, left, right, i) ==
    /\ node_delete(node_flush(disk, [left EXCEPT !.key = @ \o right.key,
                                                 !.data = @ \o right.data]),
                   right.self, left.self, right.next)
    /\ TraceUpwards(parent, i)

leaf_underflow(leaf, remove) ==
    LET i     == parent_key_index(disk[leaf.parent], leaf.key[1])
        left  == disk[leaf.prev]
        right == disk[leaf.next]
        min   == (MaxEntries + 1) \div 2
        rest  == leaf_simple_remove(leaf, remove)
    IN  \/ /\ sibling_select(leaf, i) = "LEFT_SIBLING"
           /\ \/ children(left) > min /\ leaf_shift_from_left(rest, left, i)
              \/ children(left) <= min /\ leaf_merge(leaf.parent, left, rest, i)
        \/ /\ sibling_select(leaf, i) = "RIGHT_SIBLING"
           /\ \/ children(right) > min /\ leaf_shift_from_right(rest, right, i + 1)
              \/ children(right) <= min /\ leaf_merge(leaf.parent, rest, right, i + 1)

leaf_remove(leaf, key) ==
    LET remove == key_binary_search(leaf, key)
        isRoot == leaf.parent = INVALID_OFFSET
    IN  \/ /\ remove < 0
           /\ Return(-1)
           /\ UNCHANGED <<disk, root, level, alloc>>
        \/ /\ remove >= 0 /\ isRoot /\ children(leaf) = 1
           /\ root' = INVALID_OFFSET
           /\ level' = 0
           /\ node_delete(disk, leaf.self, INVALID_OFFSET, INVALID_OFFSET)
           /\ Return(0)
        \/ /\ remove >= 0
           /\ IF isRoot THEN children(leaf) > 1
                        ELSE children(leaf) > (MaxEntries + 1) \div 2
           /\ disk' = node_flush(disk, leaf_simple_remove(leaf, remove))
           /\ Return(0)
           /\ UNCHANGED <<root, level, alloc>>
        \/ /\ remove >= 0 /\ ~isRoot
           /\ children(leaf) <= (MaxEntries + 1) \div 2
           /\ leaf_underflow(leaf, remove)

bplus_tree_delete(key) ==
    \/ /\ root = INVALID_OFFSET
       /\ Return(-1)
       /\ UNCHANGED <<disk, root, level, alloc>>
    \/ /\ root # INVALID_OFFSET
       /\ leaf_remove(disk[LeafFor(key)], key)

non_leaf_simple_remove(node, remove) ==
    [node EXCEPT !.key = RemoveAt(@, remove + 1), !.sub = RemoveAt(@, remove + 2)]

non_leaf_shift_from_left_orphan(node, left, i) ==   \* faulty: no sub_node_flush
    Borrowed(disk,
             [node EXCEPT !.key = <<disk[node.parent].key[i + 1]>> \o @,
                          !.sub = <<Last(left.sub)>> \o @],
             [left EXCEPT !.key = Front(@), !.sub = Front(@)], i, Last(left.key))

non_leaf_shift_from_left(node, left, i) ==
    Borrowed(sub_node_flush(disk, node.self, {Last(left.sub)}),
             [node EXCEPT !.key = <<disk[node.parent].key[i + 1]>> \o @,
                          !.sub = <<Last(left.sub)>> \o @],
             [left EXCEPT !.key = Front(@), !.sub = Front(@)], i, Last(left.key))

non_leaf_shift_from_right(node, right, i) ==
    Borrowed(sub_node_flush(disk, node.self, {right.sub[1]}),
             [node EXCEPT !.key = Append(@, disk[node.parent].key[i + 1]),
                          !.sub = Append(@, right.sub[1])],
             [right EXCEPT !.key = Tail(@), !.sub = Tail(@)], i, right.key[1])

\* non_leaf_merge_into_left and non_leaf_merge_from_right.
non_leaf_merge(parent, left, right, i) ==
    LET sep    == disk[parent].key[i + 1]
        merged == [left EXCEPT !.key = @ \o <<sep>> \o right.key, !.sub = @ \o right.sub]
    IN  /\ node_delete(sub_node_flush(node_flush(disk, merged), left.self, ToSet(right.sub)),
                       right.self, left.self, right.next)
        /\ TraceUpwards(parent, i)

non_leaf_underflow(node, remove) ==
    LET i     == parent_key_index(disk[node.parent], node.key[1])
        left  == disk[node.prev]
        right == disk[node.next]
        min   == (MaxOrder + 1) \div 2
        rest  == non_leaf_simple_remove(node, remove)
    IN  \/ /\ sibling_select(node, i) = "LEFT_SIBLING"
           /\ \/ children(left) > min /\ non_leaf_shift_from_left(rest, left, i)
              \/ children(left) <= min /\ non_leaf_merge(node.parent, left, rest, i)
        \/ /\ sibling_select(node, i) = "RIGHT_SIBLING"
           /\ \/ children(right) > min /\ non_leaf_shift_from_right(rest, right, i + 1)
              \/ children(right) <= min /\ non_leaf_merge(node.parent, rest, right, i + 1)

non_leaf_remove ==
    /\ frame.fn = "non_leaf_remove"
    /\ LET node   == frame.node
           remove == frame.remove
           isRoot == node.parent = INVALID_OFFSET
       IN  \/ /\ isRoot /\ children(node) = 2
              /\ root' = node.sub[1]
              /\ level' = level - 1
              /\ node_delete([disk EXCEPT ![node.sub[1]].parent = INVALID_OFFSET],
                             node.self, INVALID_OFFSET, INVALID_OFFSET)
              /\ Return(0)
           \/ /\ IF isRoot THEN children(node) > 2
                           ELSE children(node) > (MaxOrder + 1) \div 2
              /\ disk' = node_flush(disk, non_leaf_simple_remove(node, remove))
              /\ Return(0)
              /\ UNCHANGED <<root, level, alloc>>
           \/ /\ ~isRoot
              /\ children(node) <= (MaxOrder + 1) \div 2
              /\ non_leaf_underflow(node, remove)

-----------------------------------------------------------------------------
bplus_tree_put(key, data) ==
    /\ Idle
    /\ \/ data # 0 /\ bplus_tree_insert(key, data)
       \/ data = 0 /\ bplus_tree_delete(key)

\* bplus_tree_init without a boot file.
Init ==
    /\ disk = <<>>
    /\ root = INVALID_OFFSET
    /\ level = 0
    /\ fileSize = 0
    /\ freeBlocks = <<>>
    /\ frame = NoFrame
    /\ ret = 0

Climb == parent_node_build \/ non_leaf_remove

Next ==
    \/ \E r \in Requests : bplus_tree_put(r[1], r[2])
    \/ Climb

\* A put that started runs to its return: the calling thread is scheduled.
Spec == Init /\ [][Next]_vars /\ WF_vars(Climb)

-----------------------------------------------------------------------------
(* Properties.                                                             *)

Nodes == {disk[o] : o \in DOMAIN disk}

\* The node buffers of the pending call that are newer than disk.
Held ==
    CASE frame.fn = "parent_node_build" -> {frame.l_ch, frame.r_ch}
      [] OTHER -> {}

\* Every node of the tree at its newest.
Newest == Held \cup {n \in Nodes : \A h \in Held : h.self # n.self}

\* The pairs stored in the leaves.
Contents ==
    LET leaves == {n \in Newest : n.type = "leaf"}
        keys   == UNION {ToSet(n.key) : n \in leaves}
        Home(k) == CHOOSE n \in leaves : k \in ToSet(n.key)
    IN  [k \in keys |-> LET n == Home(k) IN
                       n.data[CHOOSE i \in DOMAIN n.key : n.key[i] = k]]

\* Type invariant: blocks hold nodes, offsets are blocks or INVALID_OFFSET, a
\* node never outgrows its block (children never exceeds _max_entries or
\* _max_order, in memory or on disk), a leaf has a datum per key and a
\* non-leaf one child more than keys.
NodeOK(n) ==
    /\ n.self \in Nat
    /\ {n.parent, n.prev, n.next} \subseteq Offset
    /\ IF n.type = "leaf"
       THEN Len(n.key) = Len(n.data) /\ Len(n.key) \in 1..MaxEntries
       ELSE Len(n.key) + 1 = Len(n.sub) /\ Len(n.sub) \in 2..MaxOrder

TypeOK ==
    /\ \A n \in Newest : NodeOK(n)
    /\ \A o \in DOMAIN disk : disk[o].self = o
    /\ root \in Offset /\ level \in Nat /\ fileSize \in Nat
    /\ freeBlocks \in Seq(Nat)
    /\ frame.fn \in {"none", "parent_node_build", "non_leaf_remove"}
    /\ ret \in {0, -1}

\* No assert of the code fails: the key that goes up is never already a key of
\* the parent (non_leaf_insert), and a non-leaf that loses a child has at least
\* two and has the child to lose (non_leaf_simple_remove).
AssertionsHold ==
    /\ frame.fn = "parent_node_build" =>
          LET up == ParentOf(frame.l_ch, frame.r_ch)
          IN  up # INVALID_OFFSET => key_binary_search(disk[up], frame.key) < 0
    /\ frame.fn = "non_leaf_remove" =>
          children(frame.node) >= 2 /\ frame.remove \in 0..(children(frame.node) - 2)

\* The keys of every node are sorted, in memory and on disk, which is what
\* key_binary_search needs; and between calls a separator bounds its two
\* children: keys left of it are smaller, keys right of it are not.
OrderedKeys ==
    /\ \A n \in Newest : \A i \in 1..(Len(n.key) - 1) : n.key[i] < n.key[i + 1]
    /\ Idle => \A n \in Nodes : \A i \in 1..(Len(n.sub) - 1) :
          /\ \A k \in ToSet(disk[n.sub[i]].key) : k < n.key[i]
          /\ \A k \in ToSet(disk[n.sub[i + 1]].key) : k >= n.key[i]

\* Between calls parent offsets and child offsets agree: every block but the
\* root is a child of exactly the node its parent field names, which is how
\* splits and merges find the parent without a path (parent_node_build,
\* leaf_remove, non_leaf_remove), and no block is orphaned.
ParentLinks ==
    Idle =>
        /\ root = INVALID_OFFSET <=> disk = <<>>
        /\ \A n \in Nodes :
              /\ n.parent = INVALID_OFFSET <=> n.self = root
              /\ n.self # root => n.self \in ToSet(disk[n.parent].sub)
              /\ \A i \in DOMAIN n.sub : disk[n.sub[i]].parent = n.self

\* Between calls the prev/next links of every level name the neighbouring
\* children, within a parent and across parents: borrowing, merging and range
\* scans follow them (left_node_add, right_node_add, node_delete).
SiblingLinks ==
    Idle =>
        /\ root # INVALID_OFFSET =>
              disk[root].prev = INVALID_OFFSET /\ disk[root].next = INVALID_OFFSET
        /\ \A n \in Nodes :
              /\ \A i \in 1..(Len(n.sub) - 1) :
                    /\ disk[n.sub[i]].next = n.sub[i + 1]
                    /\ disk[n.sub[i + 1]].prev = n.sub[i]
              /\ n.sub # <<>> =>
                    /\ disk[Last(n.sub)].next =
                         IF n.next = INVALID_OFFSET THEN n.next ELSE disk[n.next].sub[1]
                    /\ disk[n.sub[1]].prev =
                         IF n.prev = INVALID_OFFSET THEN n.prev ELSE Last(disk[n.prev].sub)

\* Between calls the tree is balanced and full enough: every key is level - 1
\* steps from the root, every leaf but the root is at least half full, and
\* every non-leaf but the root has at least half of _max_order children.
Balanced ==
    Idle =>
        /\ root = INVALID_OFFSET => level = 0
        /\ root # INVALID_OFFSET => \A k \in Keys :
              /\ disk[Descend(k, level - 1)].type = "leaf"
              /\ level > 1 => disk[Descend(k, level - 2)].type = "non_leaf"
        /\ \A n \in Nodes : n.self # root =>
              children(n) >= IF n.type = "leaf" THEN (MaxEntries + 1) \div 2
                                               ELSE MaxOrder \div 2

\* At every step the blocks of the file are split between the tree (on disk or
\* in a buffer about to be flushed) and the free list, none in both, none
\* twice in the list and none lost ("deleted blocks can be allocated for other
\* nodes", new_node_append and node_delete).
BlocksPartition ==
    LET live == DOMAIN disk \cup {n.self : n \in Held}
    IN  /\ live \cap ToSet(freeBlocks) = {}
        /\ live \cup ToSet(freeBlocks) = 0..(fileSize - 1)
        /\ Len(freeBlocks) = Cardinality(ToSet(freeBlocks))

\* The tree is well formed whatever was put and deleted before: everything
\* above holds together, which is what each operation of the tree relies on.
WellFormed ==
    /\ TypeOK
    /\ AssertionsHold
    /\ OrderedKeys
    /\ ParentLinks
    /\ SiblingLinks
    /\ Balanced
    /\ BlocksPartition

\* Between calls a get of any key returns the stored datum, or -1 when there is
\* none, whatever splits, merges and borrows moved it (bplus_tree_search; the
\* oracle of bplustree_coverage.c asserts it).
GetFindsStored ==
    Idle => LET kv == Contents
            IN  \A k \in Keys : bplus_tree_get(k) = IF k \in DOMAIN kv THEN kv[k] ELSE -1

LastInRange(kv, min, max) ==
    LET inside == {k \in DOMAIN kv : min <= k /\ k <= max}
    IN  IF inside = {} THEN -1
        ELSE kv[CHOOSE k \in inside : \A j \in inside : j <= k]

\* A range scan reports the last pair of the range, also across leaves.  It does
\* not when the lower end is past the last key of its leaf: see the README.
RangeFindsLast ==
    Idle => LET kv == Contents
            IN  \A k1, k2 \in Keys :
                    bplus_tree_get_range(k1, k2) =
                        {IF k1 <= k2 THEN LastInRange(kv, k1, k2)
                                     ELSE LastInRange(kv, k2, k1)}

\* A range scan that starts at a stored key reports the last pair of the
\* range: following the leaf chain it skips no leaf and stops at the bound.
RangeFromStored ==
    Idle => LET kv == Contents
            IN  \A k1 \in DOMAIN kv, k2 \in Keys :
                    k1 <= k2 => bplus_tree_get_range(k1, k2) = {LastInRange(kv, k1, k2)}

\* The tree implements the map of its tests: each put takes effect once, on
\* its own key only, and returns what the oracle expects.
Map == INSTANCE KeyValueMap WITH kv <- Contents, busy <- ~Idle
MapSpec == Map!Spec

\* Every put returns: the climb of splits or merges ends at the root.
PutReturns == ~Idle ~> Idle

=============================================================================
