------------------------------ MODULE BPlusBoot ------------------------------
(***************************************************************************)
(* Closing and reopening a B+ tree: bplus_tree_deinit and bplus_tree_init. *)
(* The nodes are in the index file (disk); root, block size, file size and *)
(* the free list go through the boot file as words of ADDR_STR_WIDTH hex   *)
(* digits, offsets in bytes.  level is not stored.  BlockSizes are sizes   *)
(* bplus_tree_init accepts (for others it returns NULL before there is a   *)
(* tree); the order is MaxOrder, whatever the block size.                  *)
(***************************************************************************)
EXTENDS BPlusTree

CONSTANTS
    BlockSizes,       \* the block_size arguments of bplus_tree_init
    ADDR_STR_WIDTH    \* digits of a word (scaled)

ASSUME BlockSizesAssumption == BlockSizes \subseteq Nat \ {0}
ASSUME WidthAssumption == ADDR_STR_WIDTH \in Nat \ {0}

VARIABLES
    boot,             \* the words of the boot file, <<>> when there is none
    blockSize,        \* _block_size, 0 before the first bplus_tree_init
    open              \* a tree is open

bootVars == <<boot, blockSize, open>>
allVars == <<vars, bootVars>>

-----------------------------------------------------------------------------
hex_to_str(n) ==
    [i \in 1..ADDR_STR_WIDTH |-> (n \div 16^(ADDR_STR_WIDTH - i)) % 16]

str_to_hex(c) == FoldLeft(LAMBDA n, d : n * 16 + d, 0, c)

\* Block numbers of this module to byte offsets and back.
Bytes(off) == IF off = INVALID_OFFSET THEN off ELSE off * blockSize
Block(bytes, size) == IF bytes = INVALID_OFFSET THEN bytes ELSE bytes \div size

BootWordsNoFree ==   \* faulty: the free list is forgotten
    <<hex_to_str(Bytes(root)), hex_to_str(blockSize), hex_to_str(Bytes(fileSize))>>

\* What bplus_tree_deinit writes (offset_store), in this order.
BootWords ==
    <<hex_to_str(Bytes(root)), hex_to_str(blockSize), hex_to_str(Bytes(fileSize))>>
    \o [i \in DOMAIN freeBlocks |-> hex_to_str(Bytes(freeBlocks[i]))]

\* Writing words from the start of a file opened without O_TRUNC.
Overwrite(file, words) == words \o SubSeq(file, Len(words) + 1, Len(file))

\* The free list as loaded: each word passes through "int i", the loop ends at
\* the end of the file or at INVALID_OFFSET, and list_add reverses the order.
LoadedFree(size) ==
    LET ints == [i \in 1..(Len(boot) - 3) |-> ToInt(str_to_hex(boot[i + 3]))]
        stop == SelectInSeq(ints, LAMBDA n : n = ToInt(INVALID_OFFSET))
        n    == IF stop = 0 THEN Len(ints) ELSE stop - 1
    IN  Reverse([i \in 1..n |-> Block(ints[i], size)])

StoredBlockSizeIgnored(size) == size   \* faulty: the caller's size wins

\* The block size in the boot file, if there is one, wins over the argument.
StoredBlockSize(size) == IF boot = <<>> THEN size ELSE str_to_hex(boot[2])

LoadedRootNone(size) == INVALID_OFFSET   \* faulty: the root is not loaded

LoadedRoot(size) ==
    IF boot = <<>> THEN INVALID_OFFSET ELSE Block(str_to_hex(boot[1]), size)

bplus_tree_init(size) ==
    LET stored == StoredBlockSize(size)
    IN  /\ ~open
        /\ open' = TRUE
        /\ blockSize' = stored
        /\ root' = LoadedRoot(stored)
        /\ fileSize' = IF boot = <<>> THEN 0 ELSE Block(str_to_hex(boot[3]), stored)
        /\ freeBlocks' = IF boot = <<>> THEN <<>> ELSE LoadedFree(stored)
        /\ level' = 0
        /\ UNCHANGED <<disk, frame, ret, boot>>

\* The tree in memory goes; the index file stays.
bplus_tree_deinit ==
    /\ open /\ Idle
    /\ open' = FALSE
    /\ boot' = Overwrite(boot, BootWords)
    /\ root' = INVALID_OFFSET
    /\ level' = 0
    /\ fileSize' = 0
    /\ freeBlocks' = <<>>
    /\ ret' = 0
    /\ UNCHANGED <<disk, frame, blockSize>>

BootInit == Init /\ boot = <<>> /\ blockSize = 0 /\ open = FALSE

Use ==
    /\ open
    /\ \/ \E r \in Requests : bplus_tree_put(r[1], r[2])
       \/ Climb
    /\ UNCHANGED bootVars

BootNext ==
    \/ \E size \in BlockSizes : bplus_tree_init(size)
    \/ bplus_tree_deinit
    \/ Use

BootSpec == BootInit /\ [][BootNext]_allVars

-----------------------------------------------------------------------------
(* Properties.                                                             *)

\* While a tree is open every block of its file is in the tree or in the free
\* list, never both, also after its free list went through the boot file
\* ("store free blocks in files for future reuse", bplus_tree_deinit).
OpenBlocksPartition == open => BlocksPartition

\* A tree closed and reopened answers every get as before: the root comes back
\* through the hexadecimal words of the boot file (offset_store, offset_load).
OpenGetFindsStored == open => GetFindsStored

\* The block size of an index file is immutable: whatever bplus_tree_init is
\* called with later, the stored one is used (README.md of the B+ tree).
BlockSizeImmutable == [][boot # <<>> => blockSize' = blockSize]_allVars

=============================================================================
