------------------------------- MODULE EasyFs -------------------------------
(***************************************************************************)
(* easy-fs (easy-fs/src: bitmap, layout, efs, vfs) and the open files the  *)
(* kernel keeps on it (os/src/fs/inode.rs).                                *)
(*                                                                         *)
(* Sizes and offsets count cells, BLOCK_SZ of them to a block.  A cell is  *)
(* a byte of a file, an entry of a directory (DIRENT_SZ bytes) or an entry *)
(* of an indirect block (4 bytes); the code's blocks hold different        *)
(* numbers of each.  Every operation runs under the lock of the file       *)
(* system and none of them gives up the processor, so each is one step;    *)
(* that the block cache does not show is the subject of BlockCache.  That  *)
(* a file was opened for reading or writing is checked by sys_read and     *)
(* sys_write and left out here.                                            *)
(***************************************************************************)
EXTENDS Integers, Sequences, SequencesExt, FiniteSets, FiniteSetsExt, Functions

CONSTANTS
  total_blocks, inode_bitmap_blocks,   \* arguments of EasyFileSystem::create
  BLOCK_BITS,                          \* bits to a block
  inodes_per_block,
  BLOCK_SZ,
  INODE_DIRECT_COUNT,
  Names,
  Handles,       \* bound: the open files there may be
  Buffers,       \* the user buffers: sequences of lengths of slices
  Modes,         \* the flags open_file is called with
  MaxSize,       \* bound: no file is written past it
  Zero,          \* a cell of a block that was cleared
  Closed         \* a handle that stands for no file

INODE_INDIRECT1_COUNT == BLOCK_SZ
INDIRECT1_BOUND == INODE_DIRECT_COUNT + INODE_INDIRECT1_COUNT
INDIRECT2_BOUND == INDIRECT1_BOUND + INODE_INDIRECT1_COUNT * INODE_INDIRECT1_COUNT

Cells == 0 .. BLOCK_SZ - 1
Ceil(a, b) == (a + b - 1) \div b

-----------------------------------------------------------------------------
(***************************************************************************)
(* The areas of the device, as EasyFileSystem::create lays them out: the   *)
(* super block, the inode bitmap, the inodes, the data bitmap, the data.   *)
(***************************************************************************)
inode_num == inode_bitmap_blocks * BLOCK_BITS
inode_area_blocks == Ceil(inode_num, inodes_per_block)
data_total_blocks == total_blocks - 1 - (inode_bitmap_blocks + inode_area_blocks)
data_bitmap_blocks == (data_total_blocks + BLOCK_BITS) \div (BLOCK_BITS + 1)
data_area_start_block == 1 + inode_bitmap_blocks + inode_area_blocks + data_bitmap_blocks

(* The bitmap is a whole number of blocks: it may name more blocks than    *)
(* the device has, and access to one of those fails in the driver.         *)
DataBits == 0 .. data_bitmap_blocks * BLOCK_BITS - 1
Addressable == {data_area_start_block + bit : bit \in DataBits}
Device == 0 .. total_blocks - 1

ASSUME EfsAssumption ==
  /\ BLOCK_SZ \in Nat \ {0} /\ BLOCK_BITS \in Nat \ {0} /\ inodes_per_block \in Nat \ {0}
  /\ inode_bitmap_blocks \in Nat \ {0}
  /\ total_blocks \in Nat /\ data_total_blocks > 0
  /\ INODE_DIRECT_COUNT \in Nat
  /\ MaxSize \in Nat /\ MaxSize <= INDIRECT2_BOUND * BLOCK_SZ
  /\ Cardinality(Names) < inode_num

VARIABLES
  efs,      \* the file system: data_bitmap, inodes and blocks
  handles,  \* per handle: Closed, or an inode and an offset (OSInode)
  panic     \* "none", or why the kernel stopped: "full" or "assert"

vars == <<efs, handles, panic>>

Free(s) == DataBits \ s.data_bitmap

(* DiskInode::initialize.                                                  *)
EmptyInode ==
  [size |-> 0, direct |-> [k \in 0 .. INODE_DIRECT_COUNT - 1 |-> Zero],
   indirect1 |-> Zero, indirect2 |-> Zero]

ClearBlock == [c \in Cells |-> Zero]

ROOT == 0

(* EasyFileSystem::create clears every block and makes the root directory. *)
Init ==
  /\ efs = [data_bitmap |-> {},
            inodes |-> [i \in {ROOT} |-> EmptyInode],
            blocks |-> [b \in Addressable |-> ClearBlock]]
  /\ handles = [h \in Handles |-> Closed]
  /\ panic = "none"

-----------------------------------------------------------------------------
(***************************************************************************)
(* The tree of blocks of an inode.                                         *)
(***************************************************************************)
data_blocks(size) == Ceil(size, BLOCK_SZ)

(* DiskInode::total_blocks: the blocks of the contents and of the tree.    *)
TotalBlocks(size) ==
  LET n == data_blocks(size)
  IN  n + (IF n > INODE_DIRECT_COUNT THEN 1 ELSE 0)
        + (IF n > INDIRECT1_BOUND
           THEN 1 + Ceil(n - INDIRECT1_BOUND, INODE_INDIRECT1_COUNT)
           ELSE 0)

(* The place of inner block k below indirect2.                             *)
Sub(k) == (k - INDIRECT1_BOUND) \div INODE_INDIRECT1_COUNT
SubCell(k) == (k - INDIRECT1_BOUND) % INODE_INDIRECT1_COUNT

get_block_id(inode, blocks, k) ==
  IF k < INODE_DIRECT_COUNT THEN inode.direct[k]
  ELSE IF k < INDIRECT1_BOUND THEN blocks[inode.indirect1][k - INODE_DIRECT_COUNT]
  ELSE blocks[blocks[inode.indirect2][Sub(k)]][SubCell(k)]

(* The indirect blocks that inner block k is the first to hang from.       *)
IndexBlocks(inode, blocks, k) ==
  IF k = INODE_DIRECT_COUNT THEN <<inode.indirect1>>
  ELSE IF k = INDIRECT1_BOUND THEN <<inode.indirect2, blocks[inode.indirect2][0]>>
  ELSE IF k > INDIRECT1_BOUND /\ SubCell(k) = 0 THEN <<blocks[inode.indirect2][Sub(k)]>>
  ELSE << >>

(* The tree of an inode with n blocks of contents, in the order in which   *)
(* clear_size collects it and increase_size uses up new blocks.            *)
TreeOf(inode, blocks, n) ==
  FlattenSeq([j \in 1 .. n |->
    IndexBlocks(inode, blocks, j - 1) \o <<get_block_id(inode, blocks, j - 1)>>])

(* One turn of the loops of increase_size: inner block k, with the         *)
(* indirect blocks it is the first to need, from the list of new blocks.   *)
Took(acc) == [acc EXCEPT !.new = Tail(@)]

AddBlock(acc, k) ==
  IF k < INODE_DIRECT_COUNT
  THEN Took([acc EXCEPT !.inode.direct[k] = Head(acc.new)])
  ELSE IF k < INDIRECT1_BOUND
  THEN LET a == IF k = INODE_DIRECT_COUNT
                THEN Took([acc EXCEPT !.inode.indirect1 = Head(acc.new)]) ELSE acc
       IN  Took([a EXCEPT !.blocks[a.inode.indirect1][k - INODE_DIRECT_COUNT] = Head(a.new)])
  ELSE LET a == IF k = INDIRECT1_BOUND
                THEN Took([acc EXCEPT !.inode.indirect2 = Head(acc.new)]) ELSE acc
           b == IF SubCell(k) = 0
                THEN Took([a EXCEPT !.blocks[a.inode.indirect2][Sub(k)] = Head(a.new)]) ELSE a
       IN  Took([b EXCEPT !.blocks[b.blocks[b.inode.indirect2][Sub(k)]][SubCell(k)] =
                            Head(b.new)])

(* Inner blocks first .. last, as a sequence.                              *)
Inner(first, last) == [j \in 1 .. last - first + 1 |-> first + j - 1]

(* Bitmap::alloc, n times: the lowest clear bits.                          *)
Lowest(s, n) == {bit \in Free(s) : Cardinality({f \in Free(s) : f < bit}) < n}
NewBlocks(bits) ==
  [j \in 1 .. Cardinality(bits) |->
     data_area_start_block
       + CHOOSE bit \in bits : Cardinality({f \in bits : f < bit}) = j - 1]

Needed(inode, new_size) ==
  IF new_size < inode.size THEN 0 ELSE TotalBlocks(new_size) - TotalBlocks(inode.size)

(* Inode::increase_size, given that there are enough clear bits.           *)
increase_size(s, i, new_size) ==
  LET inode == s.inodes[i]
      bits == Lowest(s, Needed(inode, new_size))
      grown == FoldLeft(AddBlock,
                        [inode |-> inode, blocks |-> s.blocks, new |-> NewBlocks(bits)],
                        Inner(data_blocks(inode.size), data_blocks(new_size) - 1))
  IN  IF new_size < inode.size THEN s
      ELSE [data_bitmap |-> s.data_bitmap \union bits,
            inodes |-> [s.inodes EXCEPT ![i] = [grown.inode EXCEPT !.size = new_size]],
            blocks |-> grown.blocks]

-----------------------------------------------------------------------------
(***************************************************************************)
(* Contents: read_at and write_at go from block to block.                  *)
(***************************************************************************)
BlocksOf(start, end) ==
  IF start < end THEN start \div BLOCK_SZ .. (end - 1) \div BLOCK_SZ ELSE {}

read_at(s, i, offset, len) ==
  LET inode == s.inodes[i]
      n == Min({offset + len, inode.size}) - offset
      Cell(o) == s.blocks[get_block_id(inode, s.blocks, o \div BLOCK_SZ)][o % BLOCK_SZ]
  IN  [j \in 1 .. Max({n, 0}) |-> Cell(offset + j - 1)]

(* The cells offset .. offset + len - 1 are set to v; the file is large    *)
(* enough (the assertion start <= end).                                    *)
write_at(s, i, offset, len, v) ==
  LET Written(blocks, k) ==
        [blocks EXCEPT ![get_block_id(s.inodes[i], s.blocks, k)] =
           [c \in Cells |-> IF k * BLOCK_SZ + c \in offset .. offset + len - 1
                            THEN v ELSE @[c]]]
  IN  [s EXCEPT !.blocks = FoldLeft(Written, @,
         Inner(offset \div BLOCK_SZ, (offset + len - 1) \div BLOCK_SZ))]

(* The blocks Inode::write_at works on: those of the tree that grew, the   *)
(* ones on the way, and the ones written to.                               *)
Indirect(inode, blocks) ==
  LET n == data_blocks(inode.size)
  IN  UNION {ToSet(IndexBlocks(inode, blocks, k)) : k \in 0 .. n - 1}

Touched(s, i, offset, len) ==
  LET inode == s.inodes[i]
  IN  Indirect(inode, s.blocks)
        \union {get_block_id(inode, s.blocks, k) : k \in BlocksOf(offset, offset + len)}

(* Inode::write_at: grow, then write.                                      *)
Fits(s, i, offset, len) ==
  /\ Needed(s.inodes[i], offset + len) <= Cardinality(Free(s))
  /\ Touched(increase_size(s, i, offset + len), i, offset, len) \subseteq Device

Write_at(s, i, offset, len, v) ==
  write_at(increase_size(s, i, offset + len), i, offset, len, v)

-----------------------------------------------------------------------------
(***************************************************************************)
(* Inode::clear: the tree is collected, its blocks cleared and given back. *)
(***************************************************************************)
Tree(s, i) == TreeOf(s.inodes[i], s.blocks, data_blocks(s.inodes[i].size))
BitsOf(bs) == {b - data_area_start_block : b \in bs}

(* What clear and dealloc_data assert.                                     *)
ClearAsserts(s, i) ==
  /\ Len(Tree(s, i)) = TotalBlocks(s.inodes[i].size)
  /\ IsInjective(Tree(s, i))
  /\ BitsOf(ToSet(Tree(s, i))) \subseteq s.data_bitmap

(* Faulty variant: the blocks are given back as they are.                  *)
clear_keep_contents(s, i) ==
  LET freed == ToSet(Tree(s, i))
  IN  [data_bitmap |-> s.data_bitmap \ BitsOf(freed),
       inodes |-> [s.inodes EXCEPT ![i] = EmptyInode],
       blocks |-> s.blocks]

(* Faulty variant: the indirect blocks are not given back.                 *)
clear_leak_index(s, i) ==
  LET freed == ToSet(Tree(s, i)) \ Indirect(s.inodes[i], s.blocks)
  IN  [data_bitmap |-> s.data_bitmap \ BitsOf(freed),
       inodes |-> [s.inodes EXCEPT ![i] = EmptyInode],
       blocks |-> [b \in Addressable |-> IF b \in freed THEN ClearBlock ELSE s.blocks[b]]]


clear(s, i) ==
  LET freed == ToSet(Tree(s, i))
  IN  [data_bitmap |-> s.data_bitmap \ BitsOf(freed),
       inodes |-> [s.inodes EXCEPT ![i] = EmptyInode],
       blocks |-> [b \in Addressable |-> IF b \in freed THEN ClearBlock ELSE s.blocks[b]]]

-----------------------------------------------------------------------------
(***************************************************************************)
(* The root directory: one cell per entry, a name and an inode number.     *)
(***************************************************************************)
DirEntries(s) == read_at(s, ROOT, 0, s.inodes[ROOT].size)

(* find_inode_id: the first entry with the name, if there is one.          *)
Entries(s, name) == SelectSeq(DirEntries(s), LAMBDA e : e[1] = name)
Found(s, name) == Entries(s, name) # << >>
find(s, name) == Head(Entries(s, name))[2]

alloc_inode(s) == Min((0 .. inode_num - 1) \ DOMAIN s.inodes)

(* Inode::create: an empty inode, and an entry at the end of the root.     *)
create(s, name) ==
  LET i == alloc_inode(s)
      made == [s EXCEPT !.inodes = [j \in DOMAIN @ \union {i} |->
                                      IF j = i THEN EmptyInode ELSE @[j]]]
  IN  Write_at(made, ROOT, s.inodes[ROOT].size, 1, <<name, i>>)

-----------------------------------------------------------------------------
(***************************************************************************)
(* Open files.  An operation whose assertion fails, or that runs out of    *)
(* blocks, stops the kernel.                                               *)
(***************************************************************************)
Stop(why) ==
  /\ panic' = why
  /\ UNCHANGED <<efs, handles>>

OpenedAt(h, i) == [handles EXCEPT ![h] = [inode |-> i, offset |-> 0]]

OpenCleared(h, i) ==
  /\ efs' = clear(efs, i)
  /\ handles' = OpenedAt(h, i)
  /\ panic' = IF ClearAsserts(efs, i) THEN "none" ELSE "assert"

OpenCreated(h, name) ==
  IF Fits(efs, ROOT, efs.inodes[ROOT].size, 1)
  THEN /\ efs' = create(efs, name)
       /\ handles' = OpenedAt(h, alloc_inode(efs))
       /\ UNCHANGED panic
  ELSE Stop("full")

(* open_file: CREATE empties a file that is there, TRUNC too; a name that  *)
(* is not there, without CREATE, is no file.                               *)
open_file(h, name, flags) ==
  /\ panic = "none"
  /\ handles[h] = Closed
  /\ \/ /\ Found(efs, name)
        /\ flags \intersect {"CREATE", "TRUNC"} # {}
        /\ OpenCleared(h, find(efs, name))
     \/ /\ Found(efs, name)
        /\ flags \intersect {"CREATE", "TRUNC"} = {}
        /\ handles' = OpenedAt(h, find(efs, name))
        /\ UNCHANGED <<efs, panic>>
     \/ /\ ~ Found(efs, name)
        /\ "CREATE" \in flags
        /\ OpenCreated(h, name)

(* OSInode::read, slice by slice, until nothing more comes.                *)
ReadTo(i, offset, buffer) ==
  FoldLeft(LAMBDA off, len : off + Len(read_at(efs, i, off, len)), offset, buffer)

read(h, buffer) ==
  /\ panic = "none"
  /\ handles[h] # Closed
  /\ handles' = [handles EXCEPT ![h].offset = ReadTo(handles[h].inode, @, buffer)]
  /\ UNCHANGED <<efs, panic>>

(* OSInode::write: each slice is written where the one before ended.       *)
WriteSlices(s, h, buffer) ==
  FoldLeft(LAMBDA acc, len :
             IF ~acc.ok \/ ~ Fits(acc.s, handles[h].inode, acc.offset, len)
             THEN [acc EXCEPT !.ok = FALSE]
             ELSE [ok |-> TRUE, offset |-> acc.offset + len,
                   s |-> Write_at(acc.s, handles[h].inode, acc.offset, len, h)],
           [ok |-> TRUE, offset |-> handles[h].offset, s |-> s], buffer)

write(h, buffer) ==
  /\ panic = "none"
  /\ handles[h] # Closed
  /\ handles[h].offset + SumFunction(buffer) <= MaxSize
  /\ LET done == WriteSlices(efs, h, buffer)
     IN  IF done.ok
         THEN /\ efs' = done.s
              /\ handles' = [handles EXCEPT ![h].offset = done.offset]
              /\ UNCHANGED panic
         ELSE Stop("full")

close(h) ==
  /\ panic = "none"
  /\ handles[h] # Closed
  /\ handles' = [handles EXCEPT ![h] = Closed]
  /\ UNCHANGED <<efs, panic>>

Next ==
  \/ \E h \in Handles, name \in Names, flags \in Modes : open_file(h, name, flags)
  \/ \E h \in Handles, buffer \in Buffers : read(h, buffer) \/ write(h, buffer)
  \/ \E h \in Handles : close(h)

Spec == Init /\ [][Next]_vars

-----------------------------------------------------------------------------
(***************************************************************************)
(* The bitmap is exact: a block is marked if and only if it is in the tree *)
(* of one file, at one place, however files grow through the levels of the *)
(* tree, are emptied while other handles are open on them, and grow again. *)
(* No file holds a block that only the bitmap has and not the device, not  *)
(* even in a gap that was never written to.  A block that is not marked is *)
(* clear, which the next file to get it relies on.                         *)
(***************************************************************************)
BlocksExact ==
  LET used == FlattenSeq([j \in 1 .. Cardinality(DOMAIN efs.inodes) |-> Tree(efs, j - 1)])
  IN  /\ IsInjective(used)
      /\ BitsOf(ToSet(used)) = efs.data_bitmap
      /\ ToSet(used) \subseteq Device
      /\ \A bit \in Free(efs) : efs.blocks[data_area_start_block + bit] = ClearBlock


(***************************************************************************)
(* Files behave as sequences of cells, whatever blocks they are spread     *)
(* over: what a process reads is what was written, with zeros in the gap  *)
(* that a handle leaves that writes behind the end of a file another one   *)
(* has emptied.                                                            *)
(***************************************************************************)
FileIds == DOMAIN efs.inodes \ {ROOT}
NamesNow == [name \in {e[1] : e \in ToSet(DirEntries(efs))} |-> find(efs, name)]
FilesNow == [i \in FileIds |-> read_at(efs, i, 0, efs.inodes[i].size)]

Store == INSTANCE Files WITH Ids <- 1 .. inode_num - 1, names <- NamesNow,
                             files <- FilesNow, opened <- handles
ImplementsFiles == Store!Spec

=============================================================================
