----------------------------- MODULE FileBlocks -----------------------------
(***************************************************************************)
(* The blocks of regular files in Winx: file_write(), file_read() and      *)
(* sys_lseek() over i_sectors, the indirect table and the block bitmap,    *)
(* with file_create(), file_open(), file_close() and sys_unlink() as far   *)
(* as they touch an inode's size and blocks.                               *)
(*                                                                         *)
(* One process works, so each call is one action.  A file has an inode on  *)
(* the disk and, while it is open, one in memory, which a write changes    *)
(* step by step and puts on the disk only when it succeeds.  The byte a    *)
(* write puts at offset o of file f is <<f, o>>: a byte that ends up       *)
(* elsewhere, or is lost, is told from any other.                          *)
(***************************************************************************)
EXTENDS Integers, FiniteSets, FiniteSetsExt, SequencesExt

CONSTANTS
    File,
    Block,       \* the data blocks of the partition, positive numbers (LBAs)
    BLOCK_SIZE,  \* bytes in a block (512)
    NDirect,     \* direct blocks of an inode (12)
    NIndirect,   \* entries of the indirect table (128)
    WriteSizes,  \* bound: the sizes of a write, which do not wrap i_size, and
    ReadSizes,   \*        of a read, and
    Offsets,     \*        the positions asked of a seek
    MaxOpen,     \* bound: files open at one time
    Word,        \* what uint32_t counts modulo, a power of 2
    NULL

ASSUME FileBlocksAssumption ==
    /\ IsFiniteSet(Block) /\ Block \subseteq Nat \ {0}
    /\ BLOCK_SIZE \in Nat \ {0} /\ NDirect \in Nat \ {0} /\ NIndirect \in Nat \ {0}
    /\ WriteSizes \subseteq Nat /\ ReadSizes \subseteq Nat /\ Offsets \subseteq Nat
    /\ Word \in Nat /\ Word > 2 * BLOCK_SIZE * (NDirect + NIndirect)
    /\ \A n \in WriteSizes \cup ReadSizes : n + BLOCK_SIZE * (NDirect + NIndirect) < Word
    /\ NULL \notin Int \cup Seq((File \X Nat) \cup {NULL})

VARIABLES
    free,    \* the clear bits of the block bitmap
    disk,    \* what each block holds: bytes, or an indirect table
    dinode,  \* the inodes on the disk, NULL: no such file
    inode,   \* the inodes in memory, NULL: not open
    pos,     \* fd_pos, NULL: not open
    got,     \* the bytes that the last call returned
    torn,    \* a write has failed after it had allocated a block
    fault    \* the ASSERT that failed, "none" before that

vars == <<free, disk, dinode, inode, pos, got, torn, fault>>

Total == NDirect + NIndirect
Direct == 0..NDirect - 1
Indirect == NDirect..Total - 1
Table == Total   \* names i_sectors[12], the block of the indirect table

Offset == 0..BLOCK_SIZE - 1
Byte == File \X Nat

\* i_size, and i_sectors: direct blocks by index, the table's block at Table.
Inode == [size : Nat, sectors : [Direct \cup {Table} -> Block \cup {0}]]

ASSUME NullAssumption == NULL \notin Inode

Site == {"file.c:296", "file.c:317", "file.c:331", "file.c:350", "file.c:442", "file.c:475",
         "inode.c:212"}

TypeOK ==
    /\ free \subseteq Block
    /\ \A b \in Block :
         \/ DOMAIN disk[b] = Offset /\ \A o \in Offset : disk[b][o] \in Byte \cup {NULL}
         \/ disk[b] \in [Indirect -> Block \cup {0}]
    /\ dinode \in [File -> Inode \cup {NULL}]
    /\ inode \in [File -> Inode \cup {NULL}]
    /\ pos \in [File -> 0..Word - 1 \cup {NULL}]
    /\ got \in Seq(Byte \cup {NULL})
    /\ torn \in BOOLEAN
    /\ fault \in Site \cup {"none"}

Blank == [o \in Offset |-> NULL]

NoBlocks == [i \in Direct \cup {Table} |-> 0]

Init ==
    /\ free = Block
    /\ disk = [b \in Block |-> Blank]
    /\ dinode = [f \in File |-> NULL]
    /\ inode = [f \in File |-> NULL]
    /\ pos = [f \in File |-> NULL]
    /\ got = <<>> /\ torn = FALSE /\ fault = "none"

----------------------------------------------------------------------------
\* block_bitmap_alloc(), called n times: the first clear bits.
FirstFree(n) ==
    [j \in 1..n |-> CHOOSE b \in free : Cardinality({c \in free : c < b}) = j - 1]

\* The table of an inode, as it is read from the disk: zeroes at first.
TableOf(ino) ==
    LET b == ino.sectors[Table]
    IN  IF b # 0 /\ DOMAIN disk[b] = Indirect THEN disk[b] ELSE [i \in Indirect |-> 0]

\* The block of a file's i-th block of bytes.
BlockOf(ino, i) == IF i \in Direct THEN ino.sectors[i] ELSE TableOf(ino)[i]

\* A file has this many blocks once it has any.
Blocks(size) == size \div BLOCK_SIZE + 1

\* Mutant of Slots: no table when the last direct block is already in use.
Slots_TableLate(ino, n) ==
    LET used == Blocks(ino.size)
        will == Blocks(ino.size + n)
    IN  (IF ino.sectors[0] = 0 THEN <<0>> ELSE <<>>)
        \o (IF will > Total THEN <<>>
            ELSE (IF used < NDirect /\ NDirect < will THEN <<Table>> ELSE <<>>)
                 \o [i \in 1..will - used |-> used + i - 1])

\* The slots for which a write of n bytes allocates a block, in this order: the
\* first block of an empty file, the table when the file outgrows the direct
\* blocks, then one for each new index.
Slots(ino, n) ==
    LET used == Blocks(ino.size)
        will == Blocks(ino.size + n)
    IN  (IF ino.sectors[0] = 0 THEN <<0>> ELSE <<>>)
        \o (IF will > Total THEN <<>>
            ELSE (IF used <= NDirect /\ NDirect < will THEN <<Table>> ELSE <<>>)
                 \o [i \in 1..will - used |-> used + i - 1])

\* The ASSERT that stops the allocation for slot s, "none" if it holds.
AssertAt(ino, s) ==
    CASE s = Table /\ ino.sectors[Table] # 0 -> "file.c:317"
      [] s \in Direct /\ ino.sectors[s] # 0 /\ ino.sectors[Table] = 0 -> "file.c:296"
      [] s \in Direct /\ ino.sectors[s] # 0 /\ ino.sectors[Table] # 0 -> "file.c:331"
      [] s \in Indirect /\ Blocks(ino.size) > NDirect /\ ino.sectors[Table] = 0 -> "file.c:350"
      [] OTHER -> "none"

\* i_sectors after the blocks lba have been allocated for the slots.
Assigned(ino, slots, lba) ==
    [i \in DOMAIN ino.sectors |->
       IF \E j \in 1..Len(lba) : slots[j] = i
       THEN lba[CHOOSE j \in 1..Len(lba) : slots[j] = i] ELSE ino.sectors[i]]

\* Mutant of Written: the first block is not read before it is changed.
Written_NoReadFirst(f, ino, sectors, slots, lba, n) ==
    LET New(i) == \E j \in 1..Len(lba) : slots[j] = i
        At(i) == IF New(i) THEN lba[CHOOSE j \in 1..Len(lba) : slots[j] = i]
                 ELSE BlockOf(ino, i)
        first == ino.size \div BLOCK_SIZE
        last == (ino.size + n - 1) \div BLOCK_SIZE
        Bytes(i) == [o \in Offset |->
                       LET at == i * BLOCK_SIZE + o
                       IN  IF at \in ino.size..ino.size + n - 1 THEN <<f, at>> ELSE NULL]
        tabled == IF \E i \in Indirect : New(i)
                  THEN [disk EXCEPT ![sectors[Table]] =
                          [i \in Indirect |-> IF New(i) THEN At(i) ELSE TableOf(ino)[i]]]
                  ELSE disk
    IN  [b \in Block |->
           IF n > 0 /\ \E i \in first..last : At(i) = b
           THEN Bytes(CHOOSE i \in first..last : At(i) = b) ELSE tabled[b]]

\* The disk after n bytes have been written behind the end of f: the table, if it
\* has changed, and each block from the one that holds the end.  The first is
\* read before it is changed, the others are filled up with zeroes.
Written(f, ino, sectors, slots, lba, n) ==
    LET New(i) == \E j \in 1..Len(lba) : slots[j] = i
        At(i) == IF New(i) THEN lba[CHOOSE j \in 1..Len(lba) : slots[j] = i]
                 ELSE BlockOf(ino, i)
        first == ino.size \div BLOCK_SIZE
        last == (ino.size + n - 1) \div BLOCK_SIZE
        Bytes(i) == [o \in Offset |->
                       LET at == i * BLOCK_SIZE + o
                       IN  IF at \in ino.size..ino.size + n - 1 THEN <<f, at>>
                           ELSE IF at < ino.size THEN disk[At(i)][o] ELSE NULL]
        tabled == IF \E i \in Indirect : New(i)
                  THEN [disk EXCEPT ![sectors[Table]] =
                          [i \in Indirect |-> IF New(i) THEN At(i) ELSE TableOf(ino)[i]]]
                  ELSE disk
    IN  [b \in Block |->
           IF n > 0 /\ \E i \in first..last : At(i) = b
           THEN Bytes(CHOOSE i \in first..last : At(i) = b) ELSE tabled[b]]

----------------------------------------------------------------------------
Running(f) == fault = "none" /\ pos[f] # NULL

\* file_create() or file_open(): a new file has an empty inode on the disk.
file_open(f) ==
    /\ fault = "none" /\ pos[f] = NULL
    /\ Cardinality({g \in File : pos[g] # NULL}) < MaxOpen
    /\ LET ino == IF dinode[f] = NULL THEN [size |-> 0, sectors |-> NoBlocks] ELSE dinode[f]
       IN  /\ inode' = [inode EXCEPT ![f] = ino]
           /\ dinode' = [dinode EXCEPT ![f] = ino]
    /\ pos' = [pos EXCEPT ![f] = 0]
    /\ got' = <<>>
    /\ UNCHANGED <<free, disk, torn, fault>>

\* file_close() drops the inode in memory as it is.
file_close(f) ==
    /\ Running(f)
    /\ inode' = [inode EXCEPT ![f] = NULL]
    /\ pos' = [pos EXCEPT ![f] = NULL]
    /\ got' = <<>>
    /\ UNCHANGED <<free, disk, dinode, torn, fault>>

\* file_write(): nothing when the file would get too large; otherwise as many
\* blocks as there are free are allocated one by one, each with its ASSERT; when
\* they do not suffice the call returns at once and the inode in memory keeps
\* those it has got.
file_write(f, n) ==
    LET ino == inode[f]
        slots == Slots(ino, n)
        lba == FirstFree(IF Len(slots) < Cardinality(free) THEN Len(slots)
                         ELSE Cardinality(free))
        bad == {j \in 1..Len(lba) : AssertAt(ino, slots[j]) # "none"}
        sectors == Assigned(ino, slots, lba)
    IN  /\ Running(f)
        /\ ino.size + n <= BLOCK_SIZE * Total
        /\ got' = <<>>
        /\ \/ /\ bad # {}
              /\ fault' = AssertAt(ino, slots[Min(bad)])
              /\ UNCHANGED <<free, disk, dinode, inode, pos, torn>>
           \/ /\ bad = {}
              /\ Len(lba) < Len(slots) \/ Blocks(ino.size + n) > Total
              /\ free' = free \ Range(lba)
              /\ inode' = [inode EXCEPT ![f].sectors = sectors]
              /\ torn' = (torn \/ lba # <<>>)
              /\ UNCHANGED <<disk, dinode, pos, fault>>
           \/ /\ bad = {}
              /\ Len(lba) = Len(slots) /\ Blocks(ino.size + n) <= Total
              /\ free' = free \ Range(lba)
              /\ disk' = Written(f, ino, sectors, slots, lba, n)
              /\ inode' = [inode EXCEPT ![f] = [size |-> ino.size + n, sectors |-> sectors]]
              /\ dinode' = [dinode EXCEPT ![f] = inode'[f]]
              /\ pos' = [pos EXCEPT ![f] = (ino.size + n + Word - 1) % Word]
              /\ UNCHANGED <<torn, fault>>

\* The ASSERT that stops a read from block first to block last: the second one
\* is made on both paths that read the table for several blocks.
ReadAssert(ino, first, last) ==
    IF first >= Total - 1 \/ last >= Total - 1 THEN "file.c:442"
    ELSE IF first # last /\ last >= NDirect /\ ino.sectors[Table] = 0 THEN "file.c:475"
    ELSE "none"

\* file_read(): at most to the end, nothing at the end.
file_read(f, count) ==
    LET ino == inode[f]
        size == IF (pos[f] + count) % Word > ino.size
                THEN (ino.size + Word - pos[f]) % Word ELSE count
        first == pos[f] \div BLOCK_SIZE
        last == ((pos[f] + size) % Word) \div BLOCK_SIZE
        Read(at) == disk[BlockOf(ino, at \div BLOCK_SIZE)][at % BLOCK_SIZE]
    IN  /\ Running(f)
        /\ size # 0
        /\ fault' = ReadAssert(ino, first, last)
        /\ \/ /\ fault' = "none"
              /\ got' = [i \in 1..size |-> Read(pos[f] + i - 1)]
              /\ pos' = [pos EXCEPT ![f] = @ + size]
           \/ /\ fault' # "none"
              /\ UNCHANGED <<got, pos>>
        /\ UNCHANGED <<free, disk, dinode, inode, torn>>

\* sys_lseek(): to a position between the ends of the file.
sys_lseek(f, new_pos) ==
    /\ Running(f)
    /\ new_pos \in 0..inode[f].size
    /\ pos' = [pos EXCEPT ![f] = new_pos]
    /\ got' = <<>>
    /\ UNCHANGED <<free, disk, dinode, inode, torn, fault>>

\* Mutant of Released: the indirect table's own block is not freed.
Released_NoTable(ino) ==
    (Range(ino.sectors) \cup Range(TableOf(ino))) \ {0, ino.sectors[Table]}

\* The blocks that inode_release() frees.
Released(ino) == (Range(ino.sectors) \cup Range(TableOf(ino))) \ {0}

\* sys_unlink() of a file that nobody has open: inode_release() frees what the
\* inode on the disk names.  What is left in the blocks is not kept; a table that
\* was allocated but never written is read as whatever its block held before,
\* zeroes or something that makes bitmap_set() write anywhere.
sys_unlink(f) ==
    LET ino == dinode[f]
        table == ino.sectors[Table]
        blocks == Released(ino)
    IN  /\ fault = "none" /\ dinode[f] # NULL /\ pos[f] = NULL
        /\ got' = <<>>
        /\ \/ /\ free' = free \cup blocks
              /\ disk' = [b \in Block |-> IF b \in blocks THEN Blank ELSE disk[b]]
              /\ dinode' = [dinode EXCEPT ![f] = NULL]
              /\ UNCHANGED fault
           \/ /\ table # 0 /\ DOMAIN disk[table] = Offset
              /\ fault' = "inode.c:212"
              /\ UNCHANGED <<free, disk, dinode>>
        /\ UNCHANGED <<inode, pos, torn>>

Next == \E f \in File :
    \/ file_open(f) \/ file_close(f) \/ sys_unlink(f)
    \/ \E n \in WriteSizes : file_write(f, n)
    \/ \E n \in ReadSizes : file_read(f, n)
    \/ \E p \in Offsets : sys_lseek(f, p)

Spec == Init /\ [][Next]_vars

----------------------------------------------------------------------------
\* What each file holds, for its reader.
Content == [f \in File |->
    LET ino == IF inode[f] # NULL THEN inode[f] ELSE dinode[f]
    IN  IF ino = NULL THEN NULL
        ELSE [i \in 1..ino.size |->
                disk[BlockOf(ino, (i - 1) \div BLOCK_SIZE)][(i - 1) % BLOCK_SIZE]]]

\* Reads return what was written, through direct and indirect blocks, across
\* reopening, and whatever other files grow or are removed in between.
Pos == [f \in File |-> IF pos[f] = Word - 1 THEN -1 ELSE pos[f]]

F == INSTANCE ByteFile WITH content <- Content, pos <- Pos

ReadsBack == F!Spec

\* The blocks an inode names, its table included.
Named(ino) ==
    IF ino = NULL THEN {}
    ELSE (Range(ino.sectors) \cup Range(TableOf(ino))) \ {0}

Owned(f) == Named(inode[f]) \cup Named(dinode[f])

\* As long as no write has failed half-way, no block belongs to two files or to
\* one file twice, none that belongs to a file is free, and none is lost: every
\* block is free or belongs to a file.  (After such a failure, closing the file
\* loses the blocks for good.)
BlocksAccounted ==
    ~torn =>
      /\ \A f, g \in File : f # g => Owned(f) \cap Owned(g) = {}
      /\ free = Block \ UNION {Owned(f) : f \in File}
      /\ \A f \in File : \A ino \in {inode[f], dinode[f]} \ {NULL} :
           Cardinality(Named(ino)) =
             IF ino.sectors[0] = 0 THEN 0
             ELSE Blocks(ino.size) + (IF Blocks(ino.size) > NDirect THEN 1 ELSE 0)

\* The ASSERTs of file_write() hold: an index that gets a block has none yet, and
\* the table is there exactly when the file needs one (file.c:296-350, file.c:475).
AllocationAsserted ==
    fault \notin {"file.c:296", "file.c:317", "file.c:331", "file.c:350",
                 "file.c:475"}

\* file_read() asks for no block behind the last one it can read (file.c:442),
\* unless the file reaches into the last block it may have, or a write of nothing
\* has left fd_pos behind the end.
RangeAsserted ==
    fault = "file.c:442" =>
      \E f \in File : /\ inode[f] # NULL
                      /\ \/ inode[f].size >= (Total - 1) * BLOCK_SIZE
                         \/ pos[f] > inode[f].size

\* The ASSERTs hold as long as no write has failed half-way.
AssertedUnlessTorn ==
    ~torn => AllocationAsserted /\ RangeAsserted /\ fault # "inode.c:212"
=============================================================================
