------------------------------ MODULE DiskImage ------------------------------
(***************************************************************************)
(* What is on the disk while Winx changes its file system, and what a      *)
(* crash leaves: file_create(), sys_mkdir(), sys_unlink(), sys_rmdir() and *)
(* file_write() as the sequences of sector writes they are, with a crash   *)
(* and a new mount between any two of them.  There is no log and no check  *)
(* of the disk at boot: mount_partition() takes what it finds.             *)
(*                                                                         *)
(* One call at a time changes the file system (Serialized in Locks), so    *)
(* what it does to the bitmaps in memory is computed when it starts, and   *)
(* "pending" holds the writes it has still to make, each with the line     *)
(* that makes it.  Each is one ide_write(); an inode that lies across two  *)
(* sectors is one write as well.  bitmap_sync() writes only the sector of  *)
(* the bitmap that the bit it is given lies in.                            *)
(*                                                                         *)
(* A block holds one byte of a file, so a file of size s has s + 1 blocks, *)
(* as file_write() counts them.  Calls that run out of blocks, of inodes   *)
(* or of room in a directory are the subject of FileBlocks, Directory and  *)
(* Namespace; a directory has no indirect blocks here.                     *)
(***************************************************************************)
EXTENDS Integers, FiniteSets, Sequences, SequencesExt

CONSTANTS
    Name,
    Byte,           \* what a block of a file can hold
    MAX_FILES,      \* MAX_FILES_PER_PART: inodes 0..MAX_FILES - 1, 0 is the root
    UINT8,          \* 2^8: inode_sync() keeps the inode number in a uint8_t
    BITS,           \* bits of the block bitmap in a sector, 4096
    BLOCKS,         \* data blocks 0..BLOCKS - 1, 0 is the root's first
    DIRECT,         \* direct blocks of an inode
    INDIRECT,       \* entries of its table
    ENTRIES,        \* directory entries per block
    MAX_CRASHES     \* bound

ASSUME DiskImageAssumption ==
    /\ {MAX_FILES, UINT8, BITS, BLOCKS, DIRECT, INDIRECT, ENTRIES} \subseteq Nat \ {0}
    /\ MAX_CRASHES \in Nat /\ ENTRIES > 2

Ino == 0..MAX_FILES - 1
Block == 0..BLOCKS - 1
NoBlock == -1

VARIABLES
    disk,     \* bitmaps, inode table and data blocks as they are on the disk
    mem,      \* the bitmaps in memory
    pending,  \* the writes the call in progress has still to make
    call,     \* the directory and the name it is about, and the files after it
    crashes,  \* how often the machine was restarted
    torn,     \* it was restarted, or a write went wrong, where nothing holds after
    kept      \* history: the files, with their bytes, before the call

vars == <<disk, mem, pending, call, crashes, torn, kept>>

Entry == [name : Name, ino : Ino, type : {"file", "dir"}]

Content ==
    [is : {"dir"}, dots : BOOLEAN, entries : SUBSET Entry]
      \cup [is : {"table"}, at : Seq(Block)]
      \cup [is : {"data"}, byte : Byte] \cup [is : {"junk"}]

Junk == [is |-> "junk"]

\* i_sectors, the table in the last one; i_size in entries or in bytes.
InodeState == [i_no : Ino, i_size : Nat, i_sectors : [0..DIRECT -> Block \cup {NoBlock}]]

NoSectors == [j \in 0..DIRECT |-> NoBlock]

Zeroed == [i_no |-> 0, i_size |-> 0, i_sectors |-> NoSectors]

TypeOK ==
    /\ disk \in [ibits : SUBSET Ino, bbits : SUBSET Block,
                 inode : [Ino -> InodeState], block : [Block -> Content]]
    /\ mem \in [ibits : SUBSET Ino, bbits : SUBSET Block]
    /\ DOMAIN call = {"dir", "name", "then"} /\ torn \in BOOLEAN
    /\ call.dir \in Ino /\ call.name \in Name
    /\ crashes \in 0..MAX_CRASHES

\* partition_format(): the root directory with its two entries.
Init ==
    /\ disk = [ibits |-> {0}, bbits |-> {0},
               inode |-> [i \in Ino |->
                  IF i = 0 THEN [i_no |-> 0, i_size |-> 2, i_sectors |-> [NoSectors EXCEPT ![0] = 0]]
                  ELSE Zeroed],
               block |-> [b \in Block |->
                  IF b = 0 THEN [is |-> "dir", dots |-> TRUE, entries |-> {}] ELSE Junk]]
    /\ mem = [ibits |-> {0}, bbits |-> {0}]
    /\ pending = <<>>
    /\ \E n \in Name : call = [dir |-> 0, name |-> n, then |-> {}]
    /\ crashes = 0 /\ torn = FALSE /\ kept = {}

----------------------------------------------------------------------------
\* What a mounted disk d shows.
Least(S) == CHOOSE i \in S : \A j \in S : i <= j

Sectors(d, i) == {d.inode[i].i_sectors[j] : j \in 0..DIRECT - 1} \ {NoBlock}

Entries(d, i) ==
    UNION {d.block[b].entries : b \in {c \in Sectors(d, i) : d.block[c].is = "dir"}}

TableOf(d, i) ==
    LET t == d.inode[i].i_sectors[DIRECT]
    IN  IF t # NoBlock /\ d.block[t].is = "table" THEN d.block[t].at ELSE <<>>

\* The block that holds byte k of file i.
BlockOf(d, i, k) ==
    IF k < DIRECT THEN d.inode[i].i_sectors[k]
    ELSE IF k - DIRECT < Len(TableOf(d, i)) THEN TableOf(d, i)[k - DIRECT + 1] ELSE NoBlock

Bytes(d, i) ==
    [k \in 1..d.inode[i].i_size |->
       LET b == BlockOf(d, i, k - 1) IN IF b = NoBlock THEN Junk ELSE d.block[b]]

\* The directories that can be reached without the entry x, the entries in them,
\* and the files with their bytes.
IsNot(i, e, x) == i # x.dir \/ e.name # x.name

Dirs(d, x) == {0} \cup {e.ino : e \in {r \in Entries(d, 0) : r.type = "dir" /\ IsNot(0, r, x)}}

Named(d, x) == UNION {{e \in Entries(d, i) : IsNot(i, e, x)} : i \in Dirs(d, x)}

Files(d, x) ==
    UNION {{[dir |-> i, name |-> e.name, bytes |-> Bytes(d, e.ino)] :
              e \in {r \in Entries(d, i) : r.type = "file" /\ IsNot(i, r, x)}} :
            i \in Dirs(d, x)}

None == [dir |-> -1]

----------------------------------------------------------------------------
\* A call under construction: the bitmaps in memory, and what it writes.
Begin == [ibits |-> mem.ibits, bbits |-> mem.bbits, out |-> <<>>]

Put(m, at, kind, i, v) ==
    [m EXCEPT !.out = Append(@, [at |-> at, kind |-> kind, i |-> i, v |-> v])]

\* bitmap_sync() for block b and for an inode, and inode_sync(), which takes
\* the number modulo 2^8.
SyncBlock(m, at, b) == Put(m, at, "bbits", b \div BITS, m.bbits)
SyncInodes(m, at) == Put(m, at, "ibits", 0, m.ibits)
SyncInode(m, at, i, inode) == Put(m, at, "inode", i % UINT8, inode)

\* block_bitmap_alloc(), inode_bitmap_alloc(): the first free bit.
FreeBlock(m) == Least(Block \ m.bbits)
FreeInode(m) == Least(Ino \ m.ibits)

Room(c) == ENTRIES - (IF c.dots THEN 2 ELSE 0) - Cardinality(c.entries)

\* sync_dir_entry() in directory p: the first block that has room, or the first
\* sector that has no block.
Usable(p) ==
    {j \in 0..DIRECT - 1 : LET b == disk.inode[p].i_sectors[j]
                           IN  b = NoBlock \/ Room(disk.block[b]) > 0}

sync_dir_entry(m, p, e) ==
    LET j == Least(Usable(p))
        b == disk.inode[p].i_sectors[j]
        new == FreeBlock(m)
    IN  IF b = NoBlock
        THEN [m |-> Put(SyncBlock([m EXCEPT !.bbits = @ \cup {new}], "dir.c:125", new),
                        "dir.c:169", "block", new,
                        [is |-> "dir", dots |-> FALSE, entries |-> {e}]),
              inode |-> [disk.inode[p] EXCEPT !.i_sectors[j] = new, !.i_size = @ + 1]]
        ELSE [m |-> Put(m, "dir.c:180", "block", b, [disk.block[b] EXCEPT !.entries = @ \cup {e}]),
              inode |-> [disk.inode[p] EXCEPT !.i_size = @ + 1]]

\* delete_dir_entry() of e in directory p: the block goes with its last entry,
\* unless it is the one with "." and "..".
delete_dir_entry(m, p, e) ==
    LET b == CHOOSE c \in Sectors(disk, p) : e \in disk.block[c].entries
        c == disk.block[b]
        less == [disk.inode[p] EXCEPT !.i_size = @ - 1]
        freed == SyncBlock([m EXCEPT !.bbits = @ \ {b}], "dir.c:254", b)
        cut == [j \in 0..DIRECT |-> IF less.i_sectors[j] = b THEN NoBlock ELSE less.i_sectors[j]]
    IN  IF c.entries = {e} /\ ~c.dots
        THEN SyncInode(freed, "dir.c:286", p, [less EXCEPT !.i_sectors = cut])
        ELSE SyncInode(Put(m, "dir.c:281", "block", b, [c EXCEPT !.entries = @ \ {e}]),
                       "dir.c:286", p, less)

\* inode_release(): the table's bit and each block's, one write per bit, the
\* inode's bit, and the inode is zeroed (inode_delete).
ReleaseBlock(m, b) ==
    IF b = NoBlock THEN m ELSE SyncBlock([m EXCEPT !.bbits = @ \ {b}], "inode.c:213", b)

\* Mutant: inode_release() does not write the bit of the table's block.
inode_release_TableKept(m, i) ==
    LET direct == [j \in 1..DIRECT |-> disk.inode[i].i_sectors[j - 1]]
        r == FoldLeft(ReleaseBlock, m, TableOf(disk, i) \o direct)
    IN  Put(SyncInodes([r EXCEPT !.ibits = @ \ {i}], "inode.c:218"),
            "inode.c:181", "inode", i, Zeroed)

inode_release(m, i) ==
    LET direct == [j \in 1..DIRECT |-> disk.inode[i].i_sectors[j - 1]]
        r == FoldLeft(ReleaseBlock, ReleaseBlock(m, disk.inode[i].i_sectors[DIRECT]),
                      direct \o TableOf(disk, i))
    IN  Put(SyncInodes([r EXCEPT !.ibits = @ \ {i}], "inode.c:218"),
            "inode.c:181", "inode", i, Zeroed)

\* The call about name n of directory p begins with the writes of m; it leaves
\* the files "then".
Starts(m, p, n, then) ==
    /\ pending' = m.out
    /\ mem' = [ibits |-> m.ibits, bbits |-> m.bbits]
    /\ call' = [dir |-> p, name |-> n, then |-> then]
    /\ UNCHANGED <<disk, crashes, torn, kept>>

AtRest == pending = <<>> /\ ~torn

CanAdd(p, n, blocks) ==
    /\ AtRest /\ p \in Dirs(disk, None)
    /\ \A e \in Entries(disk, p) : e.name # n
    /\ Usable(p) # {} /\ Ino \ mem.ibits # {}
    /\ Cardinality(Block \ mem.bbits) >= blocks

\* file_create(): the entry, the directory's inode, the new inode, its bit.
Create(p, n) ==
    LET i == FreeInode(Begin)
        s == sync_dir_entry([Begin EXCEPT !.ibits = @ \cup {i}], p,
                            [name |-> n, ino |-> i, type |-> "file"])
        new == [i_no |-> i, i_size |-> 0, i_sectors |-> NoSectors]
    IN  /\ CanAdd(p, n, 1)
        /\ Starts(SyncInodes(SyncInode(SyncInode(s.m, "file.c:140", p, s.inode),
                                       "file.c:142", i, new), "file.c:144"),
                  p, n, kept \cup {[dir |-> p, name |-> n, bytes |-> <<>>]})

\* sys_mkdir(): the new directory's block first, then as file_create().  Bound:
\* directories are made in the root only.
sys_mkdir(n) ==
    LET i == FreeInode(Begin)
        b == FreeBlock(Begin)
        m == Put(SyncBlock([Begin EXCEPT !.ibits = @ \cup {i}, !.bbits = @ \cup {b}], "fs.c:575", b),
                 "fs.c:589", "block", b, [is |-> "dir", dots |-> TRUE, entries |-> {}])
        s == sync_dir_entry(m, 0, [name |-> n, ino |-> i, type |-> "dir"])
        new == [i_no |-> i, i_size |-> 2, i_sectors |-> [NoSectors EXCEPT ![0] = b]]
    IN  /\ CanAdd(0, n, 2)
        /\ Starts(SyncInodes(SyncInode(SyncInode(s.m, "fs.c:606", 0, s.inode),
                                       "fs.c:608", i, new), "fs.c:610"), 0, n, kept)

\* Mutant: sys_unlink() releases the inode before it deletes the entry.
Unlink_ReleaseFirst(p, e) ==
    /\ AtRest /\ p \in Dirs(disk, None) /\ e \in Entries(disk, p)
    /\ e.type = "dir" => disk.inode[e.ino].i_size = 2
    /\ Starts(delete_dir_entry(inode_release(Begin, e.ino), p, e), p, e.name,
              {x \in kept : IsNot(x.dir, x, [dir |-> p, name |-> e.name])})

\* sys_unlink(), and sys_rmdir() of a directory whose size says it is empty.
Unlink(p, e) ==
    /\ AtRest /\ p \in Dirs(disk, None) /\ e \in Entries(disk, p)
    /\ e.type = "dir" => disk.inode[e.ino].i_size = 2
    /\ Starts(inode_release(delete_dir_entry(Begin, p, e), e.ino), p, e.name,
              {x \in kept : IsNot(x.dir, x, [dir |-> p, name |-> e.name])})

\* file_write() of one byte at the end of file e: the first write gets the file
\* its first block, each the block after; the table when the direct blocks are
\* used up, whose bit is written along with that of the block.
FirstBlock(m, inode) ==
    LET b == FreeBlock(m)
    IN  IF inode.i_sectors[0] # NoBlock THEN [m |-> m, inode |-> inode]
        ELSE [m |-> SyncBlock([m EXCEPT !.bbits = @ \cup {b}], "file.c:256", b),
              inode |-> [inode EXCEPT !.i_sectors[0] = b]]

NextDirect(m, inode, k) ==
    LET b == FreeBlock(m)
    IN  [m |-> SyncBlock([m EXCEPT !.bbits = @ \cup {b}], "file.c:301", b),
         inode |-> [inode EXCEPT !.i_sectors[k] = b]]

FirstIndirect(m, inode) ==
    LET t == FreeBlock(m)
        b == FreeBlock([m EXCEPT !.bbits = @ \cup {t}])
    IN  [m |-> Put(SyncBlock([m EXCEPT !.bbits = @ \cup {t, b}], "file.c:341", b),
                   "file.c:346", "block", t, [is |-> "table", at |-> <<b>>]),
         inode |-> [inode EXCEPT !.i_sectors[DIRECT] = t]]

\* Mutant: file_write() does not read the table it adds to.
NextIndirect_NotRead(m, inode, table, k) ==
    LET b == FreeBlock(m)
    IN  [m |-> Put(SyncBlock([m EXCEPT !.bbits = @ \cup {b}], "file.c:367", b),
                   "file.c:370", "block", inode.i_sectors[DIRECT],
                   [is |-> "table", at |-> <<b>>]),
         inode |-> inode]

NextIndirect(m, inode, table, k) ==
    LET b == FreeBlock(m)
        used == SubSeq(table, 1, k - DIRECT)
    IN  [m |-> Put(SyncBlock([m EXCEPT !.bbits = @ \cup {b}], "file.c:367", b),
                   "file.c:370", "block", inode.i_sectors[DIRECT],
                   [is |-> "table", at |-> Append(used, b)]),
         inode |-> inode]

file_write(p, e, byte) ==
    LET i == e.ino
        size == disk.inode[i].i_size
        s == FirstBlock(Begin, disk.inode[i])
        t == IF size + 1 < DIRECT THEN NextDirect(s.m, s.inode, size + 1)
             ELSE IF size + 1 = DIRECT THEN FirstIndirect(s.m, s.inode)
             ELSE NextIndirect(s.m, s.inode, TableOf(disk, i), size + 1)
        at == IF size < DIRECT THEN t.inode.i_sectors[size] ELSE BlockOf(disk, i, size)
        m == Put(t.m, "file.c:391", "block", at, [is |-> "data", byte |-> byte])
    IN  /\ AtRest /\ p \in Dirs(disk, None) /\ e \in Entries(disk, p) /\ e.type = "file"
        /\ size + 1 < DIRECT + INDIRECT
        /\ Cardinality(Block \ mem.bbits) >= 2
        /\ Starts(SyncInode(m, "file.c:406", i, [t.inode EXCEPT !.i_size = @ + 1]), p, e.name,
                  {IF IsNot(x.dir, x, [dir |-> p, name |-> e.name]) THEN x
                   ELSE [x EXCEPT !.bytes = Append(@, [is |-> "data", byte |-> byte])] : x \in kept})

----------------------------------------------------------------------------
\* The disk writes the next sector.
Written(d, w) ==
    CASE w.kind = "ibits" -> [d EXCEPT !.ibits = w.v]
      [] w.kind = "bbits" ->
           [d EXCEPT !.bbits = {b \in Block : b \in IF b \div BITS = w.i THEN w.v ELSE @}]
      [] w.kind = "inode" -> [d EXCEPT !.inode[w.i] = w.v]
      [] w.kind = "block" -> [d EXCEPT !.block[w.i] = w.v]

\* What a free block holds is written before it is read, so it is not kept.
Forget(d) ==
    [d EXCEPT !.block = [b \in Block |-> IF b \in d.bbits THEN @[b] ELSE Junk]]

\* inode_sync() puts the inode where another belongs (inode.c:50).
Misplaced(w) == w.kind = "inode" /\ w.v # Zeroed /\ w.v.i_no # w.i

\* file_write() has written the bit of the table's first block, but not that of
\* the table, which is in another sector of the bitmap (file.c:341).
Unmarked(w) ==
    w.at = "file.c:346" /\ w.i \div BITS # w.v.at[1] \div BITS

Write ==
    LET w == Head(pending)
        d == Written(disk, w)
    IN  /\ pending # <<>> /\ ~torn
        /\ pending' = Tail(pending)
        /\ disk' = IF Tail(pending) = <<>> THEN Forget(d) ELSE d
        /\ torn' = (Misplaced(w) \/ Unmarked(w))
        /\ kept' = IF Tail(pending) = <<>> THEN call.then ELSE kept
        /\ UNCHANGED <<mem, call, crashes>>

\* The calls after whose entry, and before whose next writes, the disk is not in
\* order: file_create() and sys_mkdir() between the entry and the inode's bit,
\* delete_dir_entry() between the entry or the block's bit and the directory.
Window == {"file.c:140", "file.c:142", "file.c:144", "fs.c:606", "fs.c:608",
           "fs.c:610", "dir.c:286"}

InWindow == pending # <<>> /\ Head(pending).at \in Window

\* A crash, and mount_partition(): the bitmaps are read, nothing is repaired.
Crash ==
    /\ crashes < MAX_CRASHES /\ ~torn
    /\ crashes' = crashes + 1
    /\ pending' = <<>>
    /\ disk' = Forget(disk)
    /\ mem' = [ibits |-> disk.ibits, bbits |-> disk.bbits]
    /\ torn' = InWindow
    /\ kept' = Files(disk, None)
    /\ call' = [call EXCEPT !.then = kept']

Next ==
    \/ \E p \in Ino, n \in Name : Create(p, n)
    \/ \E n \in Name : sys_mkdir(n)
    \/ \E p \in Dirs(disk, None) : \E e \in Entries(disk, p) :
         Unlink(p, e) \/ \E byte \in Byte : file_write(p, e, byte)
    \/ Write \/ Crash

Spec == Init /\ [][Next]_vars

----------------------------------------------------------------------------
\* The blocks of an inode, with those that its table names.
Uses(d, i) ==
    (Range(d.inode[i].i_sectors) \cup Range(TableOf(d, i))) \ {NoBlock}

\* Disk d is in order, up to bits that are set for nothing: each entry leads to
\* an inode of its own that is in use and was written, each block that an inode
\* uses is marked and belongs to it alone, and a directory's size counts its
\* entries.  The entry x, and size and blocks of directory x.dir, are not
\* looked at.
Sound(d, x) ==
    LET named == Named(d, x)
        inodes == {0} \cup {e.ino : e \in named}
    IN  /\ Cardinality(named) = Cardinality({e.ino : e \in named})
        /\ 0 \notin {e.ino : e \in named}
        /\ \A i \in inodes : i \in d.ibits /\ d.inode[i].i_no = i
        /\ \A i \in inodes \ {x.dir} : Uses(d, i) \subseteq d.bbits
        /\ \A i, j \in inodes : i # j => Uses(d, i) \cap Uses(d, j) = {}
        /\ \A i \in Dirs(d, x) \ {x.dir} : d.inode[i].i_size = 2 + Cardinality(Entries(d, i))

\* A crash leaves a disk that is in order, at any moment but in the windows of
\* Window; and in those only the entry and the directory that the call in
\* progress is about are not.
CrashSafe == ~torn => Sound(disk, IF InWindow THEN call ELSE None)

\* At any moment the disk shows the files, with all their bytes, as they were
\* before the call in progress or as they are after it: a crash loses at most
\* what that call does.  Only in the windows its own file is in neither state.
Durable ==
    ~torn =>
      IF InWindow THEN Files(disk, call) = {x \in kept : IsNot(x.dir, x, call)}
      ELSE Files(disk, None) \in {kept, call.then}

\* When a call has returned, the disk has the bitmaps that memory has, and as
\* long as there was no crash they mark what is in use and nothing else.
NothingLost ==
    AtRest =>
      /\ mem.ibits = disk.ibits /\ mem.bbits = disk.bbits
      /\ LET inodes == {0} \cup {e.ino : e \in Named(disk, None)}
         IN  crashes = 0 => /\ disk.ibits = inodes
                            /\ disk.bbits = UNION {Uses(disk, i) : i \in inodes}
=============================================================================
