------------------------------ MODULE Directory ------------------------------
(***************************************************************************)
(* The entries of one directory of Winx (fs/dir.c): search_dir_entry(),    *)
(* sync_dir_entry(), delete_dir_entry(), dir_read() and dir_is_empty() over *)
(* the blocks of the directory's inode.                                    *)
(*                                                                         *)
(* A directory is a row of places, ENTRIES in each block, some of them     *)
(* empty; a block whose last entry goes is freed and leaves a hole.  An    *)
(* entry is its name: the inode number in it is told by its place, so      *)
(* delete_dir_entry(), which looks for the number that a search has found, *)
(* takes the place.  Sizes and dir_pos count entries, not bytes.           *)
(***************************************************************************)
EXTENDS Naturals, FiniteSets, FiniteSetsExt

CONSTANTS
    Name,        \* the names of files, "." and ".." not among them
    Block,       \* the data blocks of the partition, positive numbers
    ENTRIES,     \* entries in a block (21)
    NDirect,     \* direct blocks of an inode (12)
    NIndirect,   \* entries of the indirect table (128)
    NULL

ASSUME DirectoryAssumption ==
    /\ IsFiniteSet(Block) /\ Block \subseteq Nat \ {0} /\ Block # {}
    /\ ENTRIES \in Nat /\ ENTRIES >= 2
    /\ NDirect \in Nat \ {0} /\ NIndirect \in Nat \ {0}
    /\ NULL \notin Name /\ {".", ".."} \cap Name = {}

VARIABLES
    free,     \* the clear bits of the block bitmap
    disk,     \* what each block holds: entries, or an indirect table
    size,     \* i_size, in entries
    sectors,  \* i_sectors
    dir_pos,  \* the position of the directory's reader, in entries
    seen,     \* the places that dir_read() has returned since the last rewind
    ended,    \* ... and it has returned NULL
    changed,  \* an entry has come or gone since the last rewind
    lost,     \* the tables that another table has replaced
    spoilt    \* sync_dir_entry() has taken stack garbage for the indirect table, or
              \* has dropped the table on a full disk

vars == <<free, disk, size, sectors, dir_pos, seen, ended, changed, lost,
          spoilt>>

Direct == 0..NDirect - 1
Indirect == NDirect..NDirect + NIndirect - 1
Index == Direct \cup Indirect
Table == NDirect + NIndirect   \* names i_sectors[12]

Slot == 0..ENTRIES - 1
Place == 0..ENTRIES * (NDirect + NIndirect) - 1

Blank == [s \in Slot |-> NULL]
NoTable == [i \in Indirect |-> 0]

TypeOK ==
    /\ free \subseteq Block
    /\ \A b \in Block : \/ disk[b] \in [Slot -> Name \cup {".", "..", NULL}]
                        \/ disk[b] \in [Indirect -> Block \cup {0}]
    /\ size \in Nat /\ dir_pos \in 0..Cardinality(Place)
    /\ sectors \in [Direct \cup {Table} -> Block \cup {0}]
    /\ seen \subseteq Place
    /\ lost \subseteq Block
    /\ {ended, changed, spoilt} \subseteq BOOLEAN

\* sys_mkdir(): a new directory has a block with its "." and "..".
Init ==
    LET b == Min(Block)
    IN  /\ free = Block \ {b}
        /\ disk = [c \in Block |->
                     IF c = b THEN [Blank EXCEPT ![0] = ".", ![1] = ".."] ELSE Blank]
        /\ size = 2
        /\ sectors = [i \in Direct \cup {Table} |-> IF i = 0 THEN b ELSE 0]
        /\ dir_pos = 0 /\ seen = {}
        /\ ended = FALSE /\ changed = FALSE /\ lost = {} /\ spoilt = FALSE

----------------------------------------------------------------------------
\* all_blocks, read in full: the direct blocks, and the table if there is one.
TableOf == IF sectors[Table] # 0 THEN disk[sectors[Table]] ELSE NoTable

BlockAt(i) == IF i \in Direct THEN sectors[i] ELSE TableOf[i]
AllBlocks == [i \in Index |-> BlockAt(i)]

Entry(p) == LET b == BlockAt(p \div ENTRIES)
            IN  IF b = 0 THEN NULL ELSE disk[b][p % ENTRIES]

Entries == {p \in Place : Entry(p) # NULL}

\* Mutant of Visited: the loop counts every block twice that is not a hole.
Visited_Skips == LET v[i \in Index] == i = 0 \/ ~(v[i - 1] /\ BlockAt(i - 1) # 0) IN v

\* The blocks that search_dir_entry() looks at: its loop counts a hole twice and
\* so leaves out the block behind it.
Visited == LET v[i \in Index] == i = 0 \/ ~(v[i - 1] /\ BlockAt(i - 1) = 0) IN v

Matches(n) == {p \in Place : Entry(p) = n /\ Visited[p \div ENTRIES]}

search_dir_entry(n) == IF Matches(n) = {} THEN NULL ELSE Min(Matches(n))

----------------------------------------------------------------------------
Changes == changed' = TRUE /\ UNCHANGED <<dir_pos, seen, ended>>

\* block_bitmap_alloc(): the first and the second free block.
First == Min(free)
Second == Min(free \ {First})

Alone(n) == [Blank EXCEPT ![0] = n]

\* The first index, of those whose blocks are in blocks, where an entry finds room.
Room(blocks) == {i \in Index : blocks[i] = 0 \/ \E s \in Slot : disk[blocks[i]][s] = NULL}

\* An entry in a block that is there.
Fill(n, b) ==
    /\ disk' = [disk EXCEPT ![b][Min({s \in Slot : disk[b][s] = NULL})] = n]
    /\ UNCHANGED <<free, sectors>>

\* A new direct block.
GrowDirect(n, i) ==
    /\ i \in Direct
    /\ free' = free \ {First}
    /\ sectors' = [sectors EXCEPT ![i] = First]
    /\ disk' = [disk EXCEPT ![First] = Alone(n)]

\* The table, and its first block; the table is written as it is on the stack.
\* This is done too when there is a table, without a block at its first index.
GrowTable(n, blocks) ==
    /\ free' = free \ {First, Second}
    /\ sectors' = [sectors EXCEPT ![Table] = First]
    /\ lost' = lost \cup ({sectors[Table]} \ {0})
    /\ disk' = [disk EXCEPT ![Second] = Alone(n),
                  ![First] = [j \in Indirect |-> IF j = NDirect THEN Second ELSE blocks[j]]]

\* Mutant of GrowIndirect: the table is not written back.
GrowIndirect_NoWrite(n, blocks, i) ==
    /\ i > NDirect
    /\ free' = free \ {First}
    /\ disk' = [disk EXCEPT ![First] = Alone(n)]
    /\ UNCHANGED sectors

\* Another block in the table.
GrowIndirect(n, blocks, i) ==
    /\ i > NDirect
    /\ free' = free \ {First}
    /\ disk' = [disk EXCEPT ![First] = Alone(n),
                  ![sectors[Table]] = [j \in Indirect |-> IF j = i THEN First ELSE blocks[j]]]
    /\ UNCHANGED sectors

\* The block of a new table is given back if there is none for its first entry; a
\* table that there was is dropped.
DropTable ==
    /\ sectors[Table] # 0
    /\ sectors' = [sectors EXCEPT ![Table] = 0]
    /\ lost' = lost \cup {sectors[Table]}
    /\ spoilt' = TRUE
    /\ UNCHANGED <<free, disk, size>>

\* sync_dir_entry().  The upper part of its all_blocks is not initialised: it is
\* what the stack holds, which may be nothing or what an earlier call left there.
\* In every other case without room nothing changes.
sync_dir_entry(n) == \E stack \in {NoTable, TableOf} :
    LET blocks == [i \in Index |-> IF i \in Direct THEN sectors[i] ELSE stack[i]]
        i == Min(Room(blocks))
    IN  /\ Room(blocks) # {}
        /\ \/ /\ \/ blocks[i] # 0 /\ Fill(n, blocks[i]) /\ UNCHANGED lost
                 \/ blocks[i] = 0 /\ free # {} /\ GrowDirect(n, i) /\ UNCHANGED lost
                 \/ blocks[i] = 0 /\ free # {} /\ GrowIndirect(n, blocks, i) /\ UNCHANGED lost
                 \/ blocks[i] = 0 /\ i = NDirect /\ Cardinality(free) > 1 /\ GrowTable(n, blocks)
              /\ size' = size + 1
              /\ spoilt' = (spoilt \/ (i \in Indirect /\ stack # TableOf))
           \/ blocks[i] = 0 /\ i = NDirect /\ Cardinality(free) = 1 /\ DropTable
        /\ Changes

\* sys_open() with O_CREAT, or sys_mkdir(): only a name that is not found is added.
create(n) == search_dir_entry(n) = NULL /\ sync_dir_entry(n)

----------------------------------------------------------------------------
\* The entries of a block that delete_dir_entry() counts.
Counted(b) == {s \in Slot : disk[b][s] \notin {NULL, ".", ".."}}

\* Mutant of FreeBlock: the table stays when its last block goes.
FreeBlock_KeepsTable(i, b) ==
    \/ /\ i \in Direct
       /\ free' = free \cup {b} /\ sectors' = [sectors EXCEPT ![i] = 0]
       /\ disk' = [disk EXCEPT ![b] = Blank]
    \/ /\ i \in Indirect
       /\ free' = free \cup {b} /\ UNCHANGED sectors
       /\ disk' = [disk EXCEPT ![b] = Blank, ![sectors[Table]][i] = 0]

\* The block b at index i goes, and the table with the last block in it.
FreeBlock(i, b) ==
    \/ /\ i \in Direct
       /\ free' = free \cup {b} /\ sectors' = [sectors EXCEPT ![i] = 0]
       /\ disk' = [disk EXCEPT ![b] = Blank]
    \/ /\ i \in Indirect /\ Cardinality({j \in Indirect : TableOf[j] # 0}) > 1
       /\ free' = free \cup {b} /\ UNCHANGED sectors
       /\ disk' = [disk EXCEPT ![b] = Blank, ![sectors[Table]][i] = 0]
    \/ /\ i \in Indirect /\ Cardinality({j \in Indirect : TableOf[j] # 0}) = 1
       /\ free' = free \cup {b, sectors[Table]}
       /\ sectors' = [sectors EXCEPT ![Table] = 0]
       /\ disk' = [disk EXCEPT ![b] = Blank, ![sectors[Table]] = Blank]

\* delete_dir_entry(): the block with the "." is never freed.
delete_dir_entry(p) ==
    LET i == p \div ENTRIES
        b == BlockAt(i)
    IN  /\ \/ /\ Cardinality(Counted(b)) = 1 /\ i # 0
              /\ FreeBlock(i, b)
           \/ /\ Cardinality(Counted(b)) # 1 \/ i = 0
              /\ disk' = [disk EXCEPT ![b][p % ENTRIES] = NULL]
              /\ UNCHANGED <<free, sectors>>
        /\ size' = size - 1
        /\ UNCHANGED <<lost, spoilt>>
        /\ Changes

\* sys_unlink() or sys_rmdir() of what the name is found to be.
remove(n) == search_dir_entry(n) # NULL /\ delete_dir_entry(search_dir_entry(n))

----------------------------------------------------------------------------
\* The place that dir_read() returns: entries are counted up to dir_pos.
Current == {p \in Entries : Cardinality({q \in Entries : q < p}) = dir_pos}

\* Mutant of dir_read: it stops one entry early.
dir_read_Early ==
    /\ \/ /\ dir_pos + 1 < size /\ Current # {}
          /\ seen' = seen \cup Current
          /\ dir_pos' = dir_pos + 1
          /\ UNCHANGED ended
       \/ /\ dir_pos + 1 >= size \/ Current = {}
          /\ ended' = TRUE
          /\ UNCHANGED <<dir_pos, seen>>
    /\ UNCHANGED <<free, disk, size, sectors, changed, lost, spoilt>>

dir_read ==
    /\ \/ /\ dir_pos < size /\ Current # {}
          /\ seen' = seen \cup Current
          /\ dir_pos' = dir_pos + 1
          /\ UNCHANGED ended
       \/ /\ dir_pos >= size \/ Current = {}
          /\ ended' = TRUE
          /\ UNCHANGED <<dir_pos, seen>>
    /\ UNCHANGED <<free, disk, size, sectors, changed, lost, spoilt>>

sys_rewinddir ==
    /\ dir_pos' = 0 /\ seen' = {} /\ ended' = FALSE /\ changed' = FALSE
    /\ UNCHANGED <<free, disk, size, sectors, lost, spoilt>>

Next == \/ \E n \in Name : create(n) \/ remove(n)
        \/ dir_read \/ sys_rewinddir

Spec == Init /\ [][Next]_vars

----------------------------------------------------------------------------
\* The properties below that are about what sync_dir_entry() stores hold as long
\* as it has not read garbage for an indirect table (dir.c:107) or dropped one
\* (dir.c:145).

\* i_size counts the entries, and the blocks in use are exactly those that the
\* inode and its table name, each once, but for tables replaced by another; no
\* block but the first is empty, and a table is there exactly if it names a block.
Accounted ==
    ~spoilt =>
      LET named == {i \in Index : AllBlocks[i] # 0}
          blocks == {AllBlocks[i] : i \in named} \cup ({sectors[Table]} \ {0})
      IN  /\ size = Cardinality(Entries)
          /\ free = Block \ (blocks \cup lost) /\ lost \cap blocks = {}
          /\ Cardinality(blocks) = Cardinality(named) + (IF sectors[Table] = 0 THEN 0 ELSE 1)
          /\ \A i \in named : i # 0 => Counted(AllBlocks[i]) # {}
          /\ (sectors[Table] # 0) <=> (named \cap Indirect # {})

\* A reader that reads to the end while nothing changes has got every entry once:
\* dir_pos has moved once for each.
ReadsAll ==
    ended /\ ~changed /\ ~spoilt => seen = Entries /\ dir_pos = Cardinality(seen)

\* A name in the directory is found, unless it is behind a hole.
Found ==
    \A p \in Entries :
      (\A i \in 0..p \div ENTRIES : BlockAt(i) # 0) =>
        search_dir_entry(Entry(p)) # NULL

=============================================================================
